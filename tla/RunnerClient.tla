---------------------------- MODULE RunnerClient ----------------------------
(***************************************************************************)
(* The runner process (runner.js, runner/task.js): its connection to the   *)
(* monitor, with the attempt deadline, the reconnection, the give-up and   *)
(* the shutdown, and the one ffmpeg task it drives.                        *)
(*                                                                         *)
(* The monitor is the environment: it accepts or refuses an attempt, lets  *)
(* it hang, assigns a task to a connection that has none, relays cancels,  *)
(* and may drop a connection at any time.  RunnerPool is its side of the   *)
(* same protocol; it takes from here that an assignment is answered on its *)
(* own connection or aborted with it.                                      *)
(***************************************************************************)
EXTENDS Naturals, Sequences, FiniteSets

CONSTANTS
    Sockets,    \* identities of connection attempts, reused once closed
    Tasks,      \* assignments
    NoSocket, NoTask

ASSUME RunnerAssumption == NoSocket \notin Sockets /\ NoTask \notin Tasks

VARIABLES
    local,      \* the monitor's own runner, which never gives up
    tokenOk,    \* the runner has the monitor's token
    says401,    \* the digits 401 occur in the monitor's address
    sock,       \* the state of each socket
    ws,         \* the current socket
    deadline,   \* the socket whose attempt deadline is armed
    timer,      \* the reconnect timer is armed
    outage,     \* how long the runner has been disconnected
    beat,       \* the socket the heartbeat is sent on
    current,    \* the task in hand
    proc,       \* the ffmpeg process of each task
    mail,       \* messages on their way to the runner
    answer,     \* the result on its way to the monitor
    lease,      \* the task the monitor has given to each connection
    fatal,      \* the fatal handler has been called
    shut        \* the shutdown: not asked for, awaiting the close, settled

vars == <<local, tokenOk, says401, sock, ws, deadline, timer, outage, beat,
          current, proc, mail, answer, lease, fatal, shut>>
env  == <<local, tokenOk, says401>>

Messages == [type : {"assign", "cancel"}, task : Tasks]
Idle     == [task |-> NoTask, socket |-> NoSocket, cancelled |-> FALSE]
stopped  == shut # "none"
Live     == {"connecting", "aborting", "open", "closing"}

(***************************************************************************)
(* The deadline guards an attempt and nothing else (runner.js:85-108).     *)
(***************************************************************************)
TypeOK ==
    /\ local \in BOOLEAN /\ tokenOk \in BOOLEAN /\ says401 \in BOOLEAN
    /\ sock \in [Sockets -> Live \cup {"none"}]
    /\ ws \in Sockets \cup {NoSocket}
    /\ deadline \in {NoSocket} \cup {s \in Sockets : sock[s] = "connecting"}
    /\ timer \in BOOLEAN
    /\ outage \in {"none", "within", "beyond"}
    /\ beat \in Sockets \cup {NoSocket}
    /\ current \in {Idle} \cup [task : Tasks, socket : Sockets, cancelled : BOOLEAN]
    /\ proc \in [Tasks -> {"none", "running", "termed", "killed", "gone"}]
    /\ mail \in [Sockets -> Seq(Messages)]
    /\ answer \in [Sockets -> Tasks \cup {NoTask}]
    /\ lease \in [Sockets -> Tasks \cup {NoTask}]
    /\ fatal \in BOOLEAN
    /\ shut \in {"none", "closing", "settled"}

Init ==
    /\ local \in BOOLEAN /\ says401 \in BOOLEAN
    /\ tokenOk \in BOOLEAN /\ (local => tokenOk)
    /\ ws \in Sockets /\ deadline = ws
    /\ sock = [s \in Sockets |-> IF s = ws THEN "connecting" ELSE "none"]
    /\ timer = FALSE /\ outage = "within" /\ beat = NoSocket
    /\ current = Idle /\ proc = [t \in Tasks |-> "none"]
    /\ mail = [s \in Sockets |-> <<>>]
    /\ answer = [s \in Sockets |-> NoTask]
    /\ lease = [s \in Sockets |-> NoTask]
    /\ fatal = FALSE /\ shut = "none"

(***************************************************************************)
(* abortCurrent: the task is settled without a result, its listeners are   *)
(* detached, and its process is killed.                                    *)
(***************************************************************************)
AbortCurrent ==
    /\ current' = Idle
    /\ proc' = [t \in Tasks |-> IF t = current.task /\ proc[t] \in {"running", "termed"}
                                THEN "killed" ELSE proc[t]]

AbortNothing == UNCHANGED <<current, proc>>

(***************************************************************************)
(* connect: a new socket, with its own deadline.                           *)
(***************************************************************************)
ConnectUnguarded ==
    /\ timer /\ ~stopped
    /\ timer' = FALSE
    /\ \E s \in Sockets : /\ sock[s] = "none"
                          /\ sock' = [sock EXCEPT ![s] = "connecting"]
                          /\ ws' = s /\ deadline' = NoSocket
    /\ outage' = IF outage = "none" THEN "within" ELSE outage
    /\ UNCHANGED <<env, beat, current, proc, mail, answer, lease, fatal, shut>>

Connect ==
    /\ timer /\ ~stopped
    /\ timer' = FALSE
    /\ \E s \in Sockets : /\ sock[s] = "none"
                          /\ sock' = [sock EXCEPT ![s] = "connecting"]
                          /\ ws' = s /\ deadline' = s
    /\ outage' = IF outage = "none" THEN "within" ELSE outage
    /\ UNCHANGED <<env, beat, current, proc, mail, answer, lease, fatal, shut>>

(***************************************************************************)
(* scheduleReconnect: only a remote runner gives up, once the outage has   *)
(* lasted longer than the window.  Its supervisor then shuts it down,      *)
(* which with no socket settles at once.  In a shutdown the close is what  *)
(* the shutdown awaits.                                                    *)
(***************************************************************************)
ReconnectDecision == IF outage = "beyond" /\ ~local THEN "exit" ELSE "retry"

ScheduleReconnect ==
    \/ /\ stopped
       /\ UNCHANGED <<timer, outage, fatal>>
       /\ shut' = "settled"
    \/ /\ ~stopped /\ ReconnectDecision = "exit"
       /\ fatal' = TRUE /\ shut' = "settled" /\ UNCHANGED <<timer, outage>>
    \/ /\ ~stopped /\ ReconnectDecision = "retry"
       /\ timer' = TRUE /\ outage' = IF outage = "none" THEN "within" ELSE outage
       /\ UNCHANGED <<fatal, shut>>

(***************************************************************************)
(* The close listener of s.  A socket that is no longer the current one    *)
(* changes nothing but its own deadline.                                   *)
(***************************************************************************)
Gone(s) ==
    /\ sock' = [sock EXCEPT ![s] = "none"]
    /\ mail' = [mail EXCEPT ![s] = <<>>]
    /\ answer' = [answer EXCEPT ![s] = NoTask]
    /\ lease' = [lease EXCEPT ![s] = NoTask]
    /\ deadline' = IF deadline = s THEN NoSocket ELSE deadline

OnCloseKeepingTask(s) ==
    /\ Gone(s)
    /\ IF ws = s
       THEN /\ ws' = NoSocket /\ beat' = NoSocket
            /\ AbortNothing /\ ScheduleReconnect
       ELSE UNCHANGED <<ws, beat, current, proc, timer, outage, fatal, shut>>

OnClose(s) ==
    /\ Gone(s)
    /\ IF ws = s
       THEN /\ ws' = NoSocket /\ beat' = NoSocket
            /\ AbortCurrent /\ ScheduleReconnect
       ELSE UNCHANGED <<ws, beat, current, proc, timer, outage, fatal, shut>>

(***************************************************************************)
(* The open listener.                                                      *)
(***************************************************************************)
OpenedUnderDeadline(s) ==
    /\ sock[s] = "connecting" /\ tokenOk
    /\ sock' = [sock EXCEPT ![s] = IF ws # s \/ stopped THEN "closing" ELSE "open"]
    /\ IF ws # s \/ stopped THEN UNCHANGED <<outage, beat>>
                            ELSE outage' = "none" /\ beat' = s
    /\ UNCHANGED <<env, ws, deadline, timer, current, proc, mail, answer, lease,
                   fatal, shut>>

Opened(s) ==
    /\ sock[s] = "connecting" /\ tokenOk
    /\ sock' = [sock EXCEPT ![s] = IF ws # s \/ stopped THEN "closing" ELSE "open"]
    /\ deadline' = IF deadline = s THEN NoSocket ELSE deadline
    /\ IF ws # s \/ stopped THEN UNCHANGED <<outage, beat>>
                            ELSE outage' = "none" /\ beat' = s
    /\ UNCHANGED <<env, ws, timer, current, proc, mail, answer, lease, fatal, shut>>

(***************************************************************************)
(* A failed attempt: the error listener and, in the same tick, the close   *)
(* listener.  An error whose text contains 401 is taken for a refused      *)
(* token: a remote runner is shut down by its supervisor, the local one    *)
(* does not reconnect.  The text of a network error contains the address.  *)
(***************************************************************************)
Error401 == \/ ~tokenOk
            \/ says401

Refused(s) ==
    /\ sock[s] = "connecting" /\ ws = s
    /\ UNCHANGED env
    /\ \/ OnClose(s)                  \* any other error
       \/ /\ Error401
          /\ Gone(s) /\ AbortCurrent
          /\ ws' = NoSocket /\ beat' = NoSocket
          /\ fatal' = (fatal \/ ~local)
          /\ shut' = IF local THEN shut ELSE "settled"
          /\ UNCHANGED <<timer, outage>>

(***************************************************************************)
(* The deadline of the attempt terminates its socket; the close listener   *)
(* runs on a later tick.                                                   *)
(***************************************************************************)
AttemptTimeout(s) ==
    /\ deadline = s
    /\ deadline' = NoSocket
    /\ sock' = [sock EXCEPT ![s] = "aborting"]
    /\ UNCHANGED <<env, ws, timer, outage, beat, current, proc, mail, answer, lease,
                   fatal, shut>>

\* The connection ends: it was terminated, or the other side closed or lost it.
Closed(s) ==
    /\ sock[s] \in {"aborting", "open", "closing"}
    /\ OnClose(s)
    /\ UNCHANGED env

OutageAges ==
    /\ outage = "within" /\ outage' = "beyond"
    /\ UNCHANGED <<env, sock, ws, deadline, timer, beat, current, proc, mail, answer,
                   lease, fatal, shut>>

(***************************************************************************)
(* The monitor's side of an open connection.                               *)
(***************************************************************************)
MonitorSends(s) ==
    /\ sock[s] = "open"
    /\ UNCHANGED <<env, sock, ws, deadline, timer, outage, beat, current, proc,
                   answer, fatal, shut>>
    /\ \/ \E t \in Tasks :
             /\ lease[s] = NoTask /\ proc[t] = "none"
             /\ \A r \in Sockets : lease[r] # t
             /\ lease' = [lease EXCEPT ![s] = t]
             /\ mail' = [mail EXCEPT ![s] = Append(@, [type |-> "assign", task |-> t])]
       \/ /\ lease[s] # NoTask /\ Len(mail[s]) < 2
          /\ mail' = [mail EXCEPT ![s] = Append(@, [type |-> "cancel", task |-> lease[s]])]
          /\ UNCHANGED lease

ResultArrives(s) ==
    /\ answer[s] # NoTask
    /\ lease' = [lease EXCEPT ![s] = IF @ = answer[s] THEN NoTask ELSE @]
    /\ answer' = [answer EXCEPT ![s] = NoTask]
    /\ UNCHANGED <<env, sock, ws, deadline, timer, outage, beat, current, proc, mail,
                   fatal, shut>>

(***************************************************************************)
(* finish: the only settlement of a task; its result goes to the socket    *)
(* the assignment came by, and is dropped when that is not open.           *)
(***************************************************************************)
Answer(s, t) == answer' = IF sock[s] = "open" THEN [answer EXCEPT ![s] = t] ELSE answer

(***************************************************************************)
(* startTask: ignored while busy; a missing input or a failing spawn is    *)
(* answered at once.                                                       *)
(***************************************************************************)
StartTask(s, t) ==
    IF current # Idle
    THEN UNCHANGED <<current, proc, answer>>
    ELSE \/ /\ current' = [task |-> t, socket |-> s, cancelled |-> FALSE]
            /\ proc' = [proc EXCEPT ![t] = "running"]
            /\ UNCHANGED answer
         \/ /\ proc' = [proc EXCEPT ![t] = "gone"]
            /\ Answer(s, t)
            /\ UNCHANGED current

CancelTask(t) ==
    /\ UNCHANGED answer
    /\ IF current.task = t
       THEN /\ current' = [current EXCEPT !.cancelled = TRUE]
            /\ proc' = [proc EXCEPT ![t] = IF @ = "running" THEN "termed" ELSE @]
       ELSE UNCHANGED <<current, proc>>

\* handleMessage.
Receive(s) ==
    /\ sock[s] \in {"open", "closing"} /\ mail[s] # <<>>
    /\ mail' = [mail EXCEPT ![s] = Tail(@)]
    /\ LET m == Head(mail[s]) IN
       \/ /\ stopped /\ UNCHANGED <<current, proc, answer>>
       \/ /\ ~stopped /\ m.type = "assign" /\ StartTask(s, m.task)
       \/ /\ ~stopped /\ m.type = "cancel" /\ CancelTask(m.task)
    /\ UNCHANGED <<env, sock, ws, deadline, timer, outage, beat, lease, fatal, shut>>

(***************************************************************************)
(* ffmpeg ends, or reports an error.  The listeners are attached only      *)
(* while its task is the current one.                                      *)
(***************************************************************************)
ProcessEnds(t) ==
    /\ proc[t] \in {"running", "termed", "killed"}
    /\ proc' = [proc EXCEPT ![t] = "gone"]
    /\ IF current.task = t
       THEN Answer(current.socket, t) /\ current' = Idle
       ELSE UNCHANGED <<answer, current>>
    /\ UNCHANGED <<env, sock, ws, deadline, timer, outage, beat, mail, lease, fatal, shut>>

KillTimerTerminates(t) ==
    /\ current.task = t /\ current.cancelled /\ proc[t] = "termed"
    /\ proc' = [proc EXCEPT ![t] = "termed"]
    /\ UNCHANGED <<env, sock, ws, deadline, timer, outage, beat, current, mail,
                   answer, lease, fatal, shut>>

KillTimer(t) ==
    /\ current.task = t /\ current.cancelled /\ proc[t] = "termed"
    /\ proc' = [proc EXCEPT ![t] = "killed"]
    /\ UNCHANGED <<env, sock, ws, deadline, timer, outage, beat, current, mail,
                   answer, lease, fatal, shut>>

(***************************************************************************)
(* shutdown: the barrier, then the wait for the close of the socket that   *)
(* was current, which a timer ends.                                        *)
(***************************************************************************)
Shutdown ==
    /\ ~stopped
    /\ deadline' = NoSocket /\ timer' = FALSE /\ beat' = NoSocket
    /\ AbortCurrent
    /\ IF ws = NoSocket
       THEN shut' = "settled" /\ UNCHANGED sock
       ELSE /\ shut' = "closing"
            /\ sock' = [sock EXCEPT ![ws] = CASE @ = "connecting" -> "aborting"
                                              [] @ = "open"       -> "closing"
                                              [] OTHER            -> @]
    /\ UNCHANGED <<env, ws, outage, mail, answer, lease, fatal>>

CloseTimer ==
    /\ shut = "closing" /\ sock[ws] = "closing"
    /\ sock' = [sock EXCEPT ![ws] = "aborting"]
    /\ UNCHANGED <<env, ws, deadline, timer, outage, beat, current, proc, mail, answer,
                   lease, fatal, shut>>

Next ==
    \/ Connect \/ OutageAges \/ Shutdown \/ CloseTimer
    \/ \E s \in Sockets : \/ Opened(s) \/ Refused(s) \/ AttemptTimeout(s)
                          \/ Closed(s) \/ MonitorSends(s) \/ ResultArrives(s)
                          \/ Receive(s)
    \/ \E t \in Tasks : ProcessEnds(t) \/ KillTimer(t)

Spec == Init /\ [][Next]_vars

(***************************************************************************)
(* Timers fire, a terminated socket reports its close, a connection that   *)
(* stays open delivers what is sent on it, and a killed process ends.      *)
(* Nothing is assumed of the monitor, nor of an ffmpeg that is not killed. *)
(***************************************************************************)
Fairness ==
    /\ WF_vars(Connect) /\ WF_vars(OutageAges) /\ WF_vars(CloseTimer)
    /\ \A s \in Sockets : /\ WF_vars(AttemptTimeout(s))
                          /\ WF_vars(sock[s] = "aborting" /\ Closed(s))
                          /\ WF_vars(Receive(s)) /\ WF_vars(ResultArrives(s))
    /\ \A t \in Tasks : /\ WF_vars(KillTimer(t))
                        /\ WF_vars(proc[t] = "killed" /\ ProcessEnds(t))

FairSpec == Spec /\ Fairness

(***************************************************************************)
(* What the runner executes is what its one connection was assigned: there *)
(* is at most one socket at a time, and the reconnect timer is armed only  *)
(* between two; a process that was not killed belongs to the task in hand, *)
(* and that to the open connection; and a task the monitor waits for is on *)
(* its way, in hand, or answered, so no assignment is ignored as busy and  *)
(* forgotten (runner.js:140-156, 172-180, 206-219, runner/task.js:51-80,   *)
(* 158-168).                                                               *)
(***************************************************************************)
WorkBelongsToConnection ==
    /\ \A s \in Sockets : sock[s] # "none" => ws = s
    /\ timer => ws = NoSocket
    /\ \A t \in Tasks : proc[t] \in {"running", "termed"} => current.task = t
    /\ current # Idle => /\ current.socket = ws /\ sock[ws] = "open"
                         /\ lease[ws] = current.task
    /\ beat = IF ws # NoSocket /\ sock[ws] = "open" THEN ws ELSE NoSocket
    /\ \A s \in Sockets : sock[s] = "open" /\ lease[s] # NoTask =>
          \/ \E i \in 1..Len(mail[s]) : mail[s][i] = [type |-> "assign", task |-> lease[s]]
          \/ current.task = lease[s]
          \/ answer[s] = lease[s]

(***************************************************************************)
(* A cancelled task is answered, or its connection ends, also when ffmpeg  *)
(* does not obey SIGTERM (runner/task.js:134-153).                         *)
(***************************************************************************)
CancelIsAnswered ==
    \A s \in Sockets, t \in Tasks :
        (current.task = t /\ current.cancelled /\ lease[s] = t) ~> (lease[s] # t)

(***************************************************************************)
(* No attempt hangs and no outage ends the trying: a runner that is not    *)
(* stopped is connected, or between two attempts, again and again; only a  *)
(* remote one gives up, and it does when it cannot connect; a shutdown     *)
(* settles (runner.js:10-14, 73-83, 248-304).  A runner whose address      *)
(* contains 401 is left out, see LocalRunnerKeepsTrying.                   *)
(***************************************************************************)
Connected == ws # NoSocket /\ sock[ws] = "open"

KeepsTrying ==
    /\ ~says401 => ([]<>(Connected \/ timer) \/ <>stopped)
    /\ ~local   => ([]<>Connected \/ <>stopped)
    /\ [](fatal /\ tokenOk /\ ~says401 => outage = "beyond")
    /\ stopped ~> (shut = "settled")

(***************************************************************************)
(* What runner.js:13-14 and 74-75 say of the monitor's own runner: it      *)
(* retries forever.                                                        *)
(***************************************************************************)
LocalRunnerKeepsTrying ==
    local /\ ~stopped => ws # NoSocket \/ timer
=============================================================================
