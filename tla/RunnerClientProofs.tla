------------------------- MODULE RunnerClientProofs -------------------------
(***************************************************************************)
(* Theorems about RunnerClient for any set of sockets and of assignments.  *)
(***************************************************************************)
EXTENDS RunnerClient, TLAPS

\* There is one socket at a time, and it is the current one.  An open one sends
\* heartbeats; a shutdown has closed it and aborted its task; and a socket that
\* has not been open has nothing on its way.
OneConnection ==
    /\ \A s \in Sockets : sock[s] # "none" => ws = s
    /\ ws # NoSocket => sock[ws] # "none"
    /\ timer => ws = NoSocket
    /\ beat = IF ws # NoSocket /\ sock[ws] = "open" THEN ws ELSE NoSocket
    /\ \A s \in Sockets : sock[s] = "closing" => stopped
    /\ stopped => /\ current = Idle
                  /\ \A s \in Sockets : sock[s] \notin {"connecting", "open"}
    /\ shut = "closing" => ws # NoSocket
    /\ \A s \in Sockets : sock[s] \in {"none", "connecting"}
          => mail[s] = <<>> /\ lease[s] = NoTask /\ answer[s] = NoTask

\* An assignment is in one place: on its way to the runner, in hand, or answered.
OnItsWay(s, i) == i \in 1..Len(mail[s]) /\ mail[s][i].type = "assign"

OnePlace ==
    /\ \A s \in Sockets, i \in Nat : OnItsWay(s, i)
          => mail[s][i].task = lease[s] /\ current = Idle /\ answer[s] = NoTask
    /\ \A s \in Sockets, i, k \in Nat : OnItsWay(s, i) /\ OnItsWay(s, k) => i = k
    /\ \A s \in Sockets : answer[s] # NoTask => answer[s] = lease[s] /\ current = Idle
    /\ current # Idle => /\ current.socket = ws /\ sock[ws] = "open"
                         /\ lease[ws] = current.task
    /\ \A t \in Tasks : proc[t] \in {"running", "termed"} => current.task = t
    /\ \A s \in Sockets : sock[s] = "open" /\ lease[s] # NoTask =>
          (\E i \in Nat : OnItsWay(s, i)) \/ current # Idle \/ answer[s] # NoTask

-----------------------------------------------------------------------------
\* The task in hand is a record of the declared set.
InHand == [task : Tasks, socket : Sockets, cancelled : BOOLEAN]

\* It stays one when it is cancelled.
LEMMA CurrentType ==
    ASSUME TypeOK, NEW t \in Tasks
    PROVE  /\ current.task = t => current # Idle
           /\ current # Idle => current \in InHand
           /\ current.task = t => [current EXCEPT !.cancelled = TRUE] \in InHand
  <1>1. CASE current = Idle
    BY <1>1, RunnerAssumption DEF Idle
  <1>2. CASE current # Idle
    <2>1. current \in InHand
      BY <1>2 DEF TypeOK, InHand
    <2> QED
      BY <1>2, <2>1 DEF InHand
  <1> QED
    BY <1>1, <1>2

\* The messages of a socket, one more of them, and all but the first.
LEMMA MailType ==
    ASSUME TypeOK, NEW s \in Sockets
    PROVE  /\ mail[s] # <<>> => /\ Head(mail[s]) \in Messages
                                /\ Tail(mail[s]) \in Seq(Messages)
           /\ \A m \in Messages : Append(mail[s], m) \in Seq(Messages)
           /\ <<>> \in Seq(Messages)
  BY DEF TypeOK

\* When a socket ends it was the current one, and the task in hand ends with it.
LEMMA SocketEnds ==
    ASSUME TypeOK, OneConnection, NEW s \in Sockets, Refused(s) \/ Closed(s)
    PROVE  /\ ws = s /\ ws' = NoSocket /\ beat' = NoSocket
           /\ Gone(s) /\ AbortCurrent /\ UNCHANGED env
           /\ fatal' \in BOOLEAN /\ timer' \in BOOLEAN
           /\ outage' \in {"none", "within", "beyond"}
           /\ shut' \in {"none", "settled"}
           /\ stopped => shut' # "none"
  <1>1. ws = s
    BY DEF Refused, Closed, OneConnection
  <1>2. CASE OnClose(s) /\ UNCHANGED env
    <2>1. /\ Gone(s) /\ AbortCurrent /\ ScheduleReconnect
          /\ ws' = NoSocket /\ beat' = NoSocket
      BY <1>1, <1>2 DEF OnClose
    <2>2. /\ shut' \in {"none", "settled"} /\ (stopped => shut' # "none")
          /\ outage' \in {"none", "within", "beyond"}
      BY <2>1 DEF ScheduleReconnect, TypeOK, stopped
    <2>3. fatal' \in BOOLEAN /\ timer' \in BOOLEAN
      BY <2>1 DEF ScheduleReconnect, TypeOK
    <2> QED
      BY <1>1, <1>2, <2>1, <2>2, <2>3
  <1>3. CASE /\ sock[s] = "connecting"
             /\ Gone(s) /\ AbortCurrent
             /\ ws' = NoSocket /\ beat' = NoSocket
             /\ fatal' = (fatal \/ ~local)
             /\ shut' = IF local THEN shut ELSE "settled"
             /\ UNCHANGED <<timer, outage, env>>
    <2>1. ~stopped
      BY <1>3 DEF OneConnection
    <2>2. shut' \in {"none", "settled"}
      BY <1>3, <2>1 DEF stopped
    <2>3. fatal' \in BOOLEAN /\ timer' \in BOOLEAN
      BY <1>3 DEF TypeOK
    <2>4. outage' \in {"none", "within", "beyond"}
      BY <1>3 DEF TypeOK
    <2> QED
      BY <1>1, <1>3, <2>1, <2>2, <2>3, <2>4
  <1> QED
    BY <1>2, <1>3, Zenon DEF Refused, Closed, env

\* Where the assignments are after one more message.
LEMMA AppendWay ==
    ASSUME TypeOK, NEW s \in Sockets, NEW m \in Messages,
           mail' = [mail EXCEPT ![s] = Append(@, m)]
    PROVE  \A r \in Sockets, i \in Nat :
             /\ OnItsWay(r, i)' <=> \/ OnItsWay(r, i)
                                    \/ r = s /\ i = Len(mail[s]) + 1 /\ m.type = "assign"
             /\ OnItsWay(r, i) => mail'[r][i] = mail[r][i]
             /\ r = s /\ i = Len(mail[s]) + 1 => mail'[r][i] = m
  BY DEF TypeOK, OnItsWay

\* And after one less.
LEMMA TailWay ==
    ASSUME TypeOK, NEW s \in Sockets, mail[s] # <<>>,
           mail' = [mail EXCEPT ![s] = Tail(@)]
    PROVE  /\ \A r \in Sockets \ {s} : mail'[r] = mail[r]
           /\ \A i \in Nat : OnItsWay(s, i)' => /\ i # 0 /\ OnItsWay(s, i + 1)
                                                /\ mail'[s][i] = mail[s][i + 1]
           /\ \A i \in Nat : OnItsWay(s, i + 1) /\ i # 0 => OnItsWay(s, i)'
           /\ OnItsWay(s, 1) <=> Head(mail[s]).type = "assign"
           /\ mail[s][1] = Head(mail[s])
  BY DEF TypeOK, OnItsWay

\* A message on its way names a task.
LEMMA MessageAt ==
    ASSUME TypeOK, NEW s \in Sockets, NEW i \in Nat, OnItsWay(s, i)
    PROVE  mail[s][i].task # NoTask
  <1>1. mail[s] \in Seq(Messages) /\ i \in 1..Len(mail[s])
    BY DEF TypeOK, OnItsWay
  <1>2. mail[s][i] \in Messages
    BY <1>1
  <1> QED
    BY <1>2, RunnerAssumption DEF Messages

\* The task in hand is a task.
LEMMA HandTask ==
    ASSUME TypeOK, current # Idle
    PROVE  current.task # NoTask
  BY RunnerAssumption DEF TypeOK

\* No task is in hand when the runner is idle.
LEMMA IdleTask == Idle.task = NoTask
  BY DEF Idle

\* A queue has a length.
LEMMA MailLen ==
    ASSUME TypeOK, NEW s \in Sockets
    PROVE  Len(mail[s]) + 1 \in Nat
  BY DEF TypeOK

\* Every step of the runner keeps the types.
LEMMA StepType == TypeOK /\ OneConnection /\ [Next]_vars => TypeOK'
  <1> SUFFICES ASSUME TypeOK, OneConnection, [Next]_vars
               PROVE  TypeOK'
    OBVIOUS
  <1> USE RunnerAssumption DEF TypeOK, Live
  <1>1. CASE Connect
    <2>1. PICK s \in Sockets : /\ sock[s] = "none" /\ ws' = s /\ deadline' = s
                               /\ sock' = [sock EXCEPT ![s] = "connecting"]
      BY <1>1 DEF Connect
    <2>2. timer' \in BOOLEAN /\ outage' \in {"none", "within", "beyond"}
      BY <1>1 DEF Connect
    <2>3. UNCHANGED <<env, beat, current, proc, mail, answer, lease, fatal, shut>>
      BY <1>1 DEF Connect
    <2> QED
      BY <2>1, <2>2, <2>3 DEF env
  <1>2. CASE OutageAges
    BY <1>2 DEF OutageAges, env
  <1>3. CASE Shutdown
    <2>1. shut' \in {"none", "closing", "settled"}
      BY <1>3 DEF Shutdown
    <2>2. sock' \in [Sockets -> Live \cup {"none"}]
      BY <1>3 DEF Shutdown
    <2>3. timer' = FALSE /\ deadline' = NoSocket /\ beat' = NoSocket /\ AbortCurrent
          /\ UNCHANGED <<env, ws, outage, mail, answer, lease, fatal>>
      BY <1>3 DEF Shutdown
    <2> QED
      BY <2>1, <2>2, <2>3 DEF env, AbortCurrent
  <1>4. CASE CloseTimer
    BY <1>4 DEF CloseTimer, env
  <1>5. ASSUME NEW s \in Sockets, Opened(s) PROVE TypeOK'
    BY <1>5 DEF Opened, env, stopped
  <1>6. ASSUME NEW s \in Sockets, Refused(s) PROVE TypeOK'
    <2>1. /\ Gone(s) /\ AbortCurrent /\ ws' = NoSocket /\ beat' = NoSocket
          /\ UNCHANGED env
          /\ fatal' \in BOOLEAN /\ timer' \in BOOLEAN
          /\ outage' \in {"none", "within", "beyond"} /\ shut' \in {"none", "settled"}
      BY <1>6, SocketEnds
    <2> QED
      BY <2>1, MailType DEF Gone, AbortCurrent, env
  <1>7. ASSUME NEW s \in Sockets, AttemptTimeout(s) PROVE TypeOK'
    BY <1>7 DEF AttemptTimeout, env
  <1>8. ASSUME NEW s \in Sockets, Closed(s) PROVE TypeOK'
    <2>1. /\ Gone(s) /\ AbortCurrent /\ ws' = NoSocket /\ beat' = NoSocket
          /\ UNCHANGED env
          /\ fatal' \in BOOLEAN /\ timer' \in BOOLEAN
          /\ outage' \in {"none", "within", "beyond"} /\ shut' \in {"none", "settled"}
      BY <1>8, SocketEnds
    <2> QED
      BY <2>1, MailType DEF Gone, AbortCurrent, env
  <1>9. ASSUME NEW s \in Sockets, MonitorSends(s) PROVE TypeOK'
    <2>1. /\ lease' \in [Sockets -> Tasks \cup {NoTask}]
          /\ mail' \in [Sockets -> Seq(Messages)]
      <3>1. CASE \E t \in Tasks :
                    /\ lease' = [lease EXCEPT ![s] = t]
                    /\ mail' = [mail EXCEPT ![s] = Append(@, [type |-> "assign", task |-> t])]
        <4>1. PICK t \in Tasks :
                /\ lease' = [lease EXCEPT ![s] = t]
                /\ mail' = [mail EXCEPT ![s] = Append(@, [type |-> "assign", task |-> t])]
          BY <3>1
        <4>2. [type |-> "assign", task |-> t] \in Messages
          BY DEF Messages
        <4>3. Append(mail[s], [type |-> "assign", task |-> t]) \in Seq(Messages)
          BY <4>2, MailType
        <4> QED
          BY <4>1, <4>3
      <3>2. CASE /\ lease[s] # NoTask /\ UNCHANGED lease
                 /\ mail' = [mail EXCEPT ![s] = Append(@, [type |-> "cancel", task |-> lease[s]])]
        <4>1. lease[s] \in Tasks
          BY <3>2
        <4> QED
          BY <3>2, <4>1, MailType DEF Messages
      <3> QED
        BY <1>9, <3>1, <3>2 DEF MonitorSends
    <2>2. UNCHANGED <<env, sock, ws, deadline, timer, outage, beat, current, proc,
                      answer, fatal, shut>>
      BY <1>9 DEF MonitorSends
    <2> QED
      BY <2>1, <2>2 DEF env
  <1>10. ASSUME NEW s \in Sockets, ResultArrives(s) PROVE TypeOK'
    BY <1>10 DEF ResultArrives, env
  <1>11. ASSUME NEW s \in Sockets, Receive(s) PROVE TypeOK'
    <2>1. mail' \in [Sockets -> Seq(Messages)]
      BY <1>11, MailType DEF Receive
    <2>2. PICK m \in Messages : \/ UNCHANGED <<current, proc, answer>>
                                \/ StartTask(s, m.task) \/ CancelTask(m.task)
      BY <1>11, MailType DEF Receive
    <2>3. m.task \in Tasks
      BY DEF Messages
    <2>4. current' \in {Idle} \cup InHand /\ answer' \in [Sockets -> Tasks \cup {NoTask}]
      <3>1. CASE UNCHANGED <<current, answer>>
        BY <3>1 DEF InHand
      <3>2. CASE StartTask(s, m.task)
        <4>1. [task |-> m.task, socket |-> s, cancelled |-> FALSE] \in InHand
          BY <2>3 DEF InHand
        <4>2. Answer(s, m.task) => answer' \in [Sockets -> Tasks \cup {NoTask}]
          BY <2>3 DEF Answer
        <4> QED
          BY <3>1, <3>2, <4>1, <4>2 DEF StartTask, InHand
      <3>3. CASE CancelTask(m.task)
        BY <2>3, <3>3, CurrentType DEF CancelTask, InHand
      <3> QED
        BY <2>2, <3>1, <3>2, <3>3
    <2>5. proc' \in [Tasks -> {"none", "running", "termed", "killed", "gone"}]
      BY <2>2, <2>3 DEF StartTask, CancelTask
    <2>6. UNCHANGED <<env, sock, ws, deadline, timer, outage, beat, lease, fatal, shut>>
      BY <1>11 DEF Receive
    <2> QED
      BY <2>1, <2>4, <2>5, <2>6 DEF env, InHand
  <1>12. ASSUME NEW t \in Tasks, ProcessEnds(t) PROVE TypeOK'
    <2>1. current' \in {Idle} \cup InHand /\ answer' \in [Sockets -> Tasks \cup {NoTask}]
      <3>1. CASE current.task = t
        <4>1. current.socket \in Sockets
          BY <3>1, CurrentType DEF InHand
        <4> QED
          BY <1>12, <3>1, <4>1 DEF ProcessEnds, Answer
      <3>2. CASE current.task # t
        BY <1>12, <3>2 DEF ProcessEnds, InHand
      <3> QED
        BY <3>1, <3>2
    <2>2. proc' \in [Tasks -> {"none", "running", "termed", "killed", "gone"}]
      BY <1>12 DEF ProcessEnds
    <2>3. UNCHANGED <<env, sock, ws, deadline, timer, outage, beat, mail, lease, fatal,
                      shut>>
      BY <1>12 DEF ProcessEnds
    <2> QED
      BY <2>1, <2>2, <2>3 DEF env, InHand
  <1>13. ASSUME NEW t \in Tasks, KillTimer(t) PROVE TypeOK'
    BY <1>13 DEF KillTimer, env
  <1>14. CASE UNCHANGED vars
    BY <1>14 DEF vars, env
  <1> QED
    BY <1>1, <1>2, <1>3, <1>4, <1>5, <1>6, <1>7, <1>8, <1>9, <1>10,
       <1>11, <1>12, <1>13, <1>14 DEF Next

\* Every step keeps one connection.
LEMMA StepConnection == TypeOK /\ OneConnection /\ [Next]_vars => OneConnection'
  <1> SUFFICES ASSUME TypeOK, OneConnection, [Next]_vars
               PROVE  OneConnection'
    OBVIOUS
  <1> USE RunnerAssumption DEF TypeOK, OneConnection, stopped, Live
  <1>1. CASE Connect
    BY <1>1 DEF Connect, env
  <1>2. CASE OutageAges
    BY <1>2 DEF OutageAges, env
  <1>3. CASE Shutdown
    BY <1>3 DEF Shutdown, env, AbortCurrent
  <1>4. CASE CloseTimer
    BY <1>4 DEF CloseTimer, env
  <1>5. ASSUME NEW s \in Sockets, Opened(s) PROVE OneConnection'
    BY <1>5 DEF Opened, env
  <1>6. ASSUME NEW s \in Sockets, Refused(s) PROVE OneConnection'
    <2>1. /\ ws = s /\ Gone(s) /\ AbortCurrent
          /\ ws' = NoSocket /\ beat' = NoSocket
          /\ shut' \in {"none", "settled"} /\ (stopped => shut' # "none")
      BY <1>6, SocketEnds
    <2>2. \A r \in Sockets : /\ sock'[r] = "none" /\ mail'[r] = <<>>
                             /\ lease'[r] = NoTask /\ answer'[r] = NoTask
      BY <2>1 DEF Gone
    <2>3. current' = Idle
      BY <2>1 DEF AbortCurrent
    <2> QED
      BY <2>1, <2>2, <2>3
  <1>7. ASSUME NEW s \in Sockets, AttemptTimeout(s) PROVE OneConnection'
    BY <1>7 DEF AttemptTimeout, env
  <1>8. ASSUME NEW s \in Sockets, Closed(s) PROVE OneConnection'
    <2>1. /\ ws = s /\ Gone(s) /\ AbortCurrent
          /\ ws' = NoSocket /\ beat' = NoSocket
          /\ shut' \in {"none", "settled"} /\ (stopped => shut' # "none")
      BY <1>8, SocketEnds
    <2>2. \A r \in Sockets : /\ sock'[r] = "none" /\ mail'[r] = <<>>
                             /\ lease'[r] = NoTask /\ answer'[r] = NoTask
      BY <2>1 DEF Gone
    <2>3. current' = Idle
      BY <2>1 DEF AbortCurrent
    <2> QED
      BY <2>1, <2>2, <2>3
  <1>9. ASSUME NEW s \in Sockets, MonitorSends(s) PROVE OneConnection'
    BY <1>9 DEF MonitorSends, env
  <1>10. ASSUME NEW s \in Sockets, ResultArrives(s) PROVE OneConnection'
    BY <1>10 DEF ResultArrives, env
  <1>11. ASSUME NEW s \in Sockets, Receive(s) PROVE OneConnection'
    BY <1>11 DEF Receive, env, StartTask, CancelTask, Answer
  <1>12. ASSUME NEW t \in Tasks, ProcessEnds(t) PROVE OneConnection'
    BY <1>12 DEF ProcessEnds, env, Answer
  <1>13. ASSUME NEW t \in Tasks, KillTimer(t) PROVE OneConnection'
    BY <1>13 DEF KillTimer, env
  <1>14. CASE UNCHANGED vars
    BY <1>14 DEF vars, env
  <1> QED
    BY <1>1, <1>2, <1>3, <1>4, <1>5, <1>6, <1>7, <1>8, <1>9, <1>10,
       <1>11, <1>12, <1>13, <1>14 DEF Next

\* Every step keeps an assignment in one place.
LEMMA StepPlace ==
    TypeOK /\ OneConnection /\ OnePlace /\ [Next]_vars
        => OnePlace'
  <1> SUFFICES ASSUME TypeOK, OneConnection, OnePlace, [Next]_vars
               PROVE  OnePlace'
    OBVIOUS
  <1> USE RunnerAssumption DEF TypeOK, OneConnection, OnePlace, OnItsWay,
          stopped
  <1>1. CASE Connect
    BY <1>1 DEF Connect, env
  <1>2. CASE OutageAges
    BY <1>2 DEF OutageAges, env
  <1>3. CASE Shutdown
    BY <1>3 DEF Shutdown, env, AbortCurrent
  <1>4. CASE CloseTimer
    BY <1>4 DEF CloseTimer, env
  <1>5. ASSUME NEW s \in Sockets, Opened(s) PROVE OnePlace'
    BY <1>5 DEF Opened, env
  <1>6. ASSUME NEW s \in Sockets, Refused(s) PROVE OnePlace'
    <2>1. /\ ws = s /\ Gone(s) /\ AbortCurrent
          /\ ws' = NoSocket /\ beat' = NoSocket
          /\ shut' \in {"none", "settled"} /\ (stopped => shut' # "none")
      BY <1>6, SocketEnds
    <2>2. \A r \in Sockets : /\ sock'[r] = "none" /\ mail'[r] = <<>>
                             /\ lease'[r] = NoTask /\ answer'[r] = NoTask
      BY <2>1 DEF Gone
    <2>3. current' = Idle
      BY <2>1 DEF AbortCurrent
    <2>4. \A t \in Tasks : proc'[t] \notin {"running", "termed"}
      BY <2>1 DEF AbortCurrent
    <2>5. \A r \in Sockets, i \in Nat : ~OnItsWay(r, i)'
      BY <2>2
    <2> QED
      BY <2>2, <2>3, <2>4, <2>5
  <1>7. ASSUME NEW s \in Sockets, AttemptTimeout(s) PROVE OnePlace'
    BY <1>7 DEF AttemptTimeout, env
  <1>8. ASSUME NEW s \in Sockets, Closed(s) PROVE OnePlace'
    <2>1. /\ ws = s /\ Gone(s) /\ AbortCurrent
          /\ ws' = NoSocket /\ beat' = NoSocket
          /\ shut' \in {"none", "settled"} /\ (stopped => shut' # "none")
      BY <1>8, SocketEnds
    <2>2. \A r \in Sockets : /\ sock'[r] = "none" /\ mail'[r] = <<>>
                             /\ lease'[r] = NoTask /\ answer'[r] = NoTask
      BY <2>1 DEF Gone
    <2>3. current' = Idle
      BY <2>1 DEF AbortCurrent
    <2>4. \A t \in Tasks : proc'[t] \notin {"running", "termed"}
      BY <2>1 DEF AbortCurrent
    <2>5. \A r \in Sockets, i \in Nat : ~OnItsWay(r, i)'
      BY <2>2
    <2> QED
      BY <2>2, <2>3, <2>4, <2>5
  <1>9. ASSUME NEW s \in Sockets, MonitorSends(s) PROVE OnePlace'
    <2>1. UNCHANGED <<sock, ws, current, proc, answer>> /\ sock[s] = "open" /\ ws = s
      BY <1>9 DEF MonitorSends
    <2>2. CASE \E t \in Tasks :
                  /\ lease[s] = NoTask
                  /\ lease' = [lease EXCEPT ![s] = t]
                  /\ mail' = [mail EXCEPT ![s] = Append(@, [type |-> "assign", task |-> t])]
      <3>1. PICK t \in Tasks :
                /\ lease[s] = NoTask
                /\ lease' = [lease EXCEPT ![s] = t]
                /\ mail' = [mail EXCEPT ![s] = Append(@, [type |-> "assign", task |-> t])]
        BY <2>2
      <3> DEFINE m == [type |-> "assign", task |-> t]
      <3>2. m \in Messages /\ m.type = "assign" /\ m.task = t
        BY DEF Messages
      <3>3. ASSUME NEW i \in Nat, OnItsWay(s, i) PROVE FALSE
        <4>1. mail[s][i].task = lease[s]
          BY <3>3
        <4> QED
          BY <3>1, <3>3, <4>1, MessageAt
      <3>4. current = Idle /\ answer[s] = NoTask
        BY <2>1, <3>1, CurrentType, HandTask
      <3>5. \A i \in Nat : OnItsWay(s, i)' <=> i = Len(mail[s]) + 1
        BY <3>1, <3>2, <3>3, AppendWay
      <3>6. mail'[s][Len(mail[s]) + 1] = m /\ Len(mail[s]) + 1 \in Nat
        BY <3>1, <3>2, AppendWay, MailLen
      <3>7. \A r \in Sockets \ {s} : mail'[r] = mail[r] /\ lease'[r] = lease[r] /\ sock[r] = "none"
        BY <2>1, <3>1
      <3> HIDE DEF m
      <3> QED
        BY <2>1, <3>1, <3>2, <3>4, <3>5, <3>6, <3>7
    <2>3. CASE /\ lease[s] # NoTask /\ UNCHANGED lease
               /\ mail' = [mail EXCEPT ![s] = Append(@, [type |-> "cancel", task |-> lease[s]])]
      <3>1. [type |-> "cancel", task |-> lease[s]] \in Messages
        BY <2>3 DEF Messages
      <3>2. \A r \in Sockets, i \in Nat : /\ OnItsWay(r, i)' <=> OnItsWay(r, i)
                                          /\ OnItsWay(r, i) => mail'[r][i] = mail[r][i]
        BY <2>3, <3>1, AppendWay
      <3> QED
        BY <2>1, <2>3, <3>2
    <2> QED
      BY <1>9, <2>2, <2>3 DEF MonitorSends
  <1>10. ASSUME NEW s \in Sockets, ResultArrives(s) PROVE OnePlace'
    BY <1>10 DEF ResultArrives, env
  <1>11. ASSUME NEW s \in Sockets, Receive(s) PROVE OnePlace'
    <2> DEFINE m == Head(mail[s])
    <2>1. /\ mail[s] # <<>> /\ mail' = [mail EXCEPT ![s] = Tail(@)]
          /\ UNCHANGED <<sock, ws, lease, shut>>
          /\ m \in Messages /\ m.task \in Tasks
      BY <1>11, MailType DEF Receive, Messages
    <2>2. /\ \A r \in Sockets \ {s} : mail'[r] = mail[r]
          /\ \A i \in Nat : OnItsWay(s, i)' => /\ i # 0 /\ OnItsWay(s, i + 1)
                                               /\ mail'[s][i] = mail[s][i + 1]
          /\ \A i \in Nat : OnItsWay(s, i + 1) /\ i # 0 => OnItsWay(s, i)'
          /\ OnItsWay(s, 1) <=> m.type = "assign"
          /\ mail[s][1] = m
      BY <2>1, TailWay
    <2> HIDE DEF OnItsWay, m
    <2>3. ASSUME NEW r \in Sockets, r # s
          PROVE  /\ sock'[r] = "none" /\ answer[r] = NoTask
                 /\ \A i \in Nat : ~OnItsWay(r, i)'
      <3>1. sock[r] = "none"
        BY <1>11, <2>3 DEF Receive
      <3>2. mail'[r] = <<>>
        BY <2>2, <2>3, <3>1
      <3> QED
        BY <2>1, <3>1, <3>2 DEF OnItsWay
    <2>4. \A i, k \in Nat : OnItsWay(s, i)' /\ OnItsWay(s, k)' => i = k
      <3> SUFFICES ASSUME NEW i \in Nat, NEW k \in Nat, OnItsWay(s, i)', OnItsWay(s, k)'
                   PROVE  i = k
        OBVIOUS
      <3>1. OnItsWay(s, i + 1) /\ OnItsWay(s, k + 1) /\ i + 1 \in Nat /\ k + 1 \in Nat
        BY <2>2
      <3>2. i + 1 = k + 1
        BY <3>1
      <3> QED
        BY <3>2
    <2>5. \A i \in Nat : OnItsWay(s, i)' =>
             mail'[s][i].task = lease[s] /\ current = Idle /\ answer[s] = NoTask
      <3> SUFFICES ASSUME NEW i \in Nat, OnItsWay(s, i)'
                   PROVE  mail'[s][i].task = lease[s] /\ current = Idle /\ answer[s] = NoTask
        OBVIOUS
      <3>1. OnItsWay(s, i + 1) /\ i + 1 \in Nat /\ mail'[s][i] = mail[s][i + 1]
        BY <2>2
      <3> QED
        BY <3>1
    <2>6. CASE m.type = "assign" /\ ~stopped /\ StartTask(s, m.task)
      <3>0. OnItsWay(s, 1) /\ 1 \in Nat
        BY <2>2, <2>6
      <3>1. /\ m.task = lease[s] /\ current = Idle /\ answer[s] = NoTask
            /\ sock[s] = "open" /\ ws = s
        <4>1. mail[s][1].task = lease[s] /\ current = Idle /\ answer[s] = NoTask
          BY <3>0
        <4>2. sock[s] = "open" /\ ws = s
          BY <1>11, <2>6 DEF Receive
        <4> QED
          BY <2>2, <4>1, <4>2
      <3>2. \A i \in Nat : ~OnItsWay(s, i)'
        BY <2>2, <2>6
      <3>3. \A r \in Sockets, i \in Nat : ~OnItsWay(r, i)'
        <4> SUFFICES ASSUME NEW r \in Sockets, NEW i \in Nat PROVE ~OnItsWay(r, i)'
          OBVIOUS
        <4>1. CASE r = s
          BY <3>2, <4>1
        <4>2. CASE r # s
          BY <2>3, <4>2
        <4> QED
          BY <4>1, <4>2
      <3>4. CASE /\ current' = [task |-> m.task, socket |-> s, cancelled |-> FALSE]
                 /\ proc' = [proc EXCEPT ![m.task] = "running"]
                 /\ UNCHANGED answer
        <4>1. current' # Idle /\ current'.task = lease[s] /\ current'.socket = ws
          BY <2>1, <3>1, <3>4, IdleTask, RunnerAssumption DEF Idle
        <4>2. \A t \in Tasks : proc'[t] \in {"running", "termed"} => current'.task = t
          BY <2>1, <3>1, <3>4, IdleTask
        <4>3. \A r \in Sockets : answer'[r] = NoTask
          BY <3>1, <2>3, <3>4
        <4> QED
          BY <2>1, <3>1, <3>3, <4>1, <4>2, <4>3
      <3>5. CASE /\ proc' = [proc EXCEPT ![m.task] = "gone"]
                 /\ Answer(s, m.task)
                 /\ UNCHANGED current
        <4>1. answer' = [answer EXCEPT ![s] = lease[s]]
          BY <3>1, <3>5 DEF Answer
        <4>2. \A t \in Tasks : proc'[t] \in {"running", "termed"} => current'.task = t
          BY <2>1, <3>1, <3>5, IdleTask
        <4>3. \A r \in Sockets : answer'[r] # NoTask => r = s
          BY <2>3, <4>1
        <4>4. answer'[s] = lease'[s] /\ lease[s] # NoTask
          BY <2>1, <3>1, <4>1, RunnerAssumption
        <4> QED
          BY <2>1, <3>1, <2>3, <3>3, <3>5, <4>2, <4>3, <4>4
      <3> QED
        BY <2>6, <3>1, <3>4, <3>5 DEF StartTask
    <2>7. CASE m.type = "cancel" /\ CancelTask(m.task)
      <3>1. ~OnItsWay(s, 1) /\ ~OnItsWay(s, 0)
        BY <2>2, <2>7 DEF OnItsWay
      <3>2. ASSUME NEW i \in Nat, OnItsWay(s, i)
            PROVE  \E k \in Nat : k # 0 /\ OnItsWay(s, k)'
        <4>1. i # 0 /\ i # 1
          BY <3>1, <3>2
        <4>2. PICK k \in Nat : k # 0 /\ i = k + 1
          BY <4>1
        <4>3. OnItsWay(s, k + 1)
          BY <3>2, <4>2
        <4> QED
          BY <2>2, <4>2, <4>3
      <3>3. UNCHANGED answer
        BY <2>7 DEF CancelTask
      <3>4. current' # Idle <=> current # Idle
        BY <2>1, <2>7, CurrentType, IdleTask DEF CancelTask, InHand
      <3>5. current # Idle => /\ current'.socket = current.socket
                              /\ current'.task = current.task
        BY <2>7, CurrentType DEF CancelTask, InHand
      <3>7. \A t \in Tasks : proc'[t] \in {"running", "termed"} => current'.task = t
        BY <2>1, <2>7, <3>5, CurrentType DEF CancelTask, InHand
      <3>10. \A r \in Sockets, i \in Nat : OnItsWay(r, i)'
                => mail'[r][i].task = lease'[r] /\ current' = Idle /\ answer'[r] = NoTask
        <4> SUFFICES ASSUME NEW r \in Sockets, NEW i \in Nat, OnItsWay(r, i)'
                     PROVE  /\ mail'[r][i].task = lease'[r] /\ current' = Idle
                            /\ answer'[r] = NoTask
          OBVIOUS
        <4>1. r = s
          BY <2>3
        <4>2. mail'[s][i].task = lease[s] /\ current = Idle /\ answer[s] = NoTask
          BY <2>5, <4>1
        <4>3. current' = Idle
          BY <3>4, <4>2
        <4> QED
          BY <2>1, <3>3, <4>1, <4>2, <4>3
      <3>11. \A r \in Sockets, i, k \in Nat : OnItsWay(r, i)' /\ OnItsWay(r, k)' => i = k
        BY <2>3, <2>4
      <3>12. \A r \in Sockets : answer'[r] # NoTask => answer'[r] = lease'[r] /\ current' = Idle
        BY <2>1, <3>3, <3>4
      <3>13. current' # Idle => /\ current'.socket = ws' /\ sock'[ws'] = "open"
                                /\ lease'[ws'] = current'.task
        BY <2>1, <3>4, <3>5
      <3>14. \A r \in Sockets : sock'[r] = "open" /\ lease'[r] # NoTask =>
                (\E i \in Nat : OnItsWay(r, i)') \/ current' # Idle \/ answer'[r] # NoTask
        BY <2>1, <3>2, <3>3, <3>4, <2>3
      <3> QED
        BY <3>7, <3>10, <3>11, <3>12, <3>13, <3>14
    <2>8. CASE stopped /\ UNCHANGED <<current, proc, answer>>
      <3>1. \A r \in Sockets : sock'[r] # "open"
        BY <2>1, <2>8
      <3>2. current' = Idle /\ UNCHANGED <<current, proc, answer, lease, ws>>
        BY <2>1, <2>8
      <3>3. \A r \in Sockets, i \in Nat : OnItsWay(r, i)'
               => r = s /\ mail'[r][i].task = lease'[r] /\ answer'[r] = NoTask
        BY <2>3, <2>5, <3>2
      <3>4. \A r \in Sockets, i, k \in Nat : OnItsWay(r, i)' /\ OnItsWay(r, k)' => i = k
        BY <2>3, <2>4
      <3> QED
        BY <3>1, <3>2, <3>3, <3>4
    <2> QED
      BY <1>11, <2>6, <2>7, <2>8 DEF Receive, m
  <1>12. ASSUME NEW t \in Tasks, ProcessEnds(t) PROVE OnePlace'
    <2>1. /\ proc' = [proc EXCEPT ![t] = "gone"]
          /\ UNCHANGED <<sock, ws, mail, lease, shut>>
      BY <1>12 DEF ProcessEnds
    <2>2. CASE current.task = t
      <3>1. current # Idle /\ current.socket \in Sockets
        BY <2>2, CurrentType DEF InHand
      <3>2. current' = Idle /\ answer' = [answer EXCEPT ![current.socket] = t]
        BY <1>12, <2>2, <3>1 DEF ProcessEnds, Answer
      <3> QED
        BY <2>1, <2>2, <3>1, <3>2
    <2>3. CASE current.task # t
      BY <1>12, <2>1, <2>3 DEF ProcessEnds
    <2> QED
      BY <2>2, <2>3
  <1>13. ASSUME NEW t \in Tasks, KillTimer(t) PROVE OnePlace'
    BY <1>13 DEF KillTimer, env
  <1>14. CASE UNCHANGED vars
    BY <1>14 DEF vars, env
  <1> QED
    BY <1>1, <1>2, <1>3, <1>4, <1>5, <1>6, <1>7, <1>8, <1>9, <1>10,
       <1>11, <1>12, <1>13, <1>14 DEF Next

\* The runner starts with one attempt and nothing to do.
LEMMA InitInvariant == Init => TypeOK /\ OneConnection /\ OnePlace
  <1> SUFFICES ASSUME Init PROVE TypeOK /\ OneConnection /\ OnePlace
    OBVIOUS
  <1>1. /\ mail \in [Sockets -> Seq(Messages)]
        /\ current = Idle
        /\ \A s \in Sockets, i \in Nat : ~OnItsWay(s, i)
    BY DEF Init, OnItsWay
  <1>2. TypeOK
    BY <1>1 DEF Init, TypeOK, Live
  <1>3. OneConnection
    BY RunnerAssumption DEF Init, OneConnection, stopped
  <1>4. OnePlace
    BY <1>1 DEF Init, OnePlace
  <1> QED
    BY <1>2, <1>3, <1>4

\* Every reachable state is of the declared types, and of the two invariants.
THEOREM InvariantAlways == Spec => [](TypeOK /\ OneConnection /\ OnePlace)
  BY InitInvariant, StepType, StepConnection, StepPlace, PTL DEF Spec

\* Every reachable state is of the declared types.
THEOREM TypeCorrect == Spec => []TypeOK
  BY InvariantAlways, PTL

\* What the runner executes is what its one connection was assigned, and a task
\* the monitor waits for is on its way, in hand, or answered.
THEOREM WorkFollowsConnection == Spec => []WorkBelongsToConnection
  <1>1. TypeOK /\ OneConnection /\ OnePlace => WorkBelongsToConnection
    <2> SUFFICES ASSUME TypeOK, OneConnection, OnePlace PROVE WorkBelongsToConnection
      OBVIOUS
    <2>1. ASSUME NEW s \in Sockets, sock[s] = "open", lease[s] # NoTask
          PROVE  \/ \E i \in 1..Len(mail[s]) :
                       mail[s][i] = [type |-> "assign", task |-> lease[s]]
                 \/ current.task = lease[s]
                 \/ answer[s] = lease[s]
      <3>1. CASE \E i \in Nat : OnItsWay(s, i)
        <4>1. PICK i \in Nat : OnItsWay(s, i)
          BY <3>1
        <4>2. mail[s][i].type = "assign" /\ mail[s][i].task = lease[s] /\ i \in 1..Len(mail[s])
          BY <4>1 DEF OnePlace, OnItsWay
        <4>3. mail[s] \in Seq(Messages)
          BY DEF TypeOK
        <4>4. mail[s][i] \in Messages
          BY <4>2, <4>3
        <4>5. mail[s][i] = [type |-> "assign", task |-> lease[s]]
          BY <4>2, <4>4 DEF Messages
        <4> QED
          BY <4>2, <4>5
      <3>2. CASE current # Idle
        BY <2>1, <3>2 DEF OneConnection, OnePlace
      <3>3. CASE answer[s] # NoTask
        BY <3>3 DEF OnePlace
      <3> QED
        BY <2>1, <3>1, <3>2, <3>3 DEF OnePlace
    <2> QED
      BY <2>1 DEF WorkBelongsToConnection, OneConnection, OnePlace
  <1> QED
    BY <1>1, InvariantAlways, PTL
=============================================================================
