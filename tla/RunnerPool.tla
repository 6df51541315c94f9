----------------------------- MODULE RunnerPool -----------------------------
(***************************************************************************)
(* The monitor's runner pool (services/runnerpool/): the registry of       *)
(* connected runners, the per-socket event chains, the in-memory lease of  *)
(* each assignment, and the executors at the far end of the sockets.       *)
(*                                                                         *)
(* One step is the code between two awaits of the single monitor process.  *)
(* The events of one socket are handled one after the other                *)
(* (serializeSocketEvent); handlers of different sockets interleave at     *)
(* their awaits, which is where `work' remembers what the handler holds.   *)
(***************************************************************************)
EXTENDS Naturals, Sequences

CONSTANTS Runners,    \* runner ids
          Sockets,    \* the connections made in a behaviour, each used once
          Jobs,       \* transcode jobs
          MaxAssign,  \* bound: assignments made in a behaviour
          NoRunner, NoSocket, NoJob

ASSUME PoolAssumption ==
    /\ MaxAssign \in Nat
    /\ NoRunner \notin Runners
    /\ NoSocket \notin Sockets
    /\ NoJob \notin Jobs

VARIABLES
    accepting,  \* registry.accepting: the acceptance barrier of shutdown
    registry,   \* runner id -> the socket of its record, or NoSocket
    record,     \* socket -> the record register() made for it
    sock,       \* socket -> the monitor's view of its ready state
    rid,        \* socket -> the runner that opened it
    chain,      \* socket -> events observed and not yet handled
    work,       \* socket -> what the handler suspended at an await holds
    live,       \* runner -> the socket its process believes in
    task,       \* runner -> the assignment its process executes
    job,        \* job -> its durable status
    lastAsg,    \* job -> the assignment made last for it, 0 for none
    asgCount,   \* assignments made so far (assignment ids are fresh)
    stopped,    \* jobs whose file has been flagged cancelled
    relay       \* the record relayCancellations is awaiting a file for

registryVars == <<accepting, registry, record>>
networkVars  == <<sock, rid, live, task>>
handlerVars  == <<chain, work>>
jobVars      == <<job, lastAsg, asgCount, stopped>>
vars == <<registryVars, networkVars, handlerVars, jobVars, relay>>

Asgs == 1..MaxAssign
NoTask == [job |-> NoJob, asg |-> 0]
Tasks  == [job : Jobs, asg : Asgs] \union {NoTask}
Events == [kind : {"register", "close"}] \union [kind : {"result"}, job : Jobs, asg : Asgs]

\* A record: status busy is phase # "idle"; the lease is phase "running".
\* Phase "recovering" does not appear: the step that sets it also removes the
\* record from the registry, where nothing reads it again.
Records ==
    [job : {NoJob}, asg : {0}, phase : {"idle"}, paused : BOOLEAN, cancelSent : BOOLEAN]
    \union
    [job : Jobs, asg : Asgs, phase : {"running", "settling"},
     paused : BOOLEAN, cancelSent : BOOLEAN]
IdleRecord == [job |-> NoJob, asg |-> 0, phase |-> "idle",
               paused |-> FALSE, cancelSent |-> FALSE]

\* What a suspended handler holds: nothing, a claimed result, or a lost lease
\* it recovers before it re-registers ("rejoin") or after a close ("leave").
Work == [kind : {"free"}, job : {NoJob}, asg : {0}]
        \union [kind : {"settle", "rejoin", "leave"}, job : Jobs, asg : Asgs]
Free == [kind |-> "free", job |-> NoJob, asg |-> 0]

TypeOK ==
    /\ accepting \in BOOLEAN
    /\ registry \in [Runners -> Sockets \union {NoSocket}]
    /\ record \in [Sockets -> Records]
    /\ sock \in [Sockets -> {"new", "open", "closing", "closed"}]
    /\ rid \in [Sockets -> Runners \union {NoRunner}]
    /\ chain \in [Sockets -> Seq(Events)]
    /\ work \in [Sockets -> Work]
    /\ live \in [Runners -> Sockets \union {NoSocket}]
    /\ task \in [Runners -> Tasks]
    /\ job \in [Jobs -> {"pending", "running", "done", "failed"}]
    /\ lastAsg \in [Jobs -> 0..MaxAssign]
    /\ asgCount \in 0..MaxAssign
    /\ stopped \in SUBSET Jobs
    /\ relay \in Sockets \union {NoSocket}

Init ==
    /\ accepting = TRUE
    /\ registry = [r \in Runners |-> NoSocket]
    /\ record = [s \in Sockets |-> IdleRecord]
    /\ sock = [s \in Sockets |-> "new"]
    /\ rid = [s \in Sockets |-> NoRunner]
    /\ chain = [s \in Sockets |-> <<>>]
    /\ work = [s \in Sockets |-> Free]
    /\ live = [r \in Runners |-> NoSocket]
    /\ task = [r \in Runners |-> NoTask]
    /\ job = [j \in Jobs |-> "pending"]
    /\ lastAsg = [j \in Jobs |-> 0]
    /\ asgCount = 0
    /\ stopped = {}
    /\ relay = NoSocket

-----------------------------------------------------------------------------
(***************************************************************************)
(* The registry.                                                           *)
(***************************************************************************)
Registered(s) == rid[s] \in Runners /\ registry[rid[s]] = s

IsAvailable(s) ==
    /\ record[s].phase = "idle"
    /\ ~record[s].paused
    /\ sock[s] = "open"

Matches(s, j, a) ==
    /\ Registered(s)
    /\ record[s].phase # "idle"
    /\ record[s].job = j
    /\ record[s].asg = a

ResultClaimable(s, j, a) == Matches(s, j, a) /\ record[s].phase = "running"

LeaseLostAnyPhase(s) == record[s].job \in Jobs
LeaseForgotten(s) == FALSE

LeaseLost(s) == record[s].job \in Jobs /\ record[s].phase = "running"

IdledKeepingLease(rec) == [rec EXCEPT !.phase = "idle"]

\* The record markIdle leaves behind; it keeps the pause flag.
Idled(rec) == [job |-> NoJob, asg |-> 0, phase |-> "idle",
               paused |-> rec.paused, cancelSent |-> FALSE]

\* The record markBusy leaves behind.
Busied(rec, j, a) == [job |-> j, asg |-> a, phase |-> "running",
                      paused |-> rec.paused, cancelSent |-> FALSE]

-----------------------------------------------------------------------------
(***************************************************************************)
(* The far end: one process per runner, one believed socket each.  A       *)
(* dropped connection aborts the task without reporting a result.          *)
(***************************************************************************)
\* The runner that opened s is gone, or has already opened another socket.
Deserted(s) == rid[s] \in Runners /\ live[rid[s]] # s

Connect(r, s) ==
    /\ accepting
    /\ live[r] = NoSocket
    /\ sock[s] = "new"
    /\ sock' = [sock EXCEPT ![s] = "open"]
    /\ rid' = [rid EXCEPT ![s] = r]
    /\ live' = [live EXCEPT ![r] = s]
    /\ chain' = [chain EXCEPT ![s] = Append(@, [kind |-> "register"])]
    /\ UNCHANGED <<registryVars, task, work, jobVars, relay>>

RunnerDrop(r) ==
    /\ live[r] # NoSocket
    /\ live' = [live EXCEPT ![r] = NoSocket]
    /\ task' = [task EXCEPT ![r] = NoTask]
    /\ UNCHANGED <<registryVars, sock, rid, handlerVars, jobVars, relay>>

\* finish(): the one result of a task, lost if the monitor already closes.
RunnerFinish(r) ==
    /\ task[r] # NoTask
    /\ live[r] # NoSocket
    /\ task' = [task EXCEPT ![r] = NoTask]
    /\ chain' = IF sock[live[r]] = "open"
                THEN [chain EXCEPT ![live[r]] =
                        Append(@, [kind |-> "result", job |-> task[r].job, asg |-> task[r].asg])]
                ELSE chain
    /\ UNCHANGED <<registryVars, sock, rid, live, work, jobVars, relay>>

\* The close event of a socket: after terminate()/close() of the monitor or
\* when the connection of a runner that dropped it is seen to be gone.
SocketClose(s) ==
    /\ \/ sock[s] = "closing"
       \/ sock[s] = "open" /\ Deserted(s)
    /\ sock' = [sock EXCEPT ![s] = "closed"]
    /\ chain' = [chain EXCEPT ![s] = Append(@, [kind |-> "close"])]
    /\ UNCHANGED <<registryVars, rid, live, task, work, jobVars, relay>>

\* The heartbeat watchdog sees registered records only.
EvictStaleRunner(s) ==
    /\ accepting
    /\ Registered(s)
    /\ sock[s] = "open"
    /\ sock' = [sock EXCEPT ![s] = "closing"]
    /\ UNCHANGED <<registryVars, rid, live, task, handlerVars, jobVars, relay>>

-----------------------------------------------------------------------------
(***************************************************************************)
(* Handlers.  Ready(s, kind): the chain of s is free and its next event is *)
(* of that kind.                                                           *)
(***************************************************************************)
Ready(s, kind) == work[s] = Free /\ chain[s] # <<>> /\ Head(chain[s]).kind = kind
Consume(s) == chain' = [chain EXCEPT ![s] = Tail(@)]

Terminated(s, ready) == IF ready[s] = "open" THEN [ready EXCEPT ![s] = "closing"] ELSE ready

\* register() replaces whatever record the id has; only accepting matters.
Register(s) ==
    IF accepting
    THEN /\ registry' = [registry EXCEPT ![rid[s]] = s]
         /\ record' = [record EXCEPT ![s] = IdleRecord]
         /\ UNCHANGED sock
    ELSE /\ sock' = Terminated(s, sock)
         /\ UNCHANGED <<registry, record>>

\* A register event that meets no other record for its id.
RegisterFresh(s) ==
    /\ Ready(s, "register")
    /\ Consume(s)
    /\ \/ ~accepting
       \/ registry[rid[s]] = NoSocket
    /\ Register(s)
    /\ UNCHANGED <<accepting, rid, live, task, work, jobVars, relay>>

\* A register event that replaces a stale record whose lease another event
\* already claimed, or that held none: nothing to await.
RegisterOverIdle(s) ==
    /\ Ready(s, "register")
    /\ accepting
    /\ LET stale == registry[rid[s]] IN
       /\ stale \notin {s, NoSocket}
       /\ ~LeaseLost(stale)
       /\ Consume(s)
       /\ registry' = [registry EXCEPT ![rid[s]] = s]
       /\ record' = [record EXCEPT ![s] = IdleRecord, ![stale] = IdleRecord]
       /\ sock' = Terminated(stale, sock)
    /\ UNCHANGED <<accepting, rid, live, task, work, jobVars, relay>>

\* ... or whose lease it claims: the record is removed, then recovery awaits.
RegisterOverBusy(s) ==
    /\ Ready(s, "register")
    /\ accepting
    /\ LET stale == registry[rid[s]] IN
       /\ stale \notin {s, NoSocket}
       /\ LeaseLost(stale)
       /\ Consume(s)
       /\ record' = [record EXCEPT ![stale] = IdleRecord]
       /\ registry' = [registry EXCEPT ![rid[s]] = NoSocket]
       /\ sock' = Terminated(stale, sock)
       /\ work' = [work EXCEPT ![s] =
                     [kind |-> "rejoin", job |-> record[stale].job, asg |-> record[stale].asg]]
    /\ UNCHANGED <<accepting, rid, live, task, jobVars, relay>>

\* The durable outcome of requeueLostWork on a job whose lease was lost.
RequeueLostWork(j) ==
    IF job[j] = "running"
    THEN \E outcome \in (IF j \in stopped THEN {"failed"} ELSE {"pending", "failed"}) :
            job' = [job EXCEPT ![j] = outcome]
    ELSE UNCHANGED job

\* Recovery done; the handler goes on to register without another look.
RegisterAfterRecovery(s) ==
    /\ work[s].kind = "rejoin"
    /\ RequeueLostWork(work[s].job)
    /\ work' = [work EXCEPT ![s] = Free]
    /\ Register(s)
    /\ UNCHANGED <<accepting, rid, live, task, chain, lastAsg, asgCount, stopped, relay>>

\* claimResult happens before the first await of handleResult.
HandleResult(s) ==
    /\ Ready(s, "result")
    /\ Consume(s)
    /\ LET r == Head(chain[s]) IN
       IF ResultClaimable(s, r.job, r.asg)
       THEN /\ record' = [record EXCEPT ![s].phase = "settling"]
            /\ work' = [work EXCEPT ![s] = [kind |-> "settle", job |-> r.job, asg |-> r.asg]]
       ELSE UNCHANGED <<record, work>>
    /\ UNCHANGED <<accepting, registry, networkVars, jobVars, relay>>

\* finalizeTranscode has made the job terminal; markIdle checks identity.
FinishResult(s) ==
    /\ work[s].kind = "settle"
    /\ IF job[work[s].job] = "running"
       THEN \E outcome \in {"done", "failed"} : job' = [job EXCEPT ![work[s].job] = outcome]
       ELSE UNCHANGED job
    /\ record' = IF Registered(s) /\ record[s].asg = work[s].asg /\ record[s].phase = "settling"
                 THEN [record EXCEPT ![s] = Idled(@)]
                 ELSE record
    /\ work' = [work EXCEPT ![s] = Free]
    /\ UNCHANGED <<accepting, registry, networkVars, chain, lastAsg, asgCount, stopped, relay>>

\* handleClose: claim, then remove, then recover.
HandleClose(s) ==
    /\ Ready(s, "close")
    /\ Consume(s)
    /\ IF Registered(s)
       THEN /\ registry' = [registry EXCEPT ![rid[s]] = NoSocket]
            /\ record' = [record EXCEPT ![s] = IdleRecord]
            /\ work' = IF LeaseLost(s)
                       THEN [work EXCEPT ![s] =
                               [kind |-> "leave", job |-> record[s].job, asg |-> record[s].asg]]
                       ELSE work
       ELSE UNCHANGED <<registry, record, work>>
    /\ UNCHANGED <<accepting, networkVars, jobVars, relay>>

FinishClose(s) ==
    /\ work[s].kind = "leave"
    /\ RequeueLostWork(work[s].job)
    /\ work' = [work EXCEPT ![s] = Free]
    /\ UNCHANGED <<registryVars, networkVars, chain, lastAsg, asgCount, stopped, relay>>

-----------------------------------------------------------------------------
(***************************************************************************)
(* Commands: the queue loop hands prepared jobs out and relays stops; the  *)
(* user pauses runners and stops files.                                    *)
(***************************************************************************)
LoopAlwaysFree == TRUE

\* The loop hands nothing out while it is inside relayCancellations.
LoopFree == relay = NoSocket

\* assign(): the choice, markBusy and the send are one synchronous step.
Assign(j, s) ==
    /\ LoopFree
    /\ accepting
    /\ job[j] = "pending"
    /\ Registered(s)
    /\ IsAvailable(s)
    /\ asgCount < MaxAssign
    /\ LET a == asgCount + 1 IN
       /\ asgCount' = a
       /\ lastAsg' = [lastAsg EXCEPT ![j] = a]
       /\ record' = [record EXCEPT ![s] = Busied(@, j, a)]
       /\ task' = IF live[rid[s]] = s /\ task[rid[s]] = NoTask
                  THEN [task EXCEPT ![rid[s]] = [job |-> j, asg |-> a]]
                  ELSE task
    /\ job' = [job EXCEPT ![j] = "running"]
    /\ UNCHANGED <<accepting, registry, sock, rid, live, handlerVars, stopped, relay>>

\* relayCancellations reads the file of a busy record ...
RelayRead(s) ==
    /\ relay = NoSocket
    /\ Registered(s)
    /\ record[s].phase # "idle"
    /\ ~record[s].cancelSent
    /\ record[s].job \in stopped
    /\ relay' = s
    /\ UNCHANGED <<registryVars, networkVars, handlerVars, jobVars>>

\* ... and after that await sends to whatever the record runs by then.
RelaySend(s) ==
    /\ relay = s
    /\ relay' = NoSocket
    /\ record' = [record EXCEPT ![s].cancelSent = TRUE]
    /\ UNCHANGED <<accepting, registry, networkVars, handlerVars, jobVars>>

SetPaused(r) ==
    /\ registry[r] # NoSocket
    /\ \E p \in BOOLEAN : record' = [record EXCEPT ![registry[r]].paused = p]
    /\ UNCHANGED <<accepting, registry, networkVars, handlerVars, jobVars, relay>>

\* A stop is acknowledged: a pending job fails; the file of an active one is
\* flagged cancelled, and its cancellation result settles it.
StopFile(j) ==
    /\ \/ /\ job[j] = "pending"
          /\ job' = [job EXCEPT ![j] = "failed"]
          /\ UNCHANGED stopped
       \/ /\ job[j] = "running"
          /\ j \notin stopped
          /\ stopped' = stopped \union {j}
          /\ UNCHANGED job
    /\ UNCHANGED <<registryVars, networkVars, handlerVars, lastAsg, asgCount, relay>>

BeginShutdownSocketsKept ==
    /\ accepting
    /\ accepting' = FALSE
    /\ UNCHANGED <<registry, record, networkVars, handlerVars, jobVars, relay>>

BeginShutdown ==
    /\ accepting
    /\ accepting' = FALSE
    /\ sock' = [s \in Sockets |-> IF sock[s] = "open" THEN "closing" ELSE sock[s]]
    /\ UNCHANGED <<registry, record, rid, live, task, handlerVars, jobVars, relay>>

\* What shutdown() awaits before it reports the pool drained.  Its
\* registry.clear() is not a step: DrainCompletes shows nothing is left by then.
Drained == \A s \in Sockets : sock[s] \in {"new", "closed"} /\ chain[s] = <<>> /\ work[s] = Free

-----------------------------------------------------------------------------
Handle(s) ==
    \/ RegisterFresh(s) \/ RegisterOverIdle(s) \/ RegisterOverBusy(s)
    \/ RegisterAfterRecovery(s)
    \/ HandleResult(s) \/ FinishResult(s)
    \/ HandleClose(s) \/ FinishClose(s)

Next ==
    \/ \E s \in Sockets :
        \/ Handle(s)
        \/ SocketClose(s) \/ EvictStaleRunner(s)
        \/ RelayRead(s) \/ RelaySend(s)
    \/ \E r \in Runners :
        \/ RunnerDrop(r) \/ RunnerFinish(r) \/ SetPaused(r)
        \/ \E s \in Sockets : Connect(r, s)
    \/ \E j \in Jobs :
        \/ StopFile(j)
        \/ \E s \in Sockets : Assign(j, s)
    \/ BeginShutdown

Spec == Init /\ [][Next]_vars

(***************************************************************************)
(* Fairness.  The monitor's event loop runs every handler it has queued;   *)
(* the ws library closes a socket the monitor terminates; the watchdog     *)
(* timer fires, so a registered record whose runner sends no heartbeat is  *)
(* evicted; ffmpeg ends.  Users, connections and new assignments are not   *)
(* fair.                                                                   *)
(***************************************************************************)
Fairness ==
    /\ \A s \in Sockets :
        /\ WF_vars(Handle(s))
        /\ WF_vars(sock[s] = "closing" /\ SocketClose(s))
        /\ WF_vars(Deserted(s) /\ EvictStaleRunner(s))
    /\ \A r \in Runners : WF_vars(RunnerFinish(r))

FairSpec == Spec /\ Fairness

-----------------------------------------------------------------------------
(***************************************************************************)
(* Properties.                                                             *)
(***************************************************************************)
Leased(j)  == {s \in Sockets : record[s].phase = "running" /\ record[s].job = j}
Handled(j) == {s \in Sockets : work[s].job = j}

\* Exactly one party answers for a running job: the record that holds its
\* lease, or the one handler that claimed its result or its loss, and that
\* party acts for the job's latest assignment.  Nobody answers for a job that
\* is pending or terminal, so a late result or a second close cannot settle
\* it twice (claimResult, claimRecovery, handleResult, handleClose, onRegister).
ExclusiveLease ==
    \A j \in Jobs :
        /\ \A s, t \in Leased(j) \union Handled(j) : s = t
        /\ Leased(j) \intersect Handled(j) = {}
        /\ job[j] = "running" <=> Leased(j) \union Handled(j) # {}
        /\ \A s \in Leased(j) : record[s].asg = lastAsg[j]
        /\ \A s \in Handled(j) : work[s].asg = lastAsg[j]

\* A cancel that relayCancellations sends names a stopped job or none, although
\* it reads currentJobId after the await that decided to send (commands.js).
CancelTargetsStopped ==
    [][\A s \in Sockets :
        ~record[s].cancelSent /\ record'[s].cancelSent
            => record[s].job \in stopped \union {NoJob}]_vars

\* A lease whose record a later register of the same runner id has replaced.
Overwritten(j) ==
    \E s \in Sockets : record[s].job = j /\ record[s].phase = "running" /\ ~Registered(s)

\* Every lease ends: its result is settled, or its loss is noticed by a close,
\* a reconnection or the watchdog and recovered, unless its record was replaced.
LeaseResolves == \A j \in Jobs : job[j] = "running" ~> (job[j] # "running" \/ Overwritten(j))

\* Once the acceptance barrier is up the pool drains: every socket is closed,
\* every event handled, and every record has left the registry through its own
\* close, so that the final registry.clear() drops no lease (beginShutdown,
\* drainSocket, shutdown).
DrainCompletes == ~accepting ~> (Drained /\ \A r \in Runners : registry[r] = NoSocket)

\* The lease of each job, as TaskLease sees it.
leaseOf ==
    [j \in Jobs |->
        IF job[j] # "running" THEN job[j]
        ELSE IF \E s \in Sockets : work[s].job = j
             THEN IF \E s \in Sockets : work[s].job = j /\ work[s].kind = "settle"
                  THEN "settling" ELSE "recovering"
             ELSE "leased"]

Lease == INSTANCE TaskLease WITH lease <- leaseOf

\* The pool implements the abstract lease: granted, then settled or recovered
\* once, and terminal jobs never move.
LeaseSpec == Lease!Spec

\* A runner record is dropped by its own close or by a newer connection only
\* (registry.js:88), so a running lease always has a record that can see its
\* result or its loss.
LeaseRecoverable ==
    \A s \in Sockets : record[s].phase = "running" => Registered(s)
=============================================================================
