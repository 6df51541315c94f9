------------------------ MODULE MonitorLifecycleProofs ------------------------
(***************************************************************************)
(* Theorems about MonitorLifecycle for any set of requests and any number  *)
(* of failures: which steps may touch the gates, who may still be writing  *)
(* when the database is closed, and what an exit code of 0 says.           *)
(***************************************************************************)
EXTENDS MonitorLifecycle, TLAPS

\* Who may still be writing is on record: the tracker holds exactly the requests
\* that are parsed or handled, and a job that is being stored, or stored and not
\* yet announced, belongs to one of them, to the startup or to the timer.
WritersKnown ==
    /\ tracked = {r \in Requests : request[r] \in {"parsing", "handling", "abandoned"}}
    /\ \A r \in Requests : job[r] = "creating" \/ r \in unwoken
                              => request[r] \in {"handling", "abandoned"}
    /\ \A r \in Requests : r \in unwoken => job[r] # "creating"
    /\ Scan \in unwoken => startup = "nudge"
    /\ job[Scan] = "creating" => startup = "enqueue"
    /\ Transcode \notin unwoken /\ job[Transcode] # "creating"

\* A server that has been started is closing from the barrier on.
ServerKnown ==
    /\ startup # "done" => http = "off" /\ "http" \notin started
    /\ http # "off" => "http" \in started
    /\ ~Up => http \in {"off", "closing", "closed"}

\* The phases follow the drains: from the second one on the startup has returned,
\* and from the closing of the database on the server serves nobody.
PhasesInOrder ==
    /\ coord.phase \in {"drains", "database", "mongod"} \/ coord.code = "0"
          => startup = "done"
    /\ coord.phase \in {"database", "mongod"} => HttpDrained
    /\ coord.code # "none" => coord.phase = "exited"

\* What went wrong is on record for the exit code.
FaultsKnown ==
    /\ faults # 0 => coord.failed \/ errors # {}
    /\ coord.late => coord.code = "1"
    /\ database = "failed" => errors # {}

\* A job that is claimed is carried by the loop or by the runner, unless a drain
\* has an error to report; what is open is recorded as started and closed in time.
Carried(j) ==
    \/ loop.held = j /\ loop.pc \in {"prepare", "reset", "release", "handle"}
    \/ j = Transcode /\ worker \in {"busy", "settling", "leaving"}

ResourcesKnown ==
    /\ \A j \in Jobs : job[j] = "running" => errors # {} \/ Carried(j)
    /\ loop.pc \in {"prepare", "reset"} => loop.held = Transcode
    /\ database = "open" => "database" \in started
    /\ mongod = "up" => "mongod" \in started
    /\ mongod = "starting" => startup = "mongod"
    /\ coord.phase = "mongod" => database # "open"

\* An exit with code 0 leaves nothing failed and nothing open.
ExitKnown ==
    coord.code = "0" => /\ ~coord.failed /\ errors = {}
                        /\ database \notin {"open", "failed"} /\ mongod = "off"

\* Until the barrier each subsystem that is ready is up; afterwards one is not.
ReadyKnown ==
    /\ ~Up => "http" \notin ready
    /\ Up => /\ "mongod" \in ready => mongod = "up"
             /\ "database" \in ready => database = "open"
             /\ "queue" \in ready => Running /\ loop.pc \notin {"off", "ended"}
             /\ "http" \in ready => http = "listening"


\* The loop is not running before the recovery of the queue has ended.
LoopBegins ==
    startup \in {"mongod", "connect", "processing", "settings", "recover"}
        => loop.pc = "off"

\* The loop and the coordinator are records of the declared sets.
LoopOK(l) ==
    /\ l \in [pc : LoopBusy \cup {"off", "waiting", "ended"},
              batch : SUBSET Jobs, todo : SUBSET Jobs,
              saturated : BOOLEAN, held : Jobs \cup {NoJob}]
    /\ l.held # NoJob <=> l.pc \in {"prepare", "reset", "claim", "release", "handle"}
    /\ l.todo \subseteq l.batch \ {Transcode}

CoordOK(c) ==
    c \in [phase : Phases, failed : BOOLEAN, late : BOOLEAN, code : {"none", "0", "1"}]

-----------------------------------------------------------------------------
(***************************************************************************)
(* Type correctness.                                                       *)
(***************************************************************************)
\* Waking the loop keeps its type.
LEMMA WokenType ==
    ASSUME NEW l, LoopOK(l), NEW running \in BOOLEAN
    PROVE  LoopOK(Woken(l, running))
  BY DEF LoopOK, Woken, Head, LoopBusy

\* So does the end of a pass, whatever has led to it.
LEMMA PassType ==
    ASSUME LoopOK(loop), NEW l
    PROVE  LoopOK(NextPass) /\ LoopOK(AfterPass(l))
  <1>1. NoJob \notin Jobs
    BY MonitorAssumption DEF Jobs
  <1>2. Running \in BOOLEAN
    BY DEF Running
  <1>3. LoopOK(NextPass)
    BY <1>1, <1>2 DEF LoopOK, NextPass, Head, LoopBusy
  <1>4. LoopOK([NextPass EXCEPT !.pc = "waiting"])
    BY <1>1, <1>2 DEF LoopOK, NextPass, Head, LoopBusy
  <1> QED
    BY <1>3, <1>4 DEF AfterPass

\* So do the step to the next inline job and the crash of the loop.
LEMMA InlineType ==
    ASSUME LoopOK(loop)
    PROVE  /\ LoopOK(Stopped)
           /\ LoopOK(NextInline)
           /\ \A s \in BOOLEAN : LoopOK(AfterDispatch(s))
           /\ LoopOK([loop EXCEPT !.pc = "ended", !.held = NoJob, !.batch = {},
                                  !.todo = {}, !.saturated = FALSE])
  <1>1. LoopOK(Stopped)
    BY PassType DEF Stopped
  <1>2. LoopOK([loop EXCEPT !.pc = "pick", !.held = NoJob])
    BY MonitorAssumption DEF LoopOK, LoopBusy, Jobs
  <1>3. LoopOK([loop EXCEPT !.pc = "ended", !.held = NoJob, !.batch = {},
                            !.todo = {}, !.saturated = FALSE])
    BY MonitorAssumption DEF LoopOK, LoopBusy, Jobs
  <1>4. ASSUME NEW s \in BOOLEAN PROVE LoopOK(AfterDispatch(s))
    <2> DEFINE l == [loop EXCEPT !.saturated = s, !.held = NoJob]
    <2>1. LoopOK([l EXCEPT !.pc = "pick"])
      BY MonitorAssumption DEF LoopOK, LoopBusy, Jobs
    <2>2. LoopOK(AfterPass(l))
      BY PassType
    <2> QED
      BY <2>1, <2>2 DEF AfterDispatch
  <1> QED
    BY <1>1, <1>2, <1>3, <1>4 DEF NextInline

\* The shutdown keeps the types of what it writes.
LEMMA ShutdownType ==
    ASSUME TypeOK, NEW l, NEW r \in SUBSET Subsystems, NEW failed, Shutdown(failed, l, r)
    PROVE  /\ gates' \subseteq Gates /\ ticking' \in BOOLEAN
           /\ ready' \subseteq Subsystems
           /\ http' \in {"off", "binding", "listening", "closing", "closed"}
  BY DEF Shutdown, Barrier, TypeOK

\* So does the end of a socket event.
LEMMA SettleType ==
    ASSUME TypeOK, NEW next, NEW status \in {"pending", "ended"}, SettleWorker(next, status)
    PROVE  /\ job' \in [Jobs -> {"none", "creating", "pending", "running", "ended"}]
           /\ errors' \subseteq {"queue", "pool", "database"}
           /\ worker' = next
  <1>1. CASE job' = [job EXCEPT ![Transcode] = status] /\ UNCHANGED errors
    BY <1>1 DEF SettleWorker, TypeOK
  <1>2. CASE UNCHANGED job /\ errors' = errors \cup {"pool"}
    BY <1>2 DEF SettleWorker, TypeOK
  <1> QED
    BY <1>1, <1>2 DEF SettleWorker

\* So does the coordinator when a phase ends.
LEMMA CloseType ==
    ASSUME TypeOK, NEW errs, Close(errs)
    PROVE  CoordOK(coord')
  BY DEF Close, NextClose, CoordOK, TypeOK, Phases

\* The end of a pass leaves the loop awake, asleep or, if it may not run, ended.
LEMMA PassMoves ==
    ASSUME LoopOK(loop)
    PROVE  /\ Stopped.pc \in {Head(Running), "waiting"}
           /\ NextInline.pc \in {Head(Running), "waiting", "pick"}
           /\ \A s \in BOOLEAN : AfterDispatch(s).pc \in {Head(Running), "waiting", "pick"}
           /\ ~Running => /\ NextInline.pc # "pick"
                          /\ \A s \in BOOLEAN : AfterDispatch(s).pc # "pick"
  <1>1. NextPass.pc = Head(Running) /\ [NextPass EXCEPT !.pc = "waiting"].pc = "waiting"
    BY DEF NextPass, LoopOK
  <1>2. \A l : AfterPass(l).pc \in {Head(Running), "waiting"}
    BY <1>1 DEF AfterPass
  <1>3. [loop EXCEPT !.pc = "pick", !.held = NoJob].pc = "pick"
    BY DEF LoopOK
  <1>4. Head(Running) # "pick"
    BY DEF Head
  <1>5. ASSUME NEW s \in BOOLEAN
        PROVE /\ AfterDispatch(s).pc \in {Head(Running), "waiting", "pick"}
              /\ ~Running => AfterDispatch(s).pc # "pick"
    <2> DEFINE l == [loop EXCEPT !.saturated = s, !.held = NoJob]
    <2>1. [l EXCEPT !.pc = "pick"].pc = "pick"
      BY DEF LoopOK
    <2> QED
      BY <1>2, <1>4, <2>1 DEF AfterDispatch
  <1> QED
    BY <1>2, <1>3, <1>4, <1>5 DEF Stopped, NextInline

\* What the last step of the startup does.
LEMMA ServeParts ==
    ASSUME Serve
    PROVE  /\ startup = "interval" /\ startup' = "done"
           /\ \/ /\ Up
                 /\ gates' = gates \cup {"workers"} /\ http' = "binding"
                 /\ started' = started \cup {"runnerpool", "http"}
              \/ ~Up /\ UNCHANGED <<gates, http, started>>
           /\ UNCHANGED <<mongod, database, ready, loop, job, unwoken, paused, request,
                          tracked, worker, errors, coord, faults>>
  BY Zenon DEF Serve

\* The loop after a rejection, and what the crash does.
Crashed == [loop EXCEPT !.pc = "ended", !.held = NoJob, !.batch = {}, !.todo = {},
                        !.saturated = FALSE]

\* A failing loop does no more than that.
LEMMA CrashParts ==
    ASSUME LoopFails
    PROVE  /\ loop.pc \in LoopBusy /\ ~(loop.pc = "release" /\ Running)
           /\ DbFault /\ errors' = errors \cup {"queue"}
           /\ \/ Running /\ Shutdown(TRUE, Crashed, ready \ {"queue"})
              \/ /\ ~Running /\ loop' = Crashed
                 /\ UNCHANGED <<gates, ticking, ready, http, coord>>
           /\ UNCHANGED <<startup, started, mongod, database, job, unwoken, paused,
                          request, tracked, worker>>
  BY Zenon DEF LoopFails, Crashed

\* The rest of the state.
RestOK ==
    /\ startup \in StartupPcs
    /\ started \subseteq {"mongod", "database", "queue", "http", "runnerpool"}
    /\ mongod \in {"off", "starting", "up"}
    /\ database \in {"off", "open", "closed", "failed"}
    /\ ready \subseteq Subsystems
    /\ gates \subseteq Gates
    /\ ticking \in BOOLEAN
    /\ job \in [Jobs -> {"none", "creating", "pending", "running", "ended"}]
    /\ unwoken \subseteq Jobs
    /\ paused \in BOOLEAN
    /\ request \in [Requests -> {"new", "refused", "parsing", "handling",
                                 "abandoned", "done"}]
    /\ tracked \subseteq Requests
    /\ http \in {"off", "binding", "listening", "closing", "closed"}
    /\ worker \in {"absent", "idle", "busy", "settling", "leaving"}
    /\ errors \subseteq {"queue", "pool", "database"}

\* Type correctness in terms of the two records and the rest.
LEMMA TypeParts ==
    TypeOK <=> LoopOK(loop) /\ CoordOK(coord) /\ RestOK /\ faults \in 0..MaxFaults
  BY DEF TypeOK, LoopOK, CoordOK, RestOK

\* Every step keeps the type of the loop.
LEMMA StepLoop ==
    ASSUME TypeOK, LoopBegins, [Next]_vars
    PROVE  LoopOK(loop')
  <1>1. LoopOK(loop) /\ Running \in BOOLEAN
    BY TypeParts DEF Running
  <1>2. CASE UNCHANGED loop
    BY <1>1, <1>2
  <1>3. CASE \E b \in BOOLEAN : loop' = Woken(loop, b)
    BY <1>1, <1>3, WokenType
  <1>4. CASE LoopFails
    <2> DEFINE crashed == [loop EXCEPT !.pc = "ended", !.held = NoJob, !.batch = {},
                                       !.todo = {}, !.saturated = FALSE]
    <2>1. LoopOK(crashed) /\ LoopOK(Woken(crashed, FALSE))
      BY <1>1, InlineType, WokenType
    <2>2. loop' \in {crashed, Woken(crashed, FALSE)}
      BY <1>4 DEF LoopFails, Shutdown, Barrier
    <2> QED
      BY <2>1, <2>2
  <1>5. CASE RecoverQueue
    BY <1>1, <1>5 DEF RecoverQueue, StartLoop, LoopBegins, LoopOK, LoopBusy
  <1>6. CASE RelayCancellations \/ PauseGate \/ IdleTimeout \/ StartHandler \/ Claim
    BY <1>1, <1>6 DEF RelayCancellations, PauseGate, IdleTimeout, StartHandler, Claim,
                      At, GoOn, LoopOK, LoopBusy
  <1>7. CASE ListPending
    BY <1>1, <1>7, MonitorAssumption DEF ListPending, LoopOK, LoopBusy, Jobs
  <1>8. CASE Dispatch
    <2>1. /\ LoopOK([loop EXCEPT !.pc = "ended"])
          /\ LoopOK([loop EXCEPT !.pc = "prepare", !.held = Transcode])
      BY <1>1, <1>8, MonitorAssumption DEF Dispatch, LoopOK, LoopBusy, Jobs
    <2>2. \A s \in BOOLEAN : LoopOK(AfterDispatch(s))
      BY <1>1, InlineType
    <2> QED
      BY <1>8, <2>1, <2>2 DEF Dispatch, At
  <1>9. CASE Prepare
    <2>1. LoopOK([loop EXCEPT !.pc = "reset", !.saturated = Running])
      BY <1>1, <1>9 DEF Prepare, LoopOK, LoopBusy
    <2> QED
      BY <1>1, <1>9, <2>1, InlineType DEF Prepare
  <1>10. CASE ResetTranscode \/ ReleaseClaim \/ HandlerEnded
    <2>1. loop.saturated \in BOOLEAN
      BY <1>1 DEF LoopOK
    <2> QED
      BY <1>1, <1>10, <2>1, InlineType DEF ResetTranscode, ReleaseClaim, HandlerEnded
  <1>11. CASE Pick
    <2>1. ASSUME NEW j \in loop.todo
          PROVE LoopOK([loop EXCEPT !.pc = "claim", !.held = j, !.todo = loop.todo \ {j}])
      BY <1>1, <1>11, MonitorAssumption DEF Pick, LoopOK, LoopBusy, Jobs
    <2> QED
      BY <1>1, <1>11, <2>1, InlineType DEF Pick
  <1>12. CASE Sigterm \/ ListenFails \/ StartupFails \/ MongodExits
    BY <1>2, <1>3, <1>12
    DEF Sigterm, ListenFails, StartupFails, MongodExits, Shutdown, Barrier
  <1>13. CASE StartupStep
    BY <1>1, <1>2, <1>3, <1>5, <1>13
    DEF StartupStep, StartMongod, ConnectDatabase, RecoverProcessing, LoadSettings,
        EnqueueScan, NudgeScan, Serve, Listening
  <1>14. CASE RequestStep \/ TickStep
    BY <1>1, <1>2, <1>3, <1>14
    DEF RequestStep, TickStep, Admit, BeginHandler, ClientLeaves, HandlerStores,
        HandlerEnds, TickFires, TickStores, TickWakes, RequestOnly
  <1>15. CASE WorkerStep
    BY <1>1, <1>2, <1>3, <1>15
    DEF WorkerStep, WorkerConnects, ResultArrives, SocketCloses, ResultSettles,
        CloseSettles, SettleWorker
  <1>16. CASE CoordStep \/ SetPaused \/ ConnectionDrops \/ UNCHANGED vars
    BY <1>2, <1>16
    DEF CoordStep, HttpCloses, StartupDrained, WorkDrained, DatabaseCloses,
        MongodStops, Deadline, CoordOnly, SetPaused, ConnectionDrops, vars
  <1> QED
    BY <1>4, <1>6, <1>7, <1>8, <1>9, <1>10, <1>11, <1>12, <1>13, <1>14, <1>15, <1>16
    DEF Next, Failure, QueueStep

\* What the coordinator may do in a step.
LEMMA CoordMoves ==
    ASSUME [Next]_vars
    PROVE  \/ UNCHANGED coord
           \/ \E f \in BOOLEAN : \E l, r : Shutdown(f, l, r)
           \/ StartupDrained \/ WorkDrained \/ DatabaseCloses \/ MongodStops \/ Deadline
  <1>1. CASE CoordStep
    BY <1>1 DEF CoordStep, HttpCloses
  <1>2. CASE Failure
    <2>1. CASE ConnectionDrops
      BY <2>1 DEF ConnectionDrops
    <2>2. CASE LoopFails
      BY <2>2, CrashParts
    <2>3. CASE ListenFails \/ StartupFails \/ MongodExits
      BY <2>3 DEF ListenFails, StartupFails, MongodExits
    <2> QED
      BY <1>2, <2>1, <2>2, <2>3 DEF Failure
  <1>3. CASE Sigterm
    BY <1>3 DEF Sigterm
  <1>4. CASE StartupStep \/ QueueStep \/ IdleTimeout \/ SetPaused
    BY <1>4
    DEF StartupStep, StartMongod, ConnectDatabase, RecoverProcessing, LoadSettings,
        RecoverQueue, EnqueueScan, NudgeScan, Serve, Listening, QueueStep, LoopOnly,
        RelayCancellations, PauseGate, ListPending, Dispatch, Prepare, ResetTranscode,
        Pick, Claim, StartHandler, ReleaseClaim, HandlerEnded, IdleTimeout, SetPaused
  <1>5. CASE RequestStep \/ TickStep \/ WorkerStep \/ UNCHANGED vars
    BY <1>5
    DEF RequestStep, TickStep, Admit, BeginHandler, ClientLeaves, HandlerStores,
        HandlerEnds, TickFires, TickStores, TickWakes, RequestOnly, WorkerStep,
        WorkerConnects, ResultArrives, SocketCloses, ResultSettles, CloseSettles,
        SettleWorker, WorkerOnly, vars
  <1> QED
    BY <1>1, <1>2, <1>3, <1>4, <1>5 DEF Next

\* Every step keeps the type of the coordinator.
LEMMA StepCoord ==
    ASSUME TypeOK, [Next]_vars
    PROVE  CoordOK(coord')
  <1>1. CoordOK(coord)
    BY TypeParts
  <1>2. CASE UNCHANGED coord
    BY <1>1, <1>2
  <1>3. CASE \E f \in BOOLEAN : \E l, r : Shutdown(f, l, r)
    BY <1>1, <1>3 DEF Shutdown, CoordOK, Phases, Up
  <1>4. CASE StartupDrained \/ Deadline
    BY <1>1, <1>4 DEF StartupDrained, Deadline, CoordOK, Phases
  <1>5. CASE WorkDrained \/ DatabaseCloses \/ MongodStops
    BY <1>5, CloseType DEF WorkDrained, DatabaseCloses, MongodStops
  <1> QED
    BY <1>2, <1>3, <1>4, <1>5, CoordMoves

\* A failure is counted up to the bound.
LEMMA StepFaults ==
    ASSUME TypeOK, [Next]_vars
    PROVE  faults' \in 0..MaxFaults
  <1>1. faults \in 0..MaxFaults /\ MaxFaults \in Nat
    BY MonitorAssumption DEF TypeOK
  <1>2. CASE UNCHANGED faults
    BY <1>1, <1>2
  <1>3. CASE Fault
    BY <1>1, <1>3 DEF Fault
  <1>4. CASE Failure \/ CoordStep \/ UNCHANGED vars
    BY <1>2, <1>3, <1>4
    DEF Failure, ListenFails, StartupFails, MongodExits, ConnectionDrops, LoopFails,
        CoordStep, HttpCloses, StartupDrained, WorkDrained, DatabaseCloses, MongodStops,
        Deadline, CoordOnly, DbFault, vars
  <1>5. CASE StartupStep \/ QueueStep \/ IdleTimeout \/ SetPaused \/ Sigterm
    BY <1>2, <1>5
    DEF StartupStep, StartMongod, ConnectDatabase, RecoverProcessing, LoadSettings,
        RecoverQueue, EnqueueScan, NudgeScan, Serve, Listening, QueueStep, LoopOnly,
        RelayCancellations, PauseGate, ListPending, Dispatch, Prepare, ResetTranscode,
        Pick, Claim, StartHandler, ReleaseClaim, HandlerEnded, IdleTimeout, SetPaused,
        Sigterm
  <1>6. CASE RequestStep \/ TickStep
    BY <1>2, <1>6
    DEF RequestStep, TickStep, Admit, BeginHandler, ClientLeaves, HandlerStores,
        HandlerEnds, TickFires, TickStores, TickWakes, RequestOnly
  <1>7. CASE WorkerStep
    BY <1>2, <1>3, <1>7
    DEF WorkerStep, WorkerConnects, ResultArrives, SocketCloses, ResultSettles,
        CloseSettles, SettleWorker, DbFault
  <1> QED
    BY <1>4, <1>5, <1>6, <1>7 DEF Next


\* Every step keeps the types of the rest of the state.
LEMMA StepRest == TypeOK /\ [Next]_vars => RestOK'
  <1> SUFFICES ASSUME TypeOK, [Next]_vars PROVE RestOK'
    OBVIOUS
  <1> USE MonitorAssumption
      DEF TypeOK, RestOK, Jobs, StartupPcs, Gates, Subsystems, DbUp, Proceed
  <1>1. CASE Sigterm
    BY <1>1, ShutdownType DEF Sigterm
  <1>2. CASE SetPaused
    BY <1>2 DEF SetPaused
  <1>3. CASE IdleTimeout
    BY <1>3 DEF IdleTimeout, LoopOnly
  <1>4. CASE StartMongod
    BY <1>4 DEF StartMongod
  <1>5. CASE ConnectDatabase
    BY <1>5 DEF ConnectDatabase
  <1>6. CASE RecoverProcessing
    BY <1>6 DEF RecoverProcessing
  <1>7. CASE LoadSettings
    BY <1>7 DEF LoadSettings
  <1>8. CASE RecoverQueue
    BY <1>8 DEF RecoverQueue, StartLoop
  <1>9. CASE EnqueueScan
    BY <1>9 DEF EnqueueScan
  <1>10. CASE NudgeScan
    BY <1>10 DEF NudgeScan
  <1>11. CASE Serve
    <2>1. ticking' \in BOOLEAN
      BY <1>11 DEF Serve
    <2>2. /\ gates' \subseteq Gates
          /\ http' \in {"off", "binding", "listening", "closing", "closed"}
          /\ started' \subseteq {"mongod", "database", "queue", "http", "runnerpool"}
      BY <1>11, ServeParts
    <2>3. /\ startup' = "done"
          /\ UNCHANGED <<mongod, database, ready, job, unwoken, paused, request,
                         tracked, worker, errors>>
      BY <1>11, ServeParts
    <2> QED
      BY <2>1, <2>2, <2>3
  <1>12. CASE Listening
    BY <1>12 DEF Listening
  <1>13. CASE ListenFails
    BY <1>13, ShutdownType DEF ListenFails
  <1>14. CASE StartupFails
    BY <1>14, ShutdownType DEF StartupFails
  <1>15. CASE MongodExits
    BY <1>15, ShutdownType DEF MongodExits
  <1>16. CASE ConnectionDrops
    BY <1>16 DEF ConnectionDrops
  <1>17. CASE LoopFails
    <2>1. /\ gates' \subseteq Gates /\ ticking' \in BOOLEAN
          /\ ready' \subseteq Subsystems
          /\ http' \in {"off", "binding", "listening", "closing", "closed"}
      <3>1. CASE Running
        <4>1. /\ Shutdown(TRUE, Crashed, ready \ {"queue"})
              /\ ready \ {"queue"} \in SUBSET Subsystems
          BY <1>17, <3>1, CrashParts
        <4> QED
          BY <4>1, ShutdownType
      <3>2. CASE ~Running
        BY <1>17, <3>2, CrashParts
      <3> QED
        BY <3>1, <3>2
    <2>2. /\ errors' = errors \cup {"queue"}
          /\ UNCHANGED <<startup, started, mongod, database, job, unwoken, paused,
                         request, tracked, worker>>
      BY <1>17, CrashParts
    <2> QED
      BY <2>1, <2>2
  <1>18. CASE RelayCancellations
    BY <1>18 DEF RelayCancellations, LoopOnly
  <1>19. CASE PauseGate
    BY <1>19 DEF PauseGate, LoopOnly
  <1>20. CASE ListPending
    BY <1>20 DEF ListPending, LoopOnly
  <1>21. CASE Dispatch
    BY <1>21 DEF Dispatch, LoopOnly
  <1>22. CASE Prepare
    BY <1>22 DEF Prepare, LoopOnly
  <1>23. CASE ResetTranscode
    BY <1>23 DEF ResetTranscode, LoopOnly
  <1>24. CASE Pick
    BY <1>24 DEF Pick, LoopOnly
  <1>25. CASE Claim
    BY <1>25 DEF Claim, LoopOnly
  <1>26. CASE StartHandler
    BY <1>26 DEF StartHandler, LoopOnly
  <1>27. CASE ReleaseClaim
    BY <1>27 DEF ReleaseClaim, LoopOnly
  <1>28. CASE HandlerEnded
    BY <1>28 DEF HandlerEnded, LoopOnly
  <1>29. CASE TickFires
    BY <1>29 DEF TickFires, RequestOnly
  <1>30. CASE TickStores
    BY <1>30 DEF TickStores, RequestOnly
  <1>31. CASE TickWakes
    BY <1>31 DEF TickWakes, RequestOnly
  <1>32. CASE WorkerConnects
    BY <1>32 DEF WorkerConnects, WorkerOnly
  <1>33. CASE ResultArrives
    BY <1>33 DEF ResultArrives, WorkerOnly
  <1>34. CASE SocketCloses
    BY <1>34 DEF SocketCloses, WorkerOnly
  <1>35. CASE ResultSettles
    <2>1. SettleWorker("idle", "ended")
      BY <1>35 DEF ResultSettles
    <2> QED
      BY <2>1, SettleType DEF SettleWorker, WorkerOnly
  <1>36. CASE CloseSettles
    <2>1. SettleWorker("absent", "pending")
      BY <1>36 DEF CloseSettles
    <2> QED
      BY <2>1, SettleType DEF SettleWorker, WorkerOnly
  <1>37. CASE HttpCloses
    BY <1>37 DEF HttpCloses, CoordOnly
  <1>38. CASE StartupDrained
    BY <1>38 DEF StartupDrained, CoordOnly
  <1>39. CASE WorkDrained
    BY <1>39 DEF WorkDrained, CoordOnly
  <1>40. CASE DatabaseCloses
    <2>1. errors' \subseteq {"queue", "pool", "database"}
      BY <1>40 DEF DatabaseCloses
    <2>2. database' \in {"closed", "failed"}
      BY <1>40 DEF DatabaseCloses
    <2> QED
      BY <1>40, <2>1, <2>2 DEF DatabaseCloses, CoordOnly
  <1>41. CASE MongodStops
    BY <1>41 DEF MongodStops, CoordOnly
  <1>42. CASE Deadline
    BY <1>42 DEF Deadline, CoordOnly
  <1>43. ASSUME NEW r \in Requests, Admit(r) PROVE RestOK'
    BY <1>43 DEF Admit, RequestOnly
  <1>44. ASSUME NEW r \in Requests, BeginHandler(r) PROVE RestOK'
    BY <1>44 DEF BeginHandler, RequestOnly
  <1>45. ASSUME NEW r \in Requests, ClientLeaves(r) PROVE RestOK'
    BY <1>45 DEF ClientLeaves, TransportEnds, RequestOnly
  <1>46. ASSUME NEW r \in Requests, HandlerStores(r) PROVE RestOK'
    BY <1>46 DEF HandlerStores, RequestOnly
  <1>47. ASSUME NEW r \in Requests, HandlerEnds(r) PROVE RestOK'
    BY <1>47 DEF HandlerEnds, RequestOnly
  <1>48. CASE UNCHANGED vars
    BY <1>48 DEF vars
  <1> QED
    BY <1>1, <1>2, <1>3, <1>4, <1>5, <1>6, <1>7, <1>8, <1>9, <1>10, <1>11,
       <1>12, <1>13, <1>14, <1>15, <1>16, <1>17, <1>18, <1>19, <1>20, <1>21,
       <1>22, <1>23, <1>24, <1>25, <1>26, <1>27, <1>28, <1>29, <1>30, <1>31,
       <1>32, <1>33, <1>34, <1>35, <1>36, <1>37, <1>38, <1>39, <1>40, <1>41,
       <1>42, <1>43, <1>44, <1>45, <1>46, <1>47, <1>48
    DEF Next, StartupStep, Failure, QueueStep, RequestStep, TickStep, WorkerStep,
        CoordStep

\* No step but the end of the recovery starts the loop.
LEMMA StepBegins == TypeOK /\ LoopBegins /\ [Next]_vars => LoopBegins'
  <1> SUFFICES ASSUME TypeOK, LoopBegins, [Next]_vars PROVE LoopBegins'
    OBVIOUS
  <1> USE MonitorAssumption
      DEF LoopBegins, Woken, LoopBusy, Proceed
  <1>1. CASE Sigterm
    BY <1>1 DEF Sigterm, Shutdown, Barrier
  <1>2. CASE SetPaused
    BY <1>2 DEF SetPaused
  <1>3. CASE IdleTimeout
    BY <1>3 DEF IdleTimeout, LoopOnly
  <1>4. CASE StartMongod
    BY <1>4 DEF StartMongod
  <1>5. CASE ConnectDatabase
    BY <1>5 DEF ConnectDatabase
  <1>6. CASE RecoverProcessing
    BY <1>6 DEF RecoverProcessing
  <1>7. CASE LoadSettings
    BY <1>7 DEF LoadSettings
  <1>8. CASE RecoverQueue
    BY <1>8 DEF RecoverQueue, StartLoop
  <1>9. CASE EnqueueScan
    BY <1>9 DEF EnqueueScan
  <1>10. CASE NudgeScan
    BY <1>10 DEF NudgeScan
  <1>11. CASE Serve
    BY <1>11 DEF Serve
  <1>12. CASE Listening
    BY <1>12 DEF Listening
  <1>13. CASE ListenFails
    BY <1>13 DEF ListenFails, Shutdown, Barrier
  <1>14. CASE StartupFails
    BY <1>14 DEF StartupFails, Shutdown, Barrier
  <1>15. CASE MongodExits
    BY <1>15 DEF MongodExits, Shutdown, Barrier
  <1>16. CASE ConnectionDrops
    BY <1>16 DEF ConnectionDrops
  <1>17. CASE LoopFails
    BY <1>17 DEF LoopFails, Shutdown, Barrier
  <1>18. CASE RelayCancellations
    BY <1>18 DEF RelayCancellations, LoopOnly
  <1>19. CASE PauseGate
    BY <1>19 DEF PauseGate, LoopOnly
  <1>20. CASE ListPending
    BY <1>20 DEF ListPending, LoopOnly
  <1>21. CASE Dispatch
    BY <1>21 DEF Dispatch, LoopOnly
  <1>22. CASE Prepare
    BY <1>22 DEF Prepare, LoopOnly
  <1>23. CASE ResetTranscode
    BY <1>23 DEF ResetTranscode, LoopOnly
  <1>24. CASE Pick
    BY <1>24 DEF Pick, LoopOnly
  <1>25. CASE Claim
    BY <1>25 DEF Claim, LoopOnly
  <1>26. CASE StartHandler
    BY <1>26 DEF StartHandler, LoopOnly
  <1>27. CASE ReleaseClaim
    BY <1>27 DEF ReleaseClaim, LoopOnly
  <1>28. CASE HandlerEnded
    BY <1>28 DEF HandlerEnded, LoopOnly
  <1>29. CASE TickFires
    BY <1>29 DEF TickFires, RequestOnly
  <1>30. CASE TickStores
    BY <1>30 DEF TickStores, RequestOnly
  <1>31. CASE TickWakes
    BY <1>31 DEF TickWakes, RequestOnly
  <1>32. CASE WorkerConnects
    BY <1>32 DEF WorkerConnects, WorkerOnly
  <1>33. CASE ResultArrives
    BY <1>33 DEF ResultArrives, WorkerOnly
  <1>34. CASE SocketCloses
    BY <1>34 DEF SocketCloses, WorkerOnly
  <1>35. CASE ResultSettles
    BY <1>35 DEF ResultSettles, WorkerOnly, SettleWorker
  <1>36. CASE CloseSettles
    BY <1>36 DEF CloseSettles, WorkerOnly, SettleWorker
  <1>37. CASE HttpCloses
    BY <1>37 DEF HttpCloses, CoordOnly
  <1>38. CASE StartupDrained
    BY <1>38 DEF StartupDrained, CoordOnly
  <1>39. CASE WorkDrained
    BY <1>39 DEF WorkDrained, CoordOnly, Close, NextClose
  <1>40. CASE DatabaseCloses
    BY <1>40 DEF DatabaseCloses, CoordOnly, Close, NextClose
  <1>41. CASE MongodStops
    BY <1>41 DEF MongodStops, CoordOnly, Close, NextClose
  <1>42. CASE Deadline
    BY <1>42 DEF Deadline, CoordOnly
  <1>43. ASSUME NEW r \in Requests, Admit(r) PROVE LoopBegins'
    BY <1>43 DEF Admit, RequestOnly
  <1>44. ASSUME NEW r \in Requests, BeginHandler(r) PROVE LoopBegins'
    BY <1>44 DEF BeginHandler, RequestOnly
  <1>45. ASSUME NEW r \in Requests, ClientLeaves(r) PROVE LoopBegins'
    BY <1>45 DEF ClientLeaves, TransportEnds, RequestOnly
  <1>46. ASSUME NEW r \in Requests, HandlerStores(r) PROVE LoopBegins'
    BY <1>46 DEF HandlerStores, RequestOnly
  <1>47. ASSUME NEW r \in Requests, HandlerEnds(r) PROVE LoopBegins'
    BY <1>47 DEF HandlerEnds, RequestOnly
  <1>48. CASE UNCHANGED vars
    BY <1>48 DEF vars
  <1> QED
    BY <1>1, <1>2, <1>3, <1>4, <1>5, <1>6, <1>7, <1>8, <1>9, <1>10, <1>11,
       <1>12, <1>13, <1>14, <1>15, <1>16, <1>17, <1>18, <1>19, <1>20, <1>21,
       <1>22, <1>23, <1>24, <1>25, <1>26, <1>27, <1>28, <1>29, <1>30, <1>31,
       <1>32, <1>33, <1>34, <1>35, <1>36, <1>37, <1>38, <1>39, <1>40, <1>41,
       <1>42, <1>43, <1>44, <1>45, <1>46, <1>47, <1>48
    DEF Next, StartupStep, Failure, QueueStep, RequestStep, TickStep, WorkerStep,
        CoordStep

\* Every step of the monitor keeps the types.
LEMMA StepType == TypeOK /\ LoopBegins /\ [Next]_vars => TypeOK' /\ LoopBegins'
  <1> SUFFICES ASSUME TypeOK, LoopBegins, [Next]_vars PROVE TypeOK' /\ LoopBegins'
    OBVIOUS
  <1>1. LoopOK(loop') /\ CoordOK(coord') /\ RestOK' /\ faults' \in 0..MaxFaults
    BY StepLoop, StepCoord, StepRest, StepFaults
  <1>2. TypeOK'
    BY <1>1 DEF TypeOK, LoopOK, CoordOK, RestOK
  <1> QED
    BY <1>2, StepBegins

\* The monitor starts in a state of the declared types.
LEMMA InitType == Init => TypeOK /\ LoopBegins
  <1> SUFFICES ASSUME Init PROVE TypeOK /\ LoopBegins
    OBVIOUS
  <1>1. LoopOK(loop)
    BY DEF Init, LoopOK, Jobs, LoopBusy
  <1>2. CoordOK(coord)
    BY DEF Init, CoordOK, Phases
  <1>3. RestOK
    BY DEF Init, RestOK, StartupPcs, Subsystems, Gates, Jobs
  <1>4. LoopBegins
    BY DEF Init, LoopBegins
  <1>5. faults \in 0..MaxFaults
    BY MonitorAssumption DEF Init
  <1> QED
    BY <1>1, <1>2, <1>3, <1>4, <1>5, TypeParts

\* Every reachable state is of the declared types.
THEOREM TypeCorrect == Spec => []TypeOK
  BY InitType, StepType, PTL DEF Spec

\* No step opens a gate or arms the timer after the barrier.
LEMMA StepGates == ClosedGatesStayClosed /\ [Next]_vars => ClosedGatesStayClosed'
  <1> SUFFICES ASSUME ClosedGatesStayClosed, [Next]_vars
               PROVE  ClosedGatesStayClosed'
    OBVIOUS
  <1> USE MonitorAssumption
      DEF ClosedGatesStayClosed, Running, Up, DbUp, DbFault, Fault, Proceed
  <1>1. CASE Sigterm
    BY <1>1 DEF Sigterm, Shutdown, Barrier
  <1>2. CASE SetPaused
    BY <1>2 DEF SetPaused
  <1>3. CASE IdleTimeout
    BY <1>3 DEF IdleTimeout, LoopOnly
  <1>4. CASE StartMongod
    BY <1>4 DEF StartMongod
  <1>5. CASE ConnectDatabase
    BY <1>5 DEF ConnectDatabase
  <1>6. CASE RecoverProcessing
    BY <1>6 DEF RecoverProcessing
  <1>7. CASE LoadSettings
    BY <1>7 DEF LoadSettings
  <1>8. CASE RecoverQueue
    BY <1>8 DEF RecoverQueue, StartLoop
  <1>9. CASE EnqueueScan
    BY <1>9 DEF EnqueueScan
  <1>10. CASE NudgeScan
    BY <1>10 DEF NudgeScan
  <1>11. CASE Serve
    BY <1>11 DEF Serve
  <1>12. CASE Listening
    BY <1>12 DEF Listening
  <1>13. CASE ListenFails
    BY <1>13 DEF ListenFails, Shutdown, Barrier
  <1>14. CASE StartupFails
    BY <1>14 DEF StartupFails, Shutdown, Barrier
  <1>15. CASE MongodExits
    BY <1>15 DEF MongodExits, Shutdown, Barrier
  <1>16. CASE ConnectionDrops
    BY <1>16 DEF ConnectionDrops
  <1>17. CASE LoopFails
    BY <1>17 DEF LoopFails, Shutdown, Barrier
  <1>18. CASE RelayCancellations
    BY <1>18 DEF RelayCancellations, LoopOnly
  <1>19. CASE PauseGate
    BY <1>19 DEF PauseGate, LoopOnly
  <1>20. CASE ListPending
    BY <1>20 DEF ListPending, LoopOnly
  <1>21. CASE Dispatch
    BY <1>21 DEF Dispatch, LoopOnly
  <1>22. CASE Prepare
    BY <1>22 DEF Prepare, LoopOnly
  <1>23. CASE ResetTranscode
    BY <1>23 DEF ResetTranscode, LoopOnly
  <1>24. CASE Pick
    BY <1>24 DEF Pick, LoopOnly
  <1>25. CASE Claim
    BY <1>25 DEF Claim, LoopOnly
  <1>26. CASE StartHandler
    BY <1>26 DEF StartHandler, LoopOnly
  <1>27. CASE ReleaseClaim
    BY <1>27 DEF ReleaseClaim, LoopOnly
  <1>28. CASE HandlerEnded
    BY <1>28 DEF HandlerEnded, LoopOnly
  <1>29. CASE TickFires
    BY <1>29 DEF TickFires, RequestOnly
  <1>30. CASE TickStores
    BY <1>30 DEF TickStores, RequestOnly
  <1>31. CASE TickWakes
    BY <1>31 DEF TickWakes, RequestOnly
  <1>32. CASE WorkerConnects
    BY <1>32 DEF WorkerConnects, WorkerOnly
  <1>33. CASE ResultArrives
    BY <1>33 DEF ResultArrives, WorkerOnly
  <1>34. CASE SocketCloses
    BY <1>34 DEF SocketCloses, WorkerOnly
  <1>35. CASE ResultSettles
    BY <1>35 DEF ResultSettles, WorkerOnly, SettleWorker
  <1>36. CASE CloseSettles
    BY <1>36 DEF CloseSettles, WorkerOnly, SettleWorker
  <1>37. CASE HttpCloses
    BY <1>37 DEF HttpCloses, CoordOnly
  <1>38. CASE StartupDrained
    BY <1>38 DEF StartupDrained, CoordOnly
  <1>39. CASE WorkDrained
    BY <1>39 DEF WorkDrained, CoordOnly, Close, NextClose
  <1>40. CASE DatabaseCloses
    BY <1>40 DEF DatabaseCloses, CoordOnly, Close, NextClose
  <1>41. CASE MongodStops
    BY <1>41 DEF MongodStops, CoordOnly, Close, NextClose
  <1>42. CASE Deadline
    BY <1>42 DEF Deadline, CoordOnly
  <1>43. ASSUME NEW r \in Requests, Admit(r) PROVE ClosedGatesStayClosed'
    BY <1>43 DEF Admit, RequestOnly
  <1>44. ASSUME NEW r \in Requests, BeginHandler(r) PROVE ClosedGatesStayClosed'
    BY <1>44 DEF BeginHandler, RequestOnly
  <1>45. ASSUME NEW r \in Requests, ClientLeaves(r) PROVE ClosedGatesStayClosed'
    BY <1>45 DEF ClientLeaves, TransportEnds, RequestOnly
  <1>46. ASSUME NEW r \in Requests, HandlerStores(r) PROVE ClosedGatesStayClosed'
    BY <1>46 DEF HandlerStores, RequestOnly
  <1>47. ASSUME NEW r \in Requests, HandlerEnds(r) PROVE ClosedGatesStayClosed'
    BY <1>47 DEF HandlerEnds, RequestOnly
  <1>48. CASE UNCHANGED vars
    BY <1>48 DEF vars
  <1> QED
    BY <1>1, <1>2, <1>3, <1>4, <1>5, <1>6, <1>7, <1>8, <1>9, <1>10, <1>11,
       <1>12, <1>13, <1>14, <1>15, <1>16, <1>17, <1>18, <1>19, <1>20, <1>21,
       <1>22, <1>23, <1>24, <1>25, <1>26, <1>27, <1>28, <1>29, <1>30, <1>31,
       <1>32, <1>33, <1>34, <1>35, <1>36, <1>37, <1>38, <1>39, <1>40, <1>41,
       <1>42, <1>43, <1>44, <1>45, <1>46, <1>47, <1>48
    DEF Next, StartupStep, Failure, QueueStep, RequestStep, TickStep, WorkerStep,
        CoordStep

\* Every step keeps the record of who is writing.
LEMMA StepWriters == TypeOK /\ WritersKnown /\ [Next]_vars => WritersKnown'
  <1> SUFFICES ASSUME TypeOK, WritersKnown, [Next]_vars PROVE WritersKnown'
    OBVIOUS
  <1> USE MonitorAssumption
      DEF TypeOK, WritersKnown, Jobs, Running, Up, DbUp, DbFault, Fault, Proceed
  <1>1. CASE Sigterm
    BY <1>1 DEF Sigterm, Shutdown, Barrier
  <1>2. CASE SetPaused
    BY <1>2 DEF SetPaused
  <1>3. CASE IdleTimeout
    BY <1>3 DEF IdleTimeout, LoopOnly
  <1>4. CASE StartMongod
    BY <1>4 DEF StartMongod
  <1>5. CASE ConnectDatabase
    BY <1>5 DEF ConnectDatabase
  <1>6. CASE RecoverProcessing
    BY <1>6 DEF RecoverProcessing
  <1>7. CASE LoadSettings
    BY <1>7 DEF LoadSettings
  <1>8. CASE RecoverQueue
    BY <1>8 DEF RecoverQueue, StartLoop
  <1>9. CASE EnqueueScan
    BY <1>9 DEF EnqueueScan
  <1>10. CASE NudgeScan
    BY <1>10 DEF NudgeScan
  <1>11. CASE Serve
    BY <1>11 DEF Serve
  <1>12. CASE Listening
    BY <1>12 DEF Listening
  <1>13. CASE ListenFails
    BY <1>13 DEF ListenFails, Shutdown, Barrier
  <1>14. CASE StartupFails
    BY <1>14 DEF StartupFails, Shutdown, Barrier
  <1>15. CASE MongodExits
    BY <1>15 DEF MongodExits, Shutdown, Barrier
  <1>16. CASE ConnectionDrops
    BY <1>16 DEF ConnectionDrops
  <1>17. CASE LoopFails
    BY <1>17 DEF LoopFails, Shutdown, Barrier
  <1>18. CASE RelayCancellations
    BY <1>18 DEF RelayCancellations, LoopOnly
  <1>19. CASE PauseGate
    BY <1>19 DEF PauseGate, LoopOnly
  <1>20. CASE ListPending
    BY <1>20 DEF ListPending, LoopOnly
  <1>21. CASE Dispatch
    BY <1>21 DEF Dispatch, LoopOnly
  <1>22. CASE Prepare
    BY <1>22 DEF Prepare, LoopOnly
  <1>23. CASE ResetTranscode
    BY <1>23 DEF ResetTranscode, LoopOnly
  <1>24. CASE Pick
    BY <1>24 DEF Pick, LoopOnly
  <1>25. CASE Claim
    BY <1>25 DEF Claim, LoopOnly
  <1>26. CASE StartHandler
    BY <1>26 DEF StartHandler, LoopOnly
  <1>27. CASE ReleaseClaim
    BY <1>27 DEF ReleaseClaim, LoopOnly
  <1>28. CASE HandlerEnded
    BY <1>28 DEF HandlerEnded, LoopOnly
  <1>29. CASE TickFires
    BY <1>29 DEF TickFires, RequestOnly
  <1>30. CASE TickStores
    BY <1>30 DEF TickStores, RequestOnly
  <1>31. CASE TickWakes
    BY <1>31 DEF TickWakes, RequestOnly
  <1>32. CASE WorkerConnects
    BY <1>32 DEF WorkerConnects, WorkerOnly
  <1>33. CASE ResultArrives
    BY <1>33 DEF ResultArrives, WorkerOnly
  <1>34. CASE SocketCloses
    BY <1>34 DEF SocketCloses, WorkerOnly
  <1>35. CASE ResultSettles
    BY <1>35 DEF ResultSettles, WorkerOnly, SettleWorker
  <1>36. CASE CloseSettles
    BY <1>36 DEF CloseSettles, WorkerOnly, SettleWorker
  <1>37. CASE HttpCloses
    BY <1>37 DEF HttpCloses, CoordOnly
  <1>38. CASE StartupDrained
    BY <1>38 DEF StartupDrained, CoordOnly
  <1>39. CASE WorkDrained
    BY <1>39 DEF WorkDrained, CoordOnly, Close, NextClose
  <1>40. CASE DatabaseCloses
    BY <1>40 DEF DatabaseCloses, CoordOnly, Close, NextClose
  <1>41. CASE MongodStops
    BY <1>41 DEF MongodStops, CoordOnly, Close, NextClose
  <1>42. CASE Deadline
    BY <1>42 DEF Deadline, CoordOnly
  <1>43. ASSUME NEW r \in Requests, Admit(r) PROVE WritersKnown'
    BY <1>43 DEF Admit, RequestOnly
  <1>44. ASSUME NEW r \in Requests, BeginHandler(r) PROVE WritersKnown'
    BY <1>44 DEF BeginHandler, RequestOnly
  <1>45. ASSUME NEW r \in Requests, ClientLeaves(r) PROVE WritersKnown'
    BY <1>45 DEF ClientLeaves, TransportEnds, RequestOnly
  <1>46. ASSUME NEW r \in Requests, HandlerStores(r) PROVE WritersKnown'
    BY <1>46 DEF HandlerStores, RequestOnly
  <1>47. ASSUME NEW r \in Requests, HandlerEnds(r) PROVE WritersKnown'
    BY <1>47 DEF HandlerEnds, RequestOnly
  <1>48. CASE UNCHANGED vars
    BY <1>48 DEF vars
  <1> QED
    BY <1>1, <1>2, <1>3, <1>4, <1>5, <1>6, <1>7, <1>8, <1>9, <1>10, <1>11,
       <1>12, <1>13, <1>14, <1>15, <1>16, <1>17, <1>18, <1>19, <1>20, <1>21,
       <1>22, <1>23, <1>24, <1>25, <1>26, <1>27, <1>28, <1>29, <1>30, <1>31,
       <1>32, <1>33, <1>34, <1>35, <1>36, <1>37, <1>38, <1>39, <1>40, <1>41,
       <1>42, <1>43, <1>44, <1>45, <1>46, <1>47, <1>48
    DEF Next, StartupStep, Failure, QueueStep, RequestStep, TickStep, WorkerStep,
        CoordStep

\* Every step keeps what is known of the server.
LEMMA StepServer == TypeOK /\ ServerKnown /\ [Next]_vars => ServerKnown'
  <1> SUFFICES ASSUME TypeOK, ServerKnown, [Next]_vars PROVE ServerKnown'
    OBVIOUS
  <1> USE MonitorAssumption
      DEF TypeOK, ServerKnown, Running, Up, DbUp, DbFault, Fault, Proceed
  <1>1. CASE Sigterm
    BY <1>1 DEF Sigterm, Shutdown, Barrier
  <1>2. CASE SetPaused
    BY <1>2 DEF SetPaused
  <1>3. CASE IdleTimeout
    BY <1>3 DEF IdleTimeout, LoopOnly
  <1>4. CASE StartMongod
    BY <1>4 DEF StartMongod
  <1>5. CASE ConnectDatabase
    BY <1>5 DEF ConnectDatabase
  <1>6. CASE RecoverProcessing
    BY <1>6 DEF RecoverProcessing
  <1>7. CASE LoadSettings
    BY <1>7 DEF LoadSettings
  <1>8. CASE RecoverQueue
    BY <1>8 DEF RecoverQueue, StartLoop
  <1>9. CASE EnqueueScan
    BY <1>9 DEF EnqueueScan
  <1>10. CASE NudgeScan
    BY <1>10 DEF NudgeScan
  <1>11. CASE Serve
    BY <1>11 DEF Serve
  <1>12. CASE Listening
    BY <1>12 DEF Listening
  <1>13. CASE ListenFails
    BY <1>13 DEF ListenFails, Shutdown, Barrier
  <1>14. CASE StartupFails
    BY <1>14 DEF StartupFails, Shutdown, Barrier
  <1>15. CASE MongodExits
    BY <1>15 DEF MongodExits, Shutdown, Barrier
  <1>16. CASE ConnectionDrops
    BY <1>16 DEF ConnectionDrops
  <1>17. CASE LoopFails
    BY <1>17 DEF LoopFails, Shutdown, Barrier
  <1>18. CASE RelayCancellations
    BY <1>18 DEF RelayCancellations, LoopOnly
  <1>19. CASE PauseGate
    BY <1>19 DEF PauseGate, LoopOnly
  <1>20. CASE ListPending
    BY <1>20 DEF ListPending, LoopOnly
  <1>21. CASE Dispatch
    BY <1>21 DEF Dispatch, LoopOnly
  <1>22. CASE Prepare
    BY <1>22 DEF Prepare, LoopOnly
  <1>23. CASE ResetTranscode
    BY <1>23 DEF ResetTranscode, LoopOnly
  <1>24. CASE Pick
    BY <1>24 DEF Pick, LoopOnly
  <1>25. CASE Claim
    BY <1>25 DEF Claim, LoopOnly
  <1>26. CASE StartHandler
    BY <1>26 DEF StartHandler, LoopOnly
  <1>27. CASE ReleaseClaim
    BY <1>27 DEF ReleaseClaim, LoopOnly
  <1>28. CASE HandlerEnded
    BY <1>28 DEF HandlerEnded, LoopOnly
  <1>29. CASE TickFires
    BY <1>29 DEF TickFires, RequestOnly
  <1>30. CASE TickStores
    BY <1>30 DEF TickStores, RequestOnly
  <1>31. CASE TickWakes
    BY <1>31 DEF TickWakes, RequestOnly
  <1>32. CASE WorkerConnects
    BY <1>32 DEF WorkerConnects, WorkerOnly
  <1>33. CASE ResultArrives
    BY <1>33 DEF ResultArrives, WorkerOnly
  <1>34. CASE SocketCloses
    BY <1>34 DEF SocketCloses, WorkerOnly
  <1>35. CASE ResultSettles
    BY <1>35 DEF ResultSettles, WorkerOnly, SettleWorker
  <1>36. CASE CloseSettles
    BY <1>36 DEF CloseSettles, WorkerOnly, SettleWorker
  <1>37. CASE HttpCloses
    BY <1>37 DEF HttpCloses, CoordOnly
  <1>38. CASE StartupDrained
    BY <1>38 DEF StartupDrained, CoordOnly
  <1>39. CASE WorkDrained
    BY <1>39 DEF WorkDrained, CoordOnly, Close, NextClose
  <1>40. CASE DatabaseCloses
    BY <1>40 DEF DatabaseCloses, CoordOnly, Close, NextClose
  <1>41. CASE MongodStops
    BY <1>41 DEF MongodStops, CoordOnly, Close, NextClose
  <1>42. CASE Deadline
    BY <1>42 DEF Deadline, CoordOnly
  <1>43. ASSUME NEW r \in Requests, Admit(r) PROVE ServerKnown'
    BY <1>43 DEF Admit, RequestOnly
  <1>44. ASSUME NEW r \in Requests, BeginHandler(r) PROVE ServerKnown'
    BY <1>44 DEF BeginHandler, RequestOnly
  <1>45. ASSUME NEW r \in Requests, ClientLeaves(r) PROVE ServerKnown'
    BY <1>45 DEF ClientLeaves, TransportEnds, RequestOnly
  <1>46. ASSUME NEW r \in Requests, HandlerStores(r) PROVE ServerKnown'
    BY <1>46 DEF HandlerStores, RequestOnly
  <1>47. ASSUME NEW r \in Requests, HandlerEnds(r) PROVE ServerKnown'
    BY <1>47 DEF HandlerEnds, RequestOnly
  <1>48. CASE UNCHANGED vars
    BY <1>48 DEF vars
  <1> QED
    BY <1>1, <1>2, <1>3, <1>4, <1>5, <1>6, <1>7, <1>8, <1>9, <1>10, <1>11,
       <1>12, <1>13, <1>14, <1>15, <1>16, <1>17, <1>18, <1>19, <1>20, <1>21,
       <1>22, <1>23, <1>24, <1>25, <1>26, <1>27, <1>28, <1>29, <1>30, <1>31,
       <1>32, <1>33, <1>34, <1>35, <1>36, <1>37, <1>38, <1>39, <1>40, <1>41,
       <1>42, <1>43, <1>44, <1>45, <1>46, <1>47, <1>48
    DEF Next, StartupStep, Failure, QueueStep, RequestStep, TickStep, WorkerStep,
        CoordStep

\* Every step keeps the order of the phases.
LEMMA StepPhases ==
    TypeOK /\ WritersKnown /\ ServerKnown /\ PhasesInOrder /\ [Next]_vars
            => PhasesInOrder'
  <1> SUFFICES ASSUME TypeOK, WritersKnown, ServerKnown, PhasesInOrder,
                      [Next]_vars
               PROVE  PhasesInOrder'
    OBVIOUS
  <1> USE MonitorAssumption
      DEF TypeOK, WritersKnown, ServerKnown, PhasesInOrder, HttpDrained, Up,
          DbUp, DbFault, Fault, Proceed
  <1>1. CASE Sigterm
    BY <1>1 DEF Sigterm, Shutdown, Barrier
  <1>2. CASE SetPaused
    BY <1>2 DEF SetPaused
  <1>3. CASE IdleTimeout
    BY <1>3 DEF IdleTimeout, LoopOnly
  <1>4. CASE StartMongod
    BY <1>4 DEF StartMongod
  <1>5. CASE ConnectDatabase
    BY <1>5 DEF ConnectDatabase
  <1>6. CASE RecoverProcessing
    BY <1>6 DEF RecoverProcessing
  <1>7. CASE LoadSettings
    BY <1>7 DEF LoadSettings
  <1>8. CASE RecoverQueue
    BY <1>8 DEF RecoverQueue, StartLoop
  <1>9. CASE EnqueueScan
    BY <1>9 DEF EnqueueScan
  <1>10. CASE NudgeScan
    BY <1>10 DEF NudgeScan
  <1>11. CASE Serve
    BY <1>11 DEF Serve
  <1>12. CASE Listening
    BY <1>12 DEF Listening
  <1>13. CASE ListenFails
    BY <1>13 DEF ListenFails, Shutdown, Barrier
  <1>14. CASE StartupFails
    BY <1>14 DEF StartupFails, Shutdown, Barrier
  <1>15. CASE MongodExits
    BY <1>15 DEF MongodExits, Shutdown, Barrier
  <1>16. CASE ConnectionDrops
    BY <1>16 DEF ConnectionDrops
  <1>17. CASE LoopFails
    <2>1. CASE Running
      BY <1>17, <2>1, CrashParts DEF Shutdown, Barrier, Crashed
    <2>2. CASE ~Running
      BY <1>17, <2>2, CrashParts DEF Crashed
    <2> QED
      BY <2>1, <2>2
  <1>18. CASE RelayCancellations
    BY <1>18 DEF RelayCancellations, LoopOnly
  <1>19. CASE PauseGate
    BY <1>19 DEF PauseGate, LoopOnly
  <1>20. CASE ListPending
    BY <1>20 DEF ListPending, LoopOnly
  <1>21. CASE Dispatch
    BY <1>21 DEF Dispatch, LoopOnly
  <1>22. CASE Prepare
    BY <1>22 DEF Prepare, LoopOnly
  <1>23. CASE ResetTranscode
    BY <1>23 DEF ResetTranscode, LoopOnly
  <1>24. CASE Pick
    BY <1>24 DEF Pick, LoopOnly
  <1>25. CASE Claim
    BY <1>25 DEF Claim, LoopOnly
  <1>26. CASE StartHandler
    BY <1>26 DEF StartHandler, LoopOnly
  <1>27. CASE ReleaseClaim
    BY <1>27 DEF ReleaseClaim, LoopOnly
  <1>28. CASE HandlerEnded
    BY <1>28 DEF HandlerEnded, LoopOnly
  <1>29. CASE TickFires
    BY <1>29 DEF TickFires, RequestOnly
  <1>30. CASE TickStores
    BY <1>30 DEF TickStores, RequestOnly
  <1>31. CASE TickWakes
    BY <1>31 DEF TickWakes, RequestOnly
  <1>32. CASE WorkerConnects
    BY <1>32 DEF WorkerConnects, WorkerOnly
  <1>33. CASE ResultArrives
    BY <1>33 DEF ResultArrives, WorkerOnly
  <1>34. CASE SocketCloses
    BY <1>34 DEF SocketCloses, WorkerOnly
  <1>35. CASE ResultSettles
    BY <1>35 DEF ResultSettles, WorkerOnly, SettleWorker
  <1>36. CASE CloseSettles
    BY <1>36 DEF CloseSettles, WorkerOnly, SettleWorker
  <1>37. CASE HttpCloses
    BY <1>37 DEF HttpCloses, CoordOnly
  <1>38. CASE StartupDrained
    BY <1>38 DEF StartupDrained, CoordOnly
  <1>39. CASE WorkDrained
    BY <1>39 DEF WorkDrained, CoordOnly, Close, NextClose
  <1>40. CASE DatabaseCloses
    BY <1>40 DEF DatabaseCloses, CoordOnly, Close, NextClose
  <1>41. CASE MongodStops
    BY <1>41 DEF MongodStops, CoordOnly, Close, NextClose
  <1>42. CASE Deadline
    BY <1>42 DEF Deadline, CoordOnly
  <1>43. ASSUME NEW r \in Requests, Admit(r) PROVE PhasesInOrder'
    BY <1>43 DEF Admit, RequestOnly
  <1>44. ASSUME NEW r \in Requests, BeginHandler(r) PROVE PhasesInOrder'
    BY <1>44 DEF BeginHandler, RequestOnly
  <1>45. ASSUME NEW r \in Requests, ClientLeaves(r) PROVE PhasesInOrder'
    BY <1>45 DEF ClientLeaves, TransportEnds, RequestOnly
  <1>46. ASSUME NEW r \in Requests, HandlerStores(r) PROVE PhasesInOrder'
    BY <1>46 DEF HandlerStores, RequestOnly
  <1>47. ASSUME NEW r \in Requests, HandlerEnds(r) PROVE PhasesInOrder'
    BY <1>47 DEF HandlerEnds, RequestOnly
  <1>48. CASE UNCHANGED vars
    BY <1>48 DEF vars
  <1> QED
    BY <1>1, <1>2, <1>3, <1>4, <1>5, <1>6, <1>7, <1>8, <1>9, <1>10, <1>11,
       <1>12, <1>13, <1>14, <1>15, <1>16, <1>17, <1>18, <1>19, <1>20, <1>21,
       <1>22, <1>23, <1>24, <1>25, <1>26, <1>27, <1>28, <1>29, <1>30, <1>31,
       <1>32, <1>33, <1>34, <1>35, <1>36, <1>37, <1>38, <1>39, <1>40, <1>41,
       <1>42, <1>43, <1>44, <1>45, <1>46, <1>47, <1>48
    DEF Next, StartupStep, Failure, QueueStep, RequestStep, TickStep, WorkerStep,
        CoordStep

\* No step closes the database beneath anybody.
LEMMA StepPersistence ==
    TypeOK /\ ClosedGatesStayClosed /\ WritersKnown /\ ServerKnown
        /\ PhasesInOrder /\ PersistenceOutlivesWork /\ [Next]_vars
            => PersistenceOutlivesWork'
  <1> SUFFICES ASSUME TypeOK, ClosedGatesStayClosed, WritersKnown, ServerKnown,
                      PhasesInOrder, PersistenceOutlivesWork, [Next]_vars
               PROVE  PersistenceOutlivesWork'
    OBVIOUS
  <1> USE MonitorAssumption
      DEF TypeOK, ClosedGatesStayClosed, WritersKnown, ServerKnown,
          PhasesInOrder, PersistenceOutlivesWork, AtWork, LoopBusy, Woken, Up,
          HttpDrained, QueueDrained, AutoscanDrained, PoolDrained,
          RequestsDrained
  <1>1. CASE Sigterm
    BY <1>1 DEF Sigterm, Shutdown, Barrier
  <1>2. CASE SetPaused
    BY <1>2 DEF SetPaused
  <1>3. CASE IdleTimeout
    BY <1>3 DEF IdleTimeout, LoopOnly
  <1>4. CASE StartMongod
    BY <1>4 DEF StartMongod
  <1>5. CASE ConnectDatabase
    BY <1>5 DEF ConnectDatabase
  <1>6. CASE RecoverProcessing
    BY <1>6 DEF RecoverProcessing
  <1>7. CASE LoadSettings
    BY <1>7 DEF LoadSettings
  <1>8. CASE RecoverQueue
    BY <1>8 DEF RecoverQueue, StartLoop
  <1>9. CASE EnqueueScan
    BY <1>9 DEF EnqueueScan
  <1>10. CASE NudgeScan
    BY <1>10 DEF NudgeScan
  <1>11. CASE Serve
    BY <1>11 DEF Serve
  <1>12. CASE Listening
    BY <1>12 DEF Listening
  <1>13. CASE ListenFails
    BY <1>13 DEF ListenFails, Shutdown, Barrier
  <1>14. CASE StartupFails
    BY <1>14 DEF StartupFails, Shutdown, Barrier
  <1>15. CASE MongodExits
    BY <1>15 DEF MongodExits, Shutdown, Barrier
  <1>16. CASE ConnectionDrops
    BY <1>16 DEF ConnectionDrops
  <1>17. CASE LoopFails
    <2>1. CASE Running
      BY <1>17, <2>1, CrashParts DEF Shutdown, Barrier, Crashed
    <2>2. CASE ~Running
      BY <1>17, <2>2, CrashParts DEF Crashed
    <2> QED
      BY <2>1, <2>2
  <1>18. CASE RelayCancellations
    BY <1>18 DEF RelayCancellations, LoopOnly
  <1>19. CASE PauseGate
    BY <1>19 DEF PauseGate, LoopOnly
  <1>20. CASE ListPending
    BY <1>20 DEF ListPending, LoopOnly
  <1>21. CASE Dispatch
    BY <1>21 DEF Dispatch, LoopOnly
  <1>22. CASE Prepare
    BY <1>22 DEF Prepare, LoopOnly
  <1>23. CASE ResetTranscode
    BY <1>23 DEF ResetTranscode, LoopOnly
  <1>24. CASE Pick
    BY <1>24 DEF Pick, LoopOnly
  <1>25. CASE Claim
    BY <1>25 DEF Claim, LoopOnly
  <1>26. CASE StartHandler
    BY <1>26 DEF StartHandler, LoopOnly
  <1>27. CASE ReleaseClaim
    BY <1>27 DEF ReleaseClaim, LoopOnly
  <1>28. CASE HandlerEnded
    BY <1>28 DEF HandlerEnded, LoopOnly
  <1>29. CASE TickFires
    BY <1>29 DEF TickFires, RequestOnly
  <1>30. CASE TickStores
    BY <1>30 DEF TickStores, RequestOnly
  <1>31. CASE TickWakes
    BY <1>31 DEF TickWakes, RequestOnly
  <1>32. CASE WorkerConnects
    BY <1>32 DEF WorkerConnects, WorkerOnly
  <1>33. CASE ResultArrives
    BY <1>33 DEF ResultArrives, WorkerOnly
  <1>34. CASE SocketCloses
    BY <1>34 DEF SocketCloses, WorkerOnly
  <1>35. CASE ResultSettles
    BY <1>35 DEF ResultSettles, WorkerOnly, SettleWorker
  <1>36. CASE CloseSettles
    BY <1>36 DEF CloseSettles, WorkerOnly, SettleWorker
  <1>37. CASE HttpCloses
    BY <1>37 DEF HttpCloses, CoordOnly
  <1>38. CASE StartupDrained
    BY <1>38 DEF StartupDrained, CoordOnly
  <1>39. CASE WorkDrained
    <2>1. /\ tracked = {} /\ worker = "absent" /\ loop.pc \in {"off", "ended"}
          /\ job[Tick] # "creating" /\ Tick \notin unwoken /\ startup = "done"
      BY <1>39 DEF WorkDrained
    <2>2. \A r \in Requests : request[r] \notin {"parsing", "handling", "abandoned"}
      BY <2>1
    <2>3. unwoken = {}
      BY <2>1, <2>2 DEF Jobs
    <2> QED
      BY <1>39, <2>1, <2>2, <2>3 DEF WorkDrained, CoordOnly
  <1>40. CASE DatabaseCloses
    BY <1>40 DEF DatabaseCloses, CoordOnly, Close, NextClose
  <1>41. CASE MongodStops
    BY <1>41 DEF MongodStops, CoordOnly, Close, NextClose
  <1>42. CASE Deadline
    BY <1>42 DEF Deadline, CoordOnly
  <1>43. ASSUME NEW r \in Requests, Admit(r) PROVE PersistenceOutlivesWork'
    BY <1>43 DEF Admit, RequestOnly
  <1>44. ASSUME NEW r \in Requests, BeginHandler(r) PROVE PersistenceOutlivesWork'
    BY <1>44 DEF BeginHandler, RequestOnly
  <1>45. ASSUME NEW r \in Requests, ClientLeaves(r) PROVE PersistenceOutlivesWork'
    BY <1>45 DEF ClientLeaves, TransportEnds, RequestOnly
  <1>46. ASSUME NEW r \in Requests, HandlerStores(r) PROVE PersistenceOutlivesWork'
    BY <1>46 DEF HandlerStores, RequestOnly
  <1>47. ASSUME NEW r \in Requests, HandlerEnds(r) PROVE PersistenceOutlivesWork'
    BY <1>47 DEF HandlerEnds, RequestOnly
  <1>48. CASE UNCHANGED vars
    BY <1>48 DEF vars
  <1> QED
    BY <1>1, <1>2, <1>3, <1>4, <1>5, <1>6, <1>7, <1>8, <1>9, <1>10, <1>11,
       <1>12, <1>13, <1>14, <1>15, <1>16, <1>17, <1>18, <1>19, <1>20, <1>21,
       <1>22, <1>23, <1>24, <1>25, <1>26, <1>27, <1>28, <1>29, <1>30, <1>31,
       <1>32, <1>33, <1>34, <1>35, <1>36, <1>37, <1>38, <1>39, <1>40, <1>41,
       <1>42, <1>43, <1>44, <1>45, <1>46, <1>47, <1>48
    DEF Next, StartupStep, Failure, QueueStep, RequestStep, TickStep, WorkerStep,
        CoordStep

\* Every step records what fails.
LEMMA StepFaultsKnown ==
    TypeOK /\ PhasesInOrder /\ FaultsKnown /\ [Next]_vars
            => FaultsKnown'
  <1> SUFFICES ASSUME TypeOK, PhasesInOrder, FaultsKnown, [Next]_vars
               PROVE  FaultsKnown'
    OBVIOUS
  <1> USE MonitorAssumption
      DEF TypeOK, PhasesInOrder, FaultsKnown, DbFault, Fault, Up
  <1>1. CASE Sigterm
    BY <1>1 DEF Sigterm, Shutdown, Barrier
  <1>2. CASE SetPaused
    BY <1>2 DEF SetPaused
  <1>3. CASE IdleTimeout
    BY <1>3 DEF IdleTimeout, LoopOnly
  <1>4. CASE StartMongod
    BY <1>4 DEF StartMongod
  <1>5. CASE ConnectDatabase
    BY <1>5 DEF ConnectDatabase
  <1>6. CASE RecoverProcessing
    BY <1>6 DEF RecoverProcessing
  <1>7. CASE LoadSettings
    BY <1>7 DEF LoadSettings
  <1>8. CASE RecoverQueue
    BY <1>8 DEF RecoverQueue, StartLoop
  <1>9. CASE EnqueueScan
    BY <1>9 DEF EnqueueScan
  <1>10. CASE NudgeScan
    BY <1>10 DEF NudgeScan
  <1>11. CASE Serve
    BY <1>11 DEF Serve
  <1>12. CASE Listening
    BY <1>12 DEF Listening
  <1>13. CASE ListenFails
    BY <1>13 DEF ListenFails, Shutdown, Barrier
  <1>14. CASE StartupFails
    BY <1>14 DEF StartupFails, Shutdown, Barrier
  <1>15. CASE MongodExits
    BY <1>15 DEF MongodExits, Shutdown, Barrier
  <1>16. CASE ConnectionDrops
    BY <1>16 DEF ConnectionDrops
  <1>17. CASE LoopFails
    <2>1. CASE Running
      BY <1>17, <2>1, CrashParts DEF Shutdown, Barrier, Crashed
    <2>2. CASE ~Running
      BY <1>17, <2>2, CrashParts DEF Crashed
    <2> QED
      BY <2>1, <2>2
  <1>18. CASE RelayCancellations
    BY <1>18 DEF RelayCancellations, LoopOnly
  <1>19. CASE PauseGate
    BY <1>19 DEF PauseGate, LoopOnly
  <1>20. CASE ListPending
    BY <1>20 DEF ListPending, LoopOnly
  <1>21. CASE Dispatch
    BY <1>21 DEF Dispatch, LoopOnly
  <1>22. CASE Prepare
    BY <1>22 DEF Prepare, LoopOnly
  <1>23. CASE ResetTranscode
    BY <1>23 DEF ResetTranscode, LoopOnly
  <1>24. CASE Pick
    BY <1>24 DEF Pick, LoopOnly
  <1>25. CASE Claim
    BY <1>25 DEF Claim, LoopOnly
  <1>26. CASE StartHandler
    BY <1>26 DEF StartHandler, LoopOnly
  <1>27. CASE ReleaseClaim
    BY <1>27 DEF ReleaseClaim, LoopOnly
  <1>28. CASE HandlerEnded
    BY <1>28 DEF HandlerEnded, LoopOnly
  <1>29. CASE TickFires
    BY <1>29 DEF TickFires, RequestOnly
  <1>30. CASE TickStores
    BY <1>30 DEF TickStores, RequestOnly
  <1>31. CASE TickWakes
    BY <1>31 DEF TickWakes, RequestOnly
  <1>32. CASE WorkerConnects
    BY <1>32 DEF WorkerConnects, WorkerOnly
  <1>33. CASE ResultArrives
    BY <1>33 DEF ResultArrives, WorkerOnly
  <1>34. CASE SocketCloses
    BY <1>34 DEF SocketCloses, WorkerOnly
  <1>35. CASE ResultSettles
    BY <1>35 DEF ResultSettles, WorkerOnly, SettleWorker
  <1>36. CASE CloseSettles
    BY <1>36 DEF CloseSettles, WorkerOnly, SettleWorker
  <1>37. CASE HttpCloses
    BY <1>37 DEF HttpCloses, CoordOnly
  <1>38. CASE StartupDrained
    BY <1>38 DEF StartupDrained, CoordOnly
  <1>39. CASE WorkDrained
    BY <1>39 DEF WorkDrained, CoordOnly, Close, NextClose
  <1>40. CASE DatabaseCloses
    BY <1>40 DEF DatabaseCloses, CoordOnly, Close, NextClose
  <1>41. CASE MongodStops
    BY <1>41 DEF MongodStops, CoordOnly, Close, NextClose
  <1>42. CASE Deadline
    BY <1>42 DEF Deadline, CoordOnly
  <1>43. ASSUME NEW r \in Requests, Admit(r) PROVE FaultsKnown'
    BY <1>43 DEF Admit, RequestOnly
  <1>44. ASSUME NEW r \in Requests, BeginHandler(r) PROVE FaultsKnown'
    BY <1>44 DEF BeginHandler, RequestOnly
  <1>45. ASSUME NEW r \in Requests, ClientLeaves(r) PROVE FaultsKnown'
    BY <1>45 DEF ClientLeaves, TransportEnds, RequestOnly
  <1>46. ASSUME NEW r \in Requests, HandlerStores(r) PROVE FaultsKnown'
    BY <1>46 DEF HandlerStores, RequestOnly
  <1>47. ASSUME NEW r \in Requests, HandlerEnds(r) PROVE FaultsKnown'
    BY <1>47 DEF HandlerEnds, RequestOnly
  <1>48. CASE UNCHANGED vars
    BY <1>48 DEF vars
  <1> QED
    BY <1>1, <1>2, <1>3, <1>4, <1>5, <1>6, <1>7, <1>8, <1>9, <1>10, <1>11,
       <1>12, <1>13, <1>14, <1>15, <1>16, <1>17, <1>18, <1>19, <1>20, <1>21,
       <1>22, <1>23, <1>24, <1>25, <1>26, <1>27, <1>28, <1>29, <1>30, <1>31,
       <1>32, <1>33, <1>34, <1>35, <1>36, <1>37, <1>38, <1>39, <1>40, <1>41,
       <1>42, <1>43, <1>44, <1>45, <1>46, <1>47, <1>48
    DEF Next, StartupStep, Failure, QueueStep, RequestStep, TickStep, WorkerStep,
        CoordStep

\* Every step keeps account of what is open or claimed.
LEMMA StepResources ==
    TypeOK /\ LoopBegins /\ PhasesInOrder /\ ResourcesKnown /\ [Next]_vars
            => ResourcesKnown'
  <1> SUFFICES ASSUME TypeOK, LoopBegins, PhasesInOrder, ResourcesKnown,
                      [Next]_vars
               PROVE  ResourcesKnown'
    OBVIOUS
  <1> USE MonitorAssumption
      DEF TypeOK, LoopBegins, PhasesInOrder, ResourcesKnown, Carried, Jobs,
          LoopBusy, At, GoOn, Head, Woken, Up, DbUp, Proceed
  <1>1. CASE Sigterm
    BY <1>1 DEF Sigterm, Shutdown, Barrier
  <1>2. CASE SetPaused
    BY <1>2 DEF SetPaused
  <1>3. CASE IdleTimeout
    BY <1>3 DEF IdleTimeout, LoopOnly
  <1>4. CASE StartMongod
    BY <1>4 DEF StartMongod
  <1>5. CASE ConnectDatabase
    BY <1>5 DEF ConnectDatabase
  <1>6. CASE RecoverProcessing
    BY <1>6 DEF RecoverProcessing
  <1>7. CASE LoadSettings
    BY <1>7 DEF LoadSettings
  <1>8. CASE RecoverQueue
    BY <1>8 DEF RecoverQueue, StartLoop
  <1>9. CASE EnqueueScan
    BY <1>9 DEF EnqueueScan
  <1>10. CASE NudgeScan
    BY <1>10 DEF NudgeScan
  <1>11. CASE Serve
    BY <1>11, ServeParts
  <1>12. CASE Listening
    BY <1>12 DEF Listening
  <1>13. CASE ListenFails
    BY <1>13 DEF ListenFails, Shutdown, Barrier
  <1>14. CASE StartupFails
    BY <1>14 DEF StartupFails, Shutdown, Barrier
  <1>15. CASE MongodExits
    BY <1>15 DEF MongodExits, Shutdown, Barrier
  <1>16. CASE ConnectionDrops
    BY <1>16 DEF ConnectionDrops
  <1>17. CASE LoopFails
    <2>1. LoopOK(loop) /\ Crashed.pc = "ended"
      BY TypeParts DEF Crashed, LoopOK
    <2>2. loop'.pc = "ended"
      BY <1>17, <2>1, CrashParts DEF Shutdown, Barrier
    <2>3. coord'.phase = "mongod" => coord.phase = "mongod"
      BY <1>17, CrashParts DEF Shutdown
    <2>4. errors' # {} /\ UNCHANGED <<startup, started, mongod, database, job, worker>>
      BY <1>17, CrashParts
    <2> QED
      BY <2>2, <2>3, <2>4
  <1>18. CASE RelayCancellations
    BY <1>18 DEF RelayCancellations, LoopOnly
  <1>19. CASE PauseGate
    BY <1>19 DEF PauseGate, LoopOnly
  <1>20. CASE ListPending
    BY <1>20 DEF ListPending, LoopOnly
  <1>21. CASE Dispatch
    <2>1. UNCHANGED <<startup, started, mongod, database, errors, coord, worker>>
          /\ loop.pc = "dispatch"
      BY <1>21 DEF Dispatch, LoopOnly
    <2>2. CASE UNCHANGED job /\ loop'.pc \notin {"prepare", "reset"}
      BY <2>1, <2>2
    <2>3. CASE /\ job' = [job EXCEPT ![Transcode] = "running"]
               /\ loop' = [loop EXCEPT !.pc = "prepare", !.held = Transcode]
      BY <2>1, <2>3
    <2>4. \A t \in BOOLEAN : AfterDispatch(t).pc \notin {"prepare", "reset"}
      BY TypeParts, PassMoves
    <2> QED
      BY <1>21, <2>2, <2>3, <2>4 DEF Dispatch
  <1>22. CASE Prepare
    <2>1. UNCHANGED <<startup, started, mongod, database, errors, coord, job>>
          /\ loop.pc = "prepare" /\ loop.held = Transcode
      BY <1>22 DEF Prepare, LoopOnly
    <2>2. AfterDispatch(FALSE).pc \notin {"prepare", "reset"}
      BY TypeParts, PassMoves
    <2>3. CASE worker' = "busy" /\ loop' = AfterDispatch(FALSE)
      BY <2>1, <2>2, <2>3
    <2>4. CASE loop' = [loop EXCEPT !.pc = "reset", !.saturated = Running] /\ UNCHANGED worker
      BY <2>1, <2>4
    <2> QED
      BY <1>22, <2>3, <2>4 DEF Prepare
  <1>23. CASE ResetTranscode
    BY <1>23, TypeParts, PassMoves DEF ResetTranscode, LoopOnly
  <1>24. CASE Pick
    BY <1>24, TypeParts, PassMoves DEF Pick, LoopOnly
  <1>25. CASE Claim
    BY <1>25 DEF Claim, LoopOnly
  <1>26. CASE StartHandler
    BY <1>26 DEF StartHandler, LoopOnly
  <1>27. CASE ReleaseClaim
    BY <1>27, TypeParts, PassMoves DEF ReleaseClaim, LoopOnly
  <1>28. CASE HandlerEnded
    BY <1>28, TypeParts, PassMoves DEF HandlerEnded, LoopOnly
  <1>29. CASE TickFires
    BY <1>29 DEF TickFires, RequestOnly
  <1>30. CASE TickStores
    BY <1>30 DEF TickStores, RequestOnly
  <1>31. CASE TickWakes
    BY <1>31 DEF TickWakes, RequestOnly
  <1>32. CASE WorkerConnects
    BY <1>32 DEF WorkerConnects, WorkerOnly
  <1>33. CASE ResultArrives
    BY <1>33 DEF ResultArrives, WorkerOnly
  <1>34. CASE SocketCloses
    BY <1>34 DEF SocketCloses, WorkerOnly
  <1>35. CASE ResultSettles
    BY <1>35 DEF ResultSettles, WorkerOnly, SettleWorker
  <1>36. CASE CloseSettles
    BY <1>36 DEF CloseSettles, WorkerOnly, SettleWorker
  <1>37. CASE HttpCloses
    BY <1>37 DEF HttpCloses, CoordOnly
  <1>38. CASE StartupDrained
    BY <1>38 DEF StartupDrained, CoordOnly
  <1>39. CASE WorkDrained
    BY <1>39 DEF WorkDrained, CoordOnly, Close, NextClose
  <1>40. CASE DatabaseCloses
    BY <1>40 DEF DatabaseCloses, CoordOnly, Close, NextClose
  <1>41. CASE MongodStops
    BY <1>41 DEF MongodStops, CoordOnly, Close, NextClose
  <1>42. CASE Deadline
    BY <1>42 DEF Deadline, CoordOnly
  <1>43. ASSUME NEW r \in Requests, Admit(r) PROVE ResourcesKnown'
    BY <1>43 DEF Admit, RequestOnly
  <1>44. ASSUME NEW r \in Requests, BeginHandler(r) PROVE ResourcesKnown'
    BY <1>44 DEF BeginHandler, RequestOnly
  <1>45. ASSUME NEW r \in Requests, ClientLeaves(r) PROVE ResourcesKnown'
    BY <1>45 DEF ClientLeaves, TransportEnds, RequestOnly
  <1>46. ASSUME NEW r \in Requests, HandlerStores(r) PROVE ResourcesKnown'
    BY <1>46 DEF HandlerStores, RequestOnly
  <1>47. ASSUME NEW r \in Requests, HandlerEnds(r) PROVE ResourcesKnown'
    BY <1>47 DEF HandlerEnds, RequestOnly
  <1>48. CASE UNCHANGED vars
    BY <1>48 DEF vars
  <1> QED
    BY <1>1, <1>2, <1>3, <1>4, <1>5, <1>6, <1>7, <1>8, <1>9, <1>10, <1>11,
       <1>12, <1>13, <1>14, <1>15, <1>16, <1>17, <1>18, <1>19, <1>20, <1>21,
       <1>22, <1>23, <1>24, <1>25, <1>26, <1>27, <1>28, <1>29, <1>30, <1>31,
       <1>32, <1>33, <1>34, <1>35, <1>36, <1>37, <1>38, <1>39, <1>40, <1>41,
       <1>42, <1>43, <1>44, <1>45, <1>46, <1>47, <1>48
    DEF Next, StartupStep, Failure, QueueStep, RequestStep, TickStep, WorkerStep,
        CoordStep

\* Code 0 is given by the last phase, when no drain has reported an error.
LEMMA StepExit ==
    TypeOK /\ PhasesInOrder /\ FaultsKnown /\ ResourcesKnown /\ ExitKnown /\ [Next]_vars
        => ExitKnown'
  <1> SUFFICES ASSUME TypeOK, PhasesInOrder, FaultsKnown, ResourcesKnown, ExitKnown,
                      [Next]_vars
               PROVE  ExitKnown'
    OBVIOUS
  <1>1. CASE UNCHANGED vars
    BY <1>1 DEF vars, ExitKnown
  <1>2. CASE Next /\ coord'.code \in {"1", coord.code}
    BY <1>2 DEF Next, PhasesInOrder, ExitKnown
  <1>3. CASE WorkDrained
    BY <1>3 DEF WorkDrained, Close, NextClose, CoordOnly, TypeOK, PhasesInOrder,
                FaultsKnown, ResourcesKnown, ExitKnown
  <1>4. CASE DatabaseCloses
    BY <1>4 DEF DatabaseCloses, Close, NextClose, CoordOnly, TypeOK, PhasesInOrder,
                FaultsKnown, ResourcesKnown, ExitKnown
  <1>5. CASE MongodStops
    BY <1>5 DEF MongodStops, Close, NextClose, CoordOnly, TypeOK, PhasesInOrder,
                FaultsKnown, ResourcesKnown, ExitKnown
  <1>6. CASE \/ UNCHANGED coord \/ StartupDrained \/ Deadline
             \/ \E f \in BOOLEAN : \E l, r : Shutdown(f, l, r)
    <2>1. coord'.code \in {"1", coord.code}
      BY <1>6 DEF StartupDrained, Deadline, Shutdown, TypeOK
    <2> QED
      BY <1>1, <1>2, <2>1
  <1> QED
    BY <1>3, <1>4, <1>5, <1>6, CoordMoves

\* Every step keeps what is known of the ready subsystems.
LEMMA StepReady ==
    TypeOK /\ LoopBegins /\ ServerKnown /\ PhasesInOrder /\ ReadyKnown
        /\ [Next]_vars
            => ReadyKnown'
  <1> SUFFICES ASSUME TypeOK, LoopBegins, ServerKnown, PhasesInOrder,
                      ReadyKnown, [Next]_vars
               PROVE  ReadyKnown'
    OBVIOUS
  <1> USE MonitorAssumption
      DEF TypeOK, LoopBegins, ServerKnown, PhasesInOrder, ReadyKnown, LoopBusy,
          At, GoOn, Head, Woken, Running, Up, DbUp, Proceed
  <1>1. CASE Sigterm
    BY <1>1 DEF Sigterm, Shutdown, Barrier
  <1>2. CASE SetPaused
    BY <1>2 DEF SetPaused
  <1>3. CASE IdleTimeout
    BY <1>3 DEF IdleTimeout, LoopOnly
  <1>4. CASE StartMongod
    BY <1>4 DEF StartMongod
  <1>5. CASE ConnectDatabase
    BY <1>5 DEF ConnectDatabase
  <1>6. CASE RecoverProcessing
    BY <1>6 DEF RecoverProcessing
  <1>7. CASE LoadSettings
    BY <1>7 DEF LoadSettings
  <1>8. CASE RecoverQueue
    BY <1>8 DEF RecoverQueue, StartLoop
  <1>9. CASE EnqueueScan
    BY <1>9 DEF EnqueueScan
  <1>10. CASE NudgeScan
    BY <1>10 DEF NudgeScan
  <1>11. CASE Serve
    BY <1>11, ServeParts
  <1>12. CASE Listening
    BY <1>12 DEF Listening
  <1>13. CASE ListenFails
    BY <1>13 DEF ListenFails, Shutdown, Barrier
  <1>14. CASE StartupFails
    BY <1>14 DEF StartupFails, Shutdown, Barrier
  <1>15. CASE MongodExits
    BY <1>15 DEF MongodExits, Shutdown, Barrier
  <1>16. CASE ConnectionDrops
    BY <1>16 DEF ConnectionDrops
  <1>17. CASE LoopFails
    <2>1. CASE Running
      BY <1>17, <2>1, CrashParts DEF Shutdown, Barrier, Crashed
    <2>2. CASE ~Running
      BY <1>17, <2>2, CrashParts DEF Crashed
    <2> QED
      BY <2>1, <2>2
  <1>18. CASE RelayCancellations
    BY <1>18 DEF RelayCancellations, LoopOnly
  <1>19. CASE PauseGate
    BY <1>19 DEF PauseGate, LoopOnly
  <1>20. CASE ListPending
    BY <1>20 DEF ListPending, LoopOnly
  <1>21. CASE Dispatch
    BY <1>21, TypeParts, PassMoves DEF Dispatch, LoopOnly
  <1>22. CASE Prepare
    BY <1>22, TypeParts, PassMoves DEF Prepare, LoopOnly
  <1>23. CASE ResetTranscode
    BY <1>23, TypeParts, PassMoves DEF ResetTranscode, LoopOnly
  <1>24. CASE Pick
    BY <1>24, TypeParts, PassMoves DEF Pick, LoopOnly
  <1>25. CASE Claim
    BY <1>25 DEF Claim, LoopOnly
  <1>26. CASE StartHandler
    BY <1>26 DEF StartHandler, LoopOnly
  <1>27. CASE ReleaseClaim
    BY <1>27, TypeParts, PassMoves DEF ReleaseClaim, LoopOnly
  <1>28. CASE HandlerEnded
    BY <1>28, TypeParts, PassMoves DEF HandlerEnded, LoopOnly
  <1>29. CASE TickFires
    BY <1>29 DEF TickFires, RequestOnly
  <1>30. CASE TickStores
    BY <1>30 DEF TickStores, RequestOnly
  <1>31. CASE TickWakes
    BY <1>31 DEF TickWakes, RequestOnly
  <1>32. CASE WorkerConnects
    BY <1>32 DEF WorkerConnects, WorkerOnly
  <1>33. CASE ResultArrives
    BY <1>33 DEF ResultArrives, WorkerOnly
  <1>34. CASE SocketCloses
    BY <1>34 DEF SocketCloses, WorkerOnly
  <1>35. CASE ResultSettles
    BY <1>35 DEF ResultSettles, WorkerOnly, SettleWorker
  <1>36. CASE CloseSettles
    BY <1>36 DEF CloseSettles, WorkerOnly, SettleWorker
  <1>37. CASE HttpCloses
    BY <1>37 DEF HttpCloses, CoordOnly
  <1>38. CASE StartupDrained
    BY <1>38 DEF StartupDrained, CoordOnly
  <1>39. CASE WorkDrained
    BY <1>39 DEF WorkDrained, CoordOnly, Close, NextClose
  <1>40. CASE DatabaseCloses
    BY <1>40 DEF DatabaseCloses, CoordOnly, Close, NextClose
  <1>41. CASE MongodStops
    BY <1>41 DEF MongodStops, CoordOnly, Close, NextClose
  <1>42. CASE Deadline
    BY <1>42 DEF Deadline, CoordOnly
  <1>43. ASSUME NEW r \in Requests, Admit(r) PROVE ReadyKnown'
    BY <1>43 DEF Admit, RequestOnly
  <1>44. ASSUME NEW r \in Requests, BeginHandler(r) PROVE ReadyKnown'
    BY <1>44 DEF BeginHandler, RequestOnly
  <1>45. ASSUME NEW r \in Requests, ClientLeaves(r) PROVE ReadyKnown'
    BY <1>45 DEF ClientLeaves, TransportEnds, RequestOnly
  <1>46. ASSUME NEW r \in Requests, HandlerStores(r) PROVE ReadyKnown'
    BY <1>46 DEF HandlerStores, RequestOnly
  <1>47. ASSUME NEW r \in Requests, HandlerEnds(r) PROVE ReadyKnown'
    BY <1>47 DEF HandlerEnds, RequestOnly
  <1>48. CASE UNCHANGED vars
    BY <1>48 DEF vars
  <1> QED
    BY <1>1, <1>2, <1>3, <1>4, <1>5, <1>6, <1>7, <1>8, <1>9, <1>10, <1>11,
       <1>12, <1>13, <1>14, <1>15, <1>16, <1>17, <1>18, <1>19, <1>20, <1>21,
       <1>22, <1>23, <1>24, <1>25, <1>26, <1>27, <1>28, <1>29, <1>30, <1>31,
       <1>32, <1>33, <1>34, <1>35, <1>36, <1>37, <1>38, <1>39, <1>40, <1>41,
       <1>42, <1>43, <1>44, <1>45, <1>46, <1>47, <1>48
    DEF Next, StartupStep, Failure, QueueStep, RequestStep, TickStep, WorkerStep,
        CoordStep


\* The strengthened invariant, from which the four properties follow.
Supervised == /\ TypeOK /\ LoopBegins /\ ClosedGatesStayClosed /\ WritersKnown
              /\ ServerKnown /\ PhasesInOrder /\ FaultsKnown /\ ResourcesKnown
              /\ ExitKnown /\ ReadyKnown /\ PersistenceOutlivesWork

\* The monitor starts in it.
LEMMA InitSupervised == Init => Supervised
  <1> SUFFICES ASSUME Init PROVE Supervised
    OBVIOUS
  <1>1. ClosedGatesStayClosed /\ ServerKnown /\ PhasesInOrder /\ ReadyKnown
    BY DEF Init, ClosedGatesStayClosed, ServerKnown, PhasesInOrder, ReadyKnown, Up,
           Running, HttpDrained
  <1>2. WritersKnown /\ ResourcesKnown /\ PersistenceOutlivesWork
    BY DEF Init, WritersKnown, ResourcesKnown, PersistenceOutlivesWork, Jobs, Carried
  <1>3. FaultsKnown /\ ExitKnown
    BY DEF Init, FaultsKnown, ExitKnown
  <1> QED
    BY <1>1, <1>2, <1>3, InitType DEF Supervised

\* Every reachable state is in it.
THEOREM SupervisedAlways == Spec => []Supervised
  <1>1. Supervised /\ [Next]_vars => Supervised'
    BY StepType, StepGates, StepWriters, StepServer, StepPhases, StepFaultsKnown,
       StepResources, StepExit, StepReady, StepPersistence DEF Supervised
  <1> QED
    BY <1>1, InitSupervised, PTL DEF Spec

\* Once the barrier has run, no gate is open and none opens again.
THEOREM GatesStayClosed == Spec => []ClosedGatesStayClosed
  <1>1. Supervised => ClosedGatesStayClosed
    BY DEF Supervised
  <1> QED
    BY <1>1, SupervisedAlways, PTL

\* The database and mongod are closed beneath nobody.
THEOREM PersistenceIsLast == Spec => []PersistenceOutlivesWork
  <1>1. Supervised => PersistenceOutlivesWork
    BY DEF Supervised
  <1> QED
    BY <1>1, SupervisedAlways, PTL

\* The monitor reports itself ready only while it serves.
THEOREM ReadyServes == Spec => []ReadyMeansServing
  <1>1. Supervised => ReadyMeansServing
    BY DEF Supervised, ReadyKnown, ReadyMeansServing, Subsystems
  <1> QED
    BY <1>1, SupervisedAlways, PTL

\* Exit code 0 is earned.
THEOREM CleanExit == Spec => []CleanExitIsEarned
  <1>1. Supervised => CleanExitIsEarned
    <2> SUFFICES ASSUME Supervised, coord.code = "0" PROVE CleanExitIsEarned
      BY DEF CleanExitIsEarned
    <2>1. ~AtWork /\ errors = {} /\ ~coord.failed /\ mongod = "off"
          /\ database \in {"off", "closed"}
      BY DEF Supervised, PersistenceOutlivesWork, ExitKnown, TypeOK
    <2>2. faults = 0
      BY <2>1 DEF Supervised, FaultsKnown
    <2>3. ~coord.late
      BY DEF Supervised, FaultsKnown
    <2>4. \A j \in Jobs : job[j] \notin {"creating", "running"}
      BY <2>1 DEF Supervised, WritersKnown, ResourcesKnown, AtWork, Carried, Jobs
    <2> QED
      BY <2>1, <2>2, <2>3, <2>4 DEF CleanExitIsEarned
  <1> QED
    BY <1>1, SupervisedAlways, PTL
=============================================================================
