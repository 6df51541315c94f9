-------------------------- MODULE MonitorLifecycle --------------------------
(***************************************************************************)
(* The life of a monitor process: its startup (server.js), the supervised  *)
(* queue loop with its interruptible sleep (event.js, event/waiter.js,     *)
(* event/dispatch.js), the requests, the autoscan timer and the one runner *)
(* connection that feed the loop, the bundled mongod and the connection to *)
(* it, and the shutdown coordinator that ends all of them in order         *)
(* (shutdown.js).                                                          *)
(*                                                                         *)
(* A step is what runs between two awaits.  A job is named by what creates *)
(* it: a request, the scan of the startup, a tick of the autoscan timer,   *)
(* or the probe that finds the one transcode.  What the handlers do to     *)
(* files is the subject of FileLifecycle; here only who may still be       *)
(* writing matters.                                                        *)
(***************************************************************************)
EXTENDS Naturals

CONSTANTS
    Requests,                \* API requests, each of which enqueues one job
    Scan, Tick, Transcode,   \* the other jobs
    NoJob,                   \* the loop has no job in hand
    MaxFaults                \* bound on the failures below

ASSUME MonitorAssumption ==
    /\ MaxFaults \in Nat
    /\ Scan \notin {Tick, Transcode, NoJob} /\ Tick \notin {Transcode, NoJob}
    /\ Transcode # NoJob
    /\ {Scan, Tick, Transcode, NoJob} \cap Requests = {}

VARIABLES
    startup,    \* the await the startup is at, "done" once it has returned
    started,    \* the subsystems the startup has recorded as started
    mongod,     \* the child process
    database,   \* the connection to it
    ready,      \* the subsystems that report themselves ready
    gates,      \* the acceptance gates that are open
    ticking,    \* the autoscan timer is armed
    loop,       \* the queue loop: the await it is at, its pass, its job
    job,        \* the status of each job
    unwoken,    \* jobs that are stored and whose wakeup has not been called
    paused,     \* the processingPaused setting
    request,    \* each request and its client
    tracked,    \* the requests the tracker holds
    http,       \* the HTTP server
    worker,     \* the one runner connection and its event chain
    errors,     \* what the drains will report
    coord,      \* the shutdown coordinator
    faults      \* failures so far

vars == <<startup, started, mongod, database, ready, gates, ticking, loop, job,
          unwoken, paused, request, tracked, http, worker, errors, coord, faults>>

Jobs       == Requests \cup {Scan, Tick, Transcode}
Subsystems == {"mongod", "database", "queue", "http"}
Gates      == {"requests", "autoscan", "workers", "queue", "runner"}
LoopBusy   == {"relay", "gate", "list", "dispatch", "prepare", "reset", "pick",
               "claim", "release", "handle"}
StartupPcs == {"mongod", "connect", "processing", "settings", "recover",
               "enqueue", "nudge", "interval", "done"}
Phases     == {"up", "startup", "drains", "database", "mongod", "exited"}

TypeOK ==
    /\ startup \in StartupPcs
    /\ started \subseteq {"mongod", "database", "queue", "http", "runnerpool"}
    /\ mongod \in {"off", "starting", "up"}
    /\ database \in {"off", "open", "closed", "failed"}
    /\ ready \subseteq Subsystems
    /\ gates \subseteq Gates
    /\ ticking \in BOOLEAN
    /\ loop \in [pc : LoopBusy \cup {"off", "waiting", "ended"},
                 batch : SUBSET Jobs, todo : SUBSET Jobs,
                 saturated : BOOLEAN, held : Jobs \cup {NoJob}]
    /\ job \in [Jobs -> {"none", "creating", "pending", "running", "ended"}]
    /\ unwoken \subseteq Jobs
    /\ paused \in BOOLEAN
    /\ request \in [Requests -> {"new", "refused", "parsing", "handling",
                                 "abandoned", "done"}]
    /\ tracked \subseteq Requests
    /\ http \in {"off", "binding", "listening", "closing", "closed"}
    /\ worker \in {"absent", "idle", "busy", "settling", "leaving"}
    /\ errors \subseteq {"queue", "pool", "database"}
    /\ coord \in [phase : Phases, failed : BOOLEAN, late : BOOLEAN,
                  code : {"none", "0", "1"}]
    /\ faults \in 0..MaxFaults
    /\ loop.held # NoJob <=> loop.pc \in {"prepare", "reset", "claim", "release",
                                          "handle"}
    /\ loop.todo \subseteq loop.batch \ {Transcode}

Init ==
    /\ startup = "mongod" /\ started = {} /\ mongod = "starting"
    /\ database = "off" /\ ready = {}
    /\ gates = {"requests", "autoscan"} /\ ticking = FALSE
    /\ loop = [pc |-> "off", batch |-> {}, todo |-> {}, saturated |-> FALSE,
               held |-> NoJob]
    /\ job = [j \in Jobs |-> "none"] /\ unwoken = {} /\ paused \in BOOLEAN
    /\ request = [r \in Requests |-> "new"] /\ tracked = {}
    /\ http = "off" /\ worker = "absent" /\ errors = {}
    /\ coord = [phase |-> "up", failed |-> FALSE, late |-> FALSE, code |-> "none"]
    /\ faults = 0

Running == "queue" \in gates
Up      == coord.phase = "up"
DbUp    == mongod = "up"
Fault   == faults < MaxFaults /\ faults' = faults + 1
DbFault == IF DbUp THEN Fault ELSE UNCHANGED faults

(***************************************************************************)
(* wakeup: ends the loop's sleep, and does nothing when it is not asleep.  *)
(* The loop then looks at running, as at the end of each pass.             *)
(***************************************************************************)
Head(running)     == IF running THEN "relay" ELSE "ended"
Woken(l, running) == IF l.pc = "waiting" THEN [l EXCEPT !.pc = Head(running)] ELSE l

(***************************************************************************)
(* shutdown(reason, failed).  The first call closes every gate in one      *)
(* synchronous block and wakes the loop; a later one only adds to the      *)
(* severity.  l and r are the loop and the ready subsystems as the caller  *)
(* leaves them.                                                            *)
(***************************************************************************)
Barrier(l, r) ==
    /\ gates' = {}
    /\ ticking' = FALSE
    /\ loop' = Woken(l, FALSE)
    /\ ready' = r \ {"http", "queue"}
    /\ http' = IF "http" \in started THEN "closing" ELSE http

ShutdownFirstOnly(failed, l, r) ==
    /\ coord' = [coord EXCEPT !.failed = @ \/ (failed /\ Up),
                              !.phase = IF Up THEN "startup" ELSE @]
    /\ IF Up THEN Barrier(l, r)
             ELSE /\ loop' = l /\ ready' = r
                  /\ UNCHANGED <<gates, ticking, http>>

Shutdown(failed, l, r) ==
    /\ coord' = [coord EXCEPT !.failed = @ \/ failed,
                              !.phase = IF Up THEN "startup" ELSE @]
    /\ IF Up THEN Barrier(l, r)
             ELSE /\ loop' = l /\ ready' = r
                  /\ UNCHANGED <<gates, ticking, http>>

Sigterm ==
    /\ Shutdown(FALSE, loop, ready)
    /\ UNCHANGED <<startup, started, mongod, database, job, unwoken, paused,
                   request, tracked, worker, errors, faults>>
-----------------------------------------------------------------------------
(***************************************************************************)
(* Startup.  After each await it looks whether a shutdown has begun, and   *)
(* returns if so.                                                          *)
(***************************************************************************)
Proceed(next) == IF Up THEN next ELSE "done"

StartMongod ==
    /\ startup = "mongod"
    /\ mongod' = "up" /\ ready' = ready \cup {"mongod"}
    /\ started' = started \cup {"mongod"}
    /\ startup' = Proceed("connect")
    /\ UNCHANGED <<database, gates, ticking, loop, job, unwoken, paused, request,
                   tracked, http, worker, errors, coord, faults>>

ConnectDatabase ==
    /\ startup = "connect" /\ DbUp
    /\ database' = "open" /\ ready' = ready \cup {"database"}
    /\ started' = started \cup {"database"}
    /\ startup' = Proceed("processing")
    /\ UNCHANGED <<mongod, gates, ticking, loop, job, unwoken, paused, request,
                   tracked, http, worker, errors, coord, faults>>

RecoverProcessing ==
    /\ startup = "processing" /\ DbUp
    /\ startup' = Proceed("settings")
    /\ UNCHANGED <<started, mongod, database, ready, gates, ticking, loop, job,
                   unwoken, paused, request, tracked, http, worker, errors, coord,
                   faults>>

(* settings.initialize, and the head of event.initialize: running is set   *)
(* before the recovery of the queue is awaited.                            *)
LoadSettings ==
    /\ startup = "settings" /\ DbUp
    /\ startup' = Proceed("recover")
    /\ gates' = IF Up THEN gates \cup {"queue"} ELSE gates
    /\ UNCHANGED <<started, mongod, database, ready, ticking, loop, job, unwoken,
                   paused, request, tracked, http, worker, errors, coord, faults>>

StartLoopLate ==
    /\ loop' = [loop EXCEPT !.pc = "relay"]
    /\ ready' = ready \cup {"queue"}
    /\ gates' = gates \cup {"queue"}

(* The rest of event.initialize: a shutdown that landed during the         *)
(* recovery has cleared running, and the loop is not started.              *)
StartLoop ==
    /\ loop' = IF Running THEN [loop EXCEPT !.pc = "relay"] ELSE loop
    /\ ready' = IF Running THEN ready \cup {"queue"} ELSE ready
    /\ UNCHANGED gates

RecoverQueue ==
    /\ startup = "recover" /\ DbUp
    /\ StartLoop
    /\ started' = started \cup {"queue"}
    /\ startup' = Proceed("enqueue")
    /\ job' = IF Up THEN [job EXCEPT ![Scan] = "creating"] ELSE job
    /\ UNCHANGED <<mongod, database, ticking, unwoken, paused, request, tracked,
                   http, worker, errors, coord, faults>>

EnqueueScan ==
    /\ startup = "enqueue" /\ DbUp
    /\ job' = [job EXCEPT ![Scan] = "pending"]
    /\ unwoken' = unwoken \cup {Scan}
    /\ startup' = "nudge"
    /\ UNCHANGED <<started, mongod, database, ready, gates, ticking, loop, paused,
                   request, tracked, http, worker, errors, coord, faults>>

NudgeScan ==
    /\ startup = "nudge" /\ DbUp
    /\ unwoken' = unwoken \ {Scan}
    /\ loop' = Woken(loop, Running)
    /\ startup' = Proceed("interval")
    /\ UNCHANGED <<started, mongod, database, ready, gates, ticking, job, paused,
                   request, tracked, http, worker, errors, coord, faults>>

(* autoscan.apply, createServer, attach and listen, without an await       *)
(* between them.                                                           *)
Serve ==
    /\ startup = "interval" /\ DbUp
    /\ startup' = "done"
    /\ IF Up
       THEN /\ ticking' \in IF "autoscan" \in gates THEN BOOLEAN ELSE {FALSE}
            /\ gates' = gates \cup {"workers"}
            /\ http' = "binding"
            /\ started' = started \cup {"runnerpool", "http"}
       ELSE UNCHANGED <<ticking, gates, http, started>>
    /\ UNCHANGED <<mongod, database, ready, loop, job, unwoken, paused, request,
                   tracked, worker, errors, coord, faults>>

(* The callback of listen starts the local runner.                         *)
Listening ==
    /\ http = "binding" /\ Up
    /\ http' = "listening" /\ ready' = ready \cup {"http"}
    /\ gates' = gates \cup {"runner"}
    /\ UNCHANGED <<startup, started, mongod, database, ticking, loop, job, unwoken,
                   paused, request, tracked, worker, errors, coord, faults>>

ListenFails ==
    /\ Fault
    /\ http = "binding"
    /\ Shutdown(TRUE, loop, ready)
    /\ UNCHANGED <<startup, started, mongod, database, job, unwoken, paused,
                   request, tracked, worker, errors>>

StartupFails ==
    /\ startup # "done"
    /\ IF startup = "mongod" THEN Fault ELSE DbFault
    /\ startup' = "done"
    /\ mongod' = IF startup = "mongod" THEN "off" ELSE mongod
    /\ job' = IF startup = "enqueue" THEN [job EXCEPT ![Scan] = "none"] ELSE job
    /\ unwoken' = unwoken \ {Scan}
    /\ Shutdown(TRUE, loop, ready)
    /\ UNCHANGED <<started, database, paused, request, tracked, worker, errors>>

(* An exit of mongod nobody asked for is fatal once; the connection        *)
(* notices on its own.                                                     *)
MongodExits ==
    /\ Fault
    /\ mongod = "up" /\ coord.phase # "mongod"
    /\ mongod' = "off"
    /\ Shutdown(TRUE, loop, ready \ {"mongod"})
    /\ UNCHANGED <<startup, started, database, job, unwoken, paused, request,
                   tracked, worker, errors>>

ConnectionDrops ==
    /\ mongod = "off" /\ "database" \in ready
    /\ ready' = ready \ {"database"}
    /\ UNCHANGED <<startup, started, mongod, database, gates, ticking, loop, job,
                   unwoken, paused, request, tracked, http, worker, errors, coord,
                   faults>>
-----------------------------------------------------------------------------
(***************************************************************************)
(* The queue loop.  Its head tests running after every await; its sleep is *)
(* entered in the same turn as the last await of a pass, and only at the   *)
(* pause gate does a test of running stand before it.                      *)
(***************************************************************************)
LoopOnly == UNCHANGED <<startup, started, mongod, database, ready, gates, ticking,
                        paused, request, tracked, http, errors, coord, faults>>
At(pc)   == [loop EXCEPT !.pc = pc]
GoOn(pc) == At(IF Running THEN pc ELSE "ended")
NextPassHolding == [loop EXCEPT !.pc = Head(Running), !.batch = {}, !.todo = {},
                                !.saturated = FALSE]
NextPass == [loop EXCEPT !.pc = Head(Running), !.batch = {}, !.todo = {},
                         !.saturated = FALSE, !.held = NoJob]

RelayCancellations ==
    /\ loop.pc = "relay"
    /\ loop' = GoOn("gate")
    /\ LoopOnly /\ UNCHANGED <<job, unwoken, worker>>

PauseGate ==
    /\ loop.pc = "gate" /\ DbUp
    /\ loop' = GoOn(IF paused THEN "waiting" ELSE "list")
    /\ LoopOnly /\ UNCHANGED <<job, unwoken, worker>>

(* The answer of the query is handled later than the query reads.          *)
ListPending ==
    /\ loop.pc = "list" /\ DbUp
    /\ LET found == {j \in Jobs : job[j] = "pending"} IN
       loop' = [loop EXCEPT !.pc = "dispatch", !.batch = found,
                            !.todo = found \ {Transcode}]
    /\ LoopOnly /\ UNCHANGED <<job, unwoken, worker>>

(* The end of a pass: sleep when there was no inline work and either no    *)
(* transcode or no capacity for it.                                        *)
AfterPass(l) ==
    IF l.batch \subseteq {Transcode} /\ (l.batch = {} \/ l.saturated)
    THEN [NextPass EXCEPT !.pc = "waiting"]
    ELSE NextPass

AfterDispatch(saturated) ==
    LET l == [loop EXCEPT !.saturated = saturated, !.held = NoJob] IN
    IF l.todo = {} \/ ~Running THEN AfterPass(l) ELSE [l EXCEPT !.pc = "pick"]

(* dispatchTranscodes: capacity, pause, claim; then prepare and validate,  *)
(* and the handover, or the reset of the claim.                            *)
Dispatch ==
    /\ loop.pc = "dispatch"
    /\ IF ~Running
       THEN loop' = At("ended") /\ UNCHANGED job
       ELSE IF Transcode \in loop.batch /\ worker = "idle" /\ ~paused
       THEN /\ DbUp
            /\ job' = [job EXCEPT ![Transcode] = "running"]
            /\ loop' = [loop EXCEPT !.pc = "prepare", !.held = Transcode]
       ELSE /\ loop' = AfterDispatch(Transcode \in loop.batch /\ worker # "idle")
            /\ UNCHANGED job
    /\ LoopOnly /\ UNCHANGED <<unwoken, worker>>

Prepare ==
    /\ loop.pc = "prepare" /\ DbUp
    /\ IF Running /\ worker = "idle"
       THEN /\ worker' = "busy"
            /\ loop' = AfterDispatch(FALSE)
       ELSE /\ loop' = [loop EXCEPT !.pc = "reset", !.saturated = Running]
            /\ UNCHANGED worker
    /\ LoopOnly /\ UNCHANGED <<job, unwoken>>

(* The pass then ends as "saturated", whatever happened during the reset.  *)
ResetTranscode ==
    /\ loop.pc = "reset" /\ DbUp
    /\ job' = [job EXCEPT ![Transcode] = "pending"]
    /\ loop' = AfterDispatch(loop.saturated)
    /\ LoopOnly /\ UNCHANGED <<unwoken, worker>>

(* runPendingJobs: running and the pause flag before each claim, running   *)
(* again after it, and after the handler's terminal write.                 *)
Stopped == AfterPass([loop EXCEPT !.held = NoJob])

Pick ==
    /\ loop.pc = "pick" /\ DbUp
    /\ IF ~Running \/ paused
       THEN loop' = Stopped
       ELSE \E j \in loop.todo :
                loop' = [loop EXCEPT !.pc = "claim", !.held = j, !.todo = @ \ {j}]
    /\ LoopOnly /\ UNCHANGED <<job, unwoken, worker>>

NextInline == IF loop.todo = {} \/ ~Running THEN Stopped
              ELSE [loop EXCEPT !.pc = "pick", !.held = NoJob]

(* The claim is stored by the database before its answer is handled, so    *)
(* that a shutdown may fall between the two.                               *)
Claim ==
    /\ loop.pc = "claim" /\ DbUp
    /\ job' = [job EXCEPT ![loop.held] = "running"]
    /\ loop' = At("release")
    /\ LoopOnly /\ UNCHANGED <<unwoken, worker>>

StartHandler ==
    /\ loop.pc = "release" /\ Running
    /\ loop' = At("handle")
    /\ LoopOnly /\ UNCHANGED <<job, unwoken, worker>>

ReleaseClaim ==
    /\ loop.pc = "release" /\ ~Running /\ DbUp
    /\ job' = [job EXCEPT ![loop.held] = "pending"]
    /\ loop' = Stopped
    /\ LoopOnly /\ UNCHANGED <<unwoken, worker>>

(* The handler and its terminal write.  A probe may create the transcode;  *)
(* its wakeup finds the loop awake.                                        *)
HandlerEnded ==
    /\ loop.pc = "handle" /\ DbUp
    /\ \E probed \in BOOLEAN :
           job' = [job EXCEPT ![loop.held] = "ended",
                              ![Transcode] = IF @ = "none" /\ probed
                                             THEN "pending" ELSE @]
    /\ loop' = NextInline
    /\ LoopOnly /\ UNCHANGED <<unwoken, worker>>

IdleTimeoutOff == FALSE /\ UNCHANGED vars

IdleTimeout ==
    /\ loop.pc = "waiting"
    /\ loop' = GoOn("relay")
    /\ LoopOnly /\ UNCHANGED <<job, unwoken, worker>>

LoopFailsUnseen ==
    /\ loop.pc \in LoopBusy
    /\ DbFault
    /\ loop' = [loop EXCEPT !.pc = "ended", !.held = NoJob, !.batch = {},
                            !.todo = {}, !.saturated = FALSE]
    /\ errors' = errors \cup {"queue"}
    /\ UNCHANGED <<startup, started, mongod, database, ready, gates, ticking, job,
                   unwoken, paused, request, tracked, http, worker, coord>>

(* A rejection ends the loop.  While it runs this is fatal and shuts the   *)
(* monitor down; during a drain it is kept for the drain to report.        *)
LoopFails ==
    /\ loop.pc \in LoopBusy /\ ~(loop.pc = "release" /\ Running)
    /\ DbFault
    /\ errors' = errors \cup {"queue"}
    /\ LET crashed == [loop EXCEPT !.pc = "ended", !.held = NoJob, !.batch = {},
                                   !.todo = {}, !.saturated = FALSE] IN
       IF Running THEN Shutdown(TRUE, crashed, ready \ {"queue"})
                  ELSE /\ loop' = crashed
                       /\ UNCHANGED <<gates, ticking, ready, http, coord>>
    /\ UNCHANGED <<startup, started, mongod, database, job, unwoken, paused,
                   request, tracked, worker>>

QueueStep == RelayCancellations \/ PauseGate \/ ListPending \/ Dispatch
             \/ Prepare \/ ResetTranscode \/ Pick \/ Claim \/ StartHandler
             \/ ReleaseClaim \/ HandlerEnded
-----------------------------------------------------------------------------
(***************************************************************************)
(* Requests.  The tracker admits a request before its body is parsed and   *)
(* holds it until its handler has ended, also when the client goes first;  *)
(* a request whose client goes before the handler begins ends with the     *)
(* transport, as does one that is served without a handler.                *)
(***************************************************************************)
RequestOnly == UNCHANGED <<startup, started, mongod, database, ready, gates,
                           ticking, paused, http, worker, errors, coord, faults>>

Admit(r) ==
    /\ request[r] = "new" /\ http \in {"listening", "closing"}
    /\ IF "requests" \in gates
       THEN /\ request' = [request EXCEPT ![r] = "parsing"]
            /\ tracked' = tracked \cup {r}
       ELSE /\ request' = [request EXCEPT ![r] = "refused"]
            /\ UNCHANGED tracked
    /\ RequestOnly /\ UNCHANGED <<loop, job, unwoken>>

BeginHandler(r) ==
    /\ request[r] = "parsing"
    /\ request' = [request EXCEPT ![r] = "handling"]
    /\ job' = [job EXCEPT ![r] = "creating"]
    /\ RequestOnly /\ UNCHANGED <<loop, unwoken, tracked>>

TransportEndsAll(r) ==
    /\ request[r] \in {"parsing", "handling"}
    /\ request' = [request EXCEPT ![r] = IF @ = "parsing" THEN "done" ELSE "abandoned"]
    /\ tracked' = tracked \ {r}

(* The transport ends: the client disconnects, or a static file is sent.   *)
TransportEnds(r) ==
    \/ /\ request[r] = "parsing"
       /\ request' = [request EXCEPT ![r] = "done"]
       /\ tracked' = tracked \ {r}
    \/ /\ request[r] = "handling"
       /\ request' = [request EXCEPT ![r] = "abandoned"]
       /\ UNCHANGED tracked

ClientLeaves(r) ==
    /\ TransportEnds(r)
    /\ RequestOnly /\ UNCHANGED <<loop, job, unwoken>>

HandlerStores(r) ==
    /\ request[r] \in {"handling", "abandoned"} /\ job[r] = "creating" /\ DbUp
    /\ job' = [job EXCEPT ![r] = "pending"]
    /\ unwoken' = unwoken \cup {r}
    /\ RequestOnly /\ UNCHANGED <<loop, request, tracked>>

HandlerEnds(r) ==
    /\ request[r] \in {"handling", "abandoned"}
    /\ \/ /\ r \in unwoken
          /\ loop' = Woken(loop, Running) /\ UNCHANGED job
       \/ /\ job[r] = "creating" /\ ~DbUp
          /\ job' = [job EXCEPT ![r] = "none"] /\ UNCHANGED loop
    /\ unwoken' = unwoken \ {r}
    /\ request' = [request EXCEPT ![r] = "done"]
    /\ tracked' = tracked \ {r}
    /\ RequestOnly

SetPaused ==
    /\ paused' = ~paused /\ Up
    /\ UNCHANGED <<startup, started, mongod, database, ready, gates, ticking, loop,
                   job, unwoken, request, tracked, http, worker, errors, coord,
                   faults>>

(***************************************************************************)
(* The autoscan timer.  Its enqueue belongs to nobody; autoscan.shutdown   *)
(* waits for the ones under way.                                           *)
(***************************************************************************)
TickFires ==
    /\ ticking /\ job[Tick] = "none"
    /\ job' = [job EXCEPT ![Tick] = "creating"]
    /\ RequestOnly /\ UNCHANGED <<loop, unwoken, request, tracked>>

TickStores ==
    /\ job[Tick] = "creating"
    /\ IF DbUp THEN /\ job' = [job EXCEPT ![Tick] = "pending"]
                    /\ unwoken' = unwoken \cup {Tick}
               ELSE /\ job' = [job EXCEPT ![Tick] = "none"]
                    /\ UNCHANGED unwoken
    /\ RequestOnly /\ UNCHANGED <<loop, request, tracked>>

TickWakes ==
    /\ Tick \in unwoken
    /\ unwoken' = unwoken \ {Tick}
    /\ loop' = Woken(loop, Running)
    /\ RequestOnly /\ UNCHANGED <<job, request, tracked>>

(***************************************************************************)
(* The runner connection, as far as it feeds the loop and holds up the     *)
(* drain: the events of its socket are handled one after the other, and    *)
(* the close of a busy socket recovers the job.  A rejected handler is     *)
(* remembered by the socket and reported by the drain.                     *)
(***************************************************************************)
WorkerOnly == UNCHANGED <<startup, started, mongod, database, ready, gates, ticking,
                          unwoken, paused, request, tracked, http, coord>>

WorkerConnects ==
    /\ worker = "absent" /\ http = "listening" /\ {"workers", "runner"} \subseteq gates
    /\ worker' = "idle"
    /\ loop' = Woken(loop, Running)
    /\ WorkerOnly /\ UNCHANGED <<job, errors, faults>>

ResultArrives ==
    /\ worker = "busy"
    /\ worker' = "settling"
    /\ WorkerOnly /\ UNCHANGED <<loop, job, errors, faults>>

SocketCloses ==
    /\ worker \in {"idle", "busy"}
    /\ worker' = IF worker = "busy" THEN "leaving" ELSE "absent"
    /\ loop' = IF worker = "idle" THEN Woken(loop, Running) ELSE loop
    /\ WorkerOnly /\ UNCHANGED <<job, errors, faults>>

SettleWorker(next, status) ==
    /\ worker' = next
    /\ \/ /\ DbUp
          /\ job' = [job EXCEPT ![Transcode] = status]
          /\ loop' = Woken(loop, Running)
          /\ UNCHANGED <<errors, faults>>
       \/ /\ DbFault
          /\ errors' = errors \cup {"pool"}
          /\ UNCHANGED <<job, loop>>
    /\ WorkerOnly

ResultSettles == worker = "settling" /\ SettleWorker("idle", "ended")
CloseSettles  == worker = "leaving" /\ SettleWorker("absent", "pending")
-----------------------------------------------------------------------------
(***************************************************************************)
(* The coordinator: the startup drain, then all other drains together,     *)
(* then the database, then mongod, then the exit; the deadline ends the    *)
(* process from any of these.                                              *)
(***************************************************************************)
CoordOnly == UNCHANGED <<startup, started, ready, gates, ticking, loop, job,
                         unwoken, paused, request, tracked, worker>>

HttpCloses ==
    /\ http = "closing" /\ worker = "absent"
    /\ \A r \in Requests : request[r] \notin {"parsing", "handling"}
    /\ http' = "closed"
    /\ CoordOnly /\ UNCHANGED <<mongod, database, errors, coord, faults>>

StartupDrained ==
    /\ coord.phase = "startup" /\ startup = "done"
    /\ coord' = [coord EXCEPT !.phase = "drains"]
    /\ CoordOnly /\ UNCHANGED <<mongod, database, http, errors, faults>>

QueueDrained    == loop.pc \in {"off", "ended"}
AutoscanDrained == job[Tick] # "creating" /\ Tick \notin unwoken
PoolDrained     == worker = "absent"
HttpDrained     == http \in {"off", "closed"}
RequestsDrained == tracked = {}

NextClose(phase) ==
    IF phase = "drains" /\ "database" \in started THEN "database"
    ELSE IF phase \in {"drains", "database"} /\ "mongod" \in started THEN "mongod"
    ELSE "exited"

Close(errs) ==
    LET phase == NextClose(coord.phase) IN
    coord' = [coord EXCEPT
        !.phase = phase,
        !.code = IF phase = "exited"
                 THEN IF coord.failed \/ errs # {} THEN "1" ELSE "0"
                 ELSE @]

WorkDrained ==
    /\ coord.phase = "drains"
    /\ HttpDrained /\ RequestsDrained /\ AutoscanDrained /\ QueueDrained
    /\ PoolDrained
    /\ Close(errors)
    /\ CoordOnly /\ UNCHANGED <<mongod, database, http, errors, faults>>

DatabaseCloses ==
    /\ coord.phase = "database"
    /\ \/ database' = "closed" /\ UNCHANGED <<errors, faults>>
       \/ database' = "failed" /\ DbFault /\ errors' = errors \cup {"database"}
    /\ Close(errors')
    /\ CoordOnly /\ UNCHANGED <<mongod, http>>

MongodStops ==
    /\ coord.phase = "mongod"
    /\ mongod' = "off"
    /\ Close(errors)
    /\ CoordOnly /\ UNCHANGED <<database, http, errors, faults>>

DeadlineOfDrains ==
    /\ coord.phase = "drains"
    /\ coord' = [coord EXCEPT !.phase = "exited", !.late = TRUE, !.failed = TRUE,
                              !.code = "1"]
    /\ CoordOnly /\ UNCHANGED <<mongod, database, http, errors, faults>>

Deadline ==
    /\ coord.phase \notin {"up", "exited"}
    /\ coord' = [coord EXCEPT !.phase = "exited", !.late = TRUE, !.failed = TRUE,
                              !.code = "1"]
    /\ CoordOnly /\ UNCHANGED <<mongod, database, http, errors, faults>>

StartupStep == StartMongod \/ ConnectDatabase \/ RecoverProcessing \/ LoadSettings
               \/ RecoverQueue \/ EnqueueScan \/ NudgeScan \/ Serve \/ Listening
Failure     == ListenFails \/ StartupFails \/ MongodExits \/ ConnectionDrops
               \/ LoopFails
RequestStep == \E r \in Requests : \/ Admit(r) \/ BeginHandler(r) \/ ClientLeaves(r)
                                   \/ HandlerStores(r) \/ HandlerEnds(r)
TickStep    == TickFires \/ TickStores \/ TickWakes
WorkerStep  == WorkerConnects \/ ResultArrives \/ SocketCloses \/ ResultSettles
               \/ CloseSettles
CoordStep   == HttpCloses \/ StartupDrained \/ WorkDrained \/ DatabaseCloses
               \/ MongodStops \/ Deadline

Next ==
    /\ coord.phase # "exited"
    /\ \/ Sigterm \/ SetPaused \/ IdleTimeout
       \/ StartupStep \/ Failure \/ QueueStep \/ RequestStep \/ TickStep
       \/ WorkerStep \/ CoordStep

Spec == Init /\ [][Next]_vars

(***************************************************************************)
(* What goes on by itself: the startup, the loop and its timer, the storing*)
(* of a tick, and the deadline.  Signals, clients, runners, failures and   *)
(* the ends of the other drains are not assumed to happen.                 *)
(***************************************************************************)
Alive(A) == coord.phase # "exited" /\ A
FairSpec ==
    /\ Spec
    /\ WF_vars(Alive(StartupStep)) /\ WF_vars(Alive(QueueStep))
    /\ WF_vars(Alive(IdleTimeout)) /\ WF_vars(Alive(Deadline))
-----------------------------------------------------------------------------
(***************************************************************************)
(* Properties.                                                             *)
(***************************************************************************)
(* Once the barrier of shutdown.js has run, no gate is open and none opens *)
(* again: not by a startup that was awaiting, not by the end of the queue  *)
(* recovery, not by the late callback of listen.                           *)
ClosedGatesStayClosed == coord.phase # "up" => gates = {} /\ ~ticking

(* The database and mongod are closed beneath nobody: when the coordinator *)
(* reaches them the startup has returned, the loop has ended, and no       *)
(* handler, timer or socket event is between two database calls.  A        *)
(* request whose client has gone is no exception.                          *)
AtWork ==
    \/ startup # "done"
    \/ loop.pc \notin {"off", "ended"}
    \/ \E r \in Requests : request[r] \in {"parsing", "handling", "abandoned"}
    \/ job[Tick] = "creating" \/ unwoken # {}
    \/ worker # "absent"
PersistenceOutlivesWork ==
    (coord.phase \in {"database", "mongod"} \/ coord.code = "0") => ~AtWork

(* Exit code 0 is earned: nothing failed in this process, now or before    *)
(* the shutdown, no job is left claimed, and what was opened is closed.    *)
CleanExitIsEarned ==
    coord.code = "0" =>
        /\ faults = 0 /\ ~coord.late
        /\ \A j \in Jobs : job[j] \notin {"creating", "running"}
        /\ database \in {"off", "closed"} /\ mongod = "off"

(* The monitor reports itself ready only while it serves: the loop is      *)
(* alive, mongod is up, the server listens and no shutdown has begun.      *)
ReadyMeansServing ==
    ready = Subsystems => /\ Up /\ Running /\ loop.pc \notin {"off", "ended"}
                          /\ mongod = "up" /\ database = "open"
                          /\ http = "listening"

(* A stored job is noticed: an inline job is claimed, and a transcode is   *)
(* when a runner is free, unless processing is paused or the monitor stops.*)
(* The wakeup of its creator may be lost; the idle timer makes up for it.  *)
Noticed(j) == job[j] # "pending" \/ paused \/ ~Running
EnqueueIsNoticed ==
    /\ \A j \in Jobs \ {Transcode} : job[j] = "pending" ~> Noticed(j)
    /\ (job[Transcode] = "pending" /\ worker = "idle")
           ~> (Noticed(Transcode) \/ worker # "idle")

(* A shutdown ends the process, whatever hangs.                            *)
ShutdownEnds == coord.phase # "up" ~> coord.phase = "exited"
=============================================================================
