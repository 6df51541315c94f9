# Verification of squeezarr

squeezarr watches a directory of videos, probes each file, and transcodes it
with the profiles ("settings") that match, either next to the source
(*adjacent*) or in its place (*overwrite*). One monitor process owns the
database, the queue, the HTTP API and a pool of runners; runners are processes
connected over WebSockets that only execute ffmpeg.

The monitor is a single Node.js process. Its concurrency is the interleaving of
asynchronous functions at their `await`s, plus the runners, the network, the
users and the operating system. That is what these modules model: **one step is
the code between two awaits**, and a critical section that spans several awaits
is a lock. `OutputCommit` is about crashes instead: there **one step is one
database write or one filesystem call**, and the process may die between any two.

## Inventory

| Component | State | Operations | Hard part | Correct when |
|---|---|---|---|---|
| Runner pool (`services/runnerpool/`) | registry of records (id, socket, job, assignment, phase, paused), event chain per socket, acceptance flag | register, result, close, watchdog, assign, relay of cancels, pause, drain | a result, a close, an eviction and a reconnection all end a lease; handlers of different sockets interleave at awaits | one party answers for each running job; every lease ends; the drain ends |
| Lost-work recovery (`runnerpool/recovery.js`) | none of its own | requeueLostWork | races the user's stop and the durable state it read | a stop is never overwritten; the job ends pending or failed |
| Runner process (`runner.js`, `runner/`) | the socket, the task, the retry timer | connect, register, execute, cancel, abort, reconnect, shutdown | a drop loses the result; several causes ask for the next attempt | at most one result per task, none after an abort |
| File lifecycle (`processing.js`) | status, owner, phase, cancelled, probe owner, journals, results | critical section, conditional transitions, release tests, recount, startup recovery | guards are checked before awaits; some writes take no section | one owner; releases only when durable; aggregate status right |
| Jobs (`job.js`) | job documents | create, claim, complete, fail, fail a generation, prune | terminal states must absorb | no job left running that nobody holds |
| Prepare, finalize (`ffmpeg/`) | output paths, journals | claim, validate, filter, promote, replace, reject, fail, recover | stop against commit; errors in the middle; crashes between renames | no commit after a stop; the source is never lost |
| Probe (`probe.js`) | probe owner of the file | claim, ffprobe, enqueue per setting, publish | superseded while ffprobe runs | an old generation leaves no job behind |
| Queue loop (`event.js`, `event/`) | running, waiter, supervised promise | take, dispatch, reset, wait, wakeup, recovery, shutdown | lost wakeups; pause and shutdown in the middle of a pass; a shutdown during the recovery | every pending job is looked at again; a dead loop is not reported ready |
| File API (`controllers/files/mutations.js`) | none of its own | stop, requeue, replace, remove, delete output | runs against everything above | acknowledged means it holds |
| Scanner (`scanner.js`) | none of its own | walk, add documents, enqueue probes, reconcile queued files, prune | patches from a snapshot | never undoes a decision |
| Document store (`database/`) | FIFO per document | add, update, patch, remove | read-modify-write | one update is atomic |
| Settings (`settings.js`) | the settings document, revision, the chain of mutations | save, setProcessing | two writers; a write that outlives its answer | pause survives a save; a stale save is refused |
| Settings page (`hooks/settings.js`, `lib/`) | the document it works on, the gate of each mutation | edit, save, pause, rebase, reconcile | refused, lost, late and truncated answers | no edit is lost by another client or applied twice |
| Monitor startup (`server.js`, `mongo.js`) | the subsystems it has started | start each, serve, fail | a signal or a failure at any of its awaits | no gate opens after the barrier |
| Shutdown (`shutdown.js`, `autoscan.js`) | barrier, tracked requests, deadline, severity | begin, drain, deadline, exit | everything above in flight | nothing accepted after the barrier; database closed last; exit code 0 is earned |
| Dashboard (`frontend/src`) | generations of operations | load, mutate, apply | late answers | superseded answers are dropped |

The file document, the job documents and the registry are the shared state. The
queue loop calls probe, prepare and the pool's `assign`; socket events call
finalize and lost-work recovery; the API calls the file mutations; the pool
wakes the loop. PROJECT.json lists every component with its status and every
hazard with its line.

## Modules

| Module | Models | Lines of the source |
|---|---|---|
| `TaskLease` | what the pool promises about the lease of a job | abstract |
| `RunnerPool` | registry, socket chains, handlers, runners, commands, drain | `runnerpool/*.js`, `runner.js`, `runner/task.js` |
| `RunnerPoolProofs` | theorems about `RunnerPool` | |
| `FileLifecycle` | one file, its jobs, and everything that moves them while the monitor is up | `processing.js`, `probe.js`, `dispatch.js`, `prepare.js`, `finalize.js`, `recovery.js`, `mutations.js`, `job.js` |
| `FileLifecycleProofs` | theorems about `FileLifecycle` | |
| `OutputPromise` | what committing an output promises about a media file | abstract |
| `OutputCommit` | one output on its way to the disk, with crashes, failing filesystem calls and startup recovery | `finalize.js`, `prepare.js`, `processing.js` (99-737), `event/recovery.js` |
| `OutputCommitProofs` | theorems about `OutputCommit`: its types, the user's file at the final name, the original, and that it implements `OutputPromise` | |
| `OutputCommitResting` | theorems about `OutputCommit`: what it leaves in the directory, in the result and with an owner | |
| `MonitorLifecycle` | the process from its startup to its exit: queue loop, requests, autoscan, mongod, shutdown | `server.js`, `shutdown.js`, `event.js`, `event/waiter.js`, `event/dispatch.js`, `autoscan.js`, `mongo.js`, `readiness.js`, the shutdown of `runnerpool/server.js` |
| `MonitorLifecycleProofs` | theorems about `MonitorLifecycle` | |
| `RunnerClient` | the runner's connection and the one task it drives | `runner.js`, `runner/task.js` |
| `RunnerClientProofs` | theorems about `RunnerClient` | |
| `SettingsRevision` | the settings document and the dashboards that edit it | `settings.js`, `controllers/settings.js`, `frontend/src/hooks/settings.js`, `lib/settings.js`, `lib/mutation/` |
| `SettingsRevisionProofs` | theorems about `SettingsRevision` | |
| `ScanReconcile` | the library scan against transcodes, lost runners and the user | `scanner.js`, `job.js` (190-225), `mutations.js`, parts of `probe.js`, `prepare.js` and `finalize.js` |
| `ScanReconcileProofs` | theorems about `ScanReconcile` | |
| `MC...` | instances for TLC, one for each of the above that has a run | |

The modules meet where the code does. `RunnerPool` and `RunnerClient` are the two
ends of one protocol: the pool assumes that an assignment is answered on its own
connection or aborted with it, which is what `WorkBelongsToConnection` says of the
runner. `RunnerPool` takes the durable ends of a lease from `FileLifecycle`, and
`FileLifecycle` takes from `LeaseResolves` that a runner reports or is lost.
`FileLifecycle` has a file while the monitor is up, `OutputCommit` its output
across crashes. `MonitorLifecycle` has the loop, the pool and the requests as
parties that may still be writing, and nothing of what they write.

### RunnerPool

`registry` maps a runner id to the socket of its record and `record` holds what
`register()` built for that socket; `chain` is the promise chain of
`serializeSocketEvent`; `work` is what a handler holds while it is suspended: a
claimed result (`settle`), a lost lease it recovers before it registers
(`rejoin`) or after a close (`leave`). `task` and `live` are the runner's side:
the assignment it executes and the socket it believes in. A runner that drops
its connection aborts its task and reports nothing (`abortCurrent`); a result
sent while the monitor is closing is lost.

`onRegister` is three actions: no stale record, a stale record without a lease
to claim, and a stale record whose lease it claims before it awaits. `assign` is
one step because the choice of the runner, `markBusy` and the send contain no
await. `relayCancellations` is two steps around its read of the file.
`FinishResult` and `RequeueLostWork` stand for `finalizeTranscode` and
`requeueLostWork`; their durable outcomes are modelled in `FileLifecycle`.
Heartbeats appear as the watchdog's freedom to evict any registered socket.

### FileLifecycle

`file` is the document (status, owner = `activeJobId`, phase = `activePhase`,
`cancelled`, probe owner, one journal for the adjacent or overwrite journal,
result per setting); `job` the status of each job; a job is a pair of a probe
generation and a setting (or `Probe`). Settings are abstract; `Overwrites` says
which replace the source. `gen` counts requeues.

`lock` is the file's critical section. A section of one update needs it free; a
section that reads and then writes (stop, requeue, recount) holds it. Writes the
code makes outside the section (`upsertTranscodeResult`, plain patches, all job
updates) do not look at it.

The actors are the queue loop (`loop`: which function it is inside of), per
transcode job the execution and what follows it (`task`: result handler or
recovery), and the user (`stop`, `requeue`, and one-step `Replace` and
`Remove`). The action names follow the steps of the functions, in the order of
the source. An action that stands for filesystem work may fail.

`overtaken` is a history variable, which no action reads: the jobs that a replace by
the user met half way (`MetHalfWay`). `replace` needs a file that nobody owns and that
is not processing; it does not wait for the job that the loop is about to claim or to
reset, nor for those a stop has yet to fail.

Abstracted: paths (every preparation has fresh ones, so the tests that compare
them hold; a collision is a choice), ffmpeg and the filters (choices), settings
that disappear (a choice at each place that looks them up), messages and times.
Where two reads under one lock commute with everything others can do they are
one step. The database rejects a write only where the code has a rollback for
it: prepare's job patch and requeue's creation of the probe job.

Not in this module: restarts (`OutputCommit`), the scanner (`ScanReconcile`),
`deleteOutput`, pausing, and the shutdown paths of dispatch (`MonitorLifecycle`).
Branches that need
a restart to be reached (a job that finds its own journal on the file it
prepares; rolling forward inside `recoverFinalizationError`) are therefore
absent.

### OutputCommit

`file` is the document of one file with one profile, `job` its attempts, `disk`
the directory: what the source and the final name hold, and which attempts have
a scratch and a backup. A scratch shares its inode with the final name while
both hold the output of one attempt, which is what `sameFileIdentity` compares.
`pc` is the next step of the procedure that runs and `ctx` its local variables;
both are lost in a crash, the rest survives. `life` is `up`, `down` or `boot`.

The steps carry the names of what they do (`Promote`, `LinkFinal`,
`JournalCommitted`, ...) in the order of `finishAdjacentOutput`,
`finishOverwriteSuccess`, `finishRejected`, `finishStopped`, `finishFailure` and
`recoverFinalizationError`. At startup `Boot` starts the journal that survived
and the roll-forward steps are those of finalization, because
`rollForwardAdjacent` and `rollForwardOverwrite` make the same writes in the
same order; where they differ (an unlink that throws, a gate that is asked only
of an owner that is left) the action says so with `life`. `recoverStuckFiles`
and `recoverInterruptedJobs` follow, then `Ready`.

`Call` is a filesystem call that takes effect or throws, `TryUnlink` one whose
failure the procedure only remembers. A user may take the final name after the
collision check and may stop the file: an owned one at any step before the
commit point, a queued one between two procedures.

Left out: what the other actors do in the middle of a procedure (that is
`FileLifecycle`), lost runners and the retired paths they leave, a database
write that fails, requeue and replace, and probe owners. The journal phase
`replacing` of an overwrite is called `promoting`, as for an adjacent output.
Since no database write fails, nothing throws after a journal says `committed`,
and the roll-forward inside `recoverFinalizationError` is not reached.

`OutputPromise` has the outcome (open, published, refused), decided once, and
whether the original still exists, which only a published output may end.
`PromiseSpec` maps the outcome to the recorded result or, before that, to a
journal whose phase is past the commit point.

### MonitorLifecycle

`startup` is the await `server.js` is at, `started` the subsystems it has
recorded for the shutdown. `gates` are the flags each subsystem tests before it
accepts work: the tracker's `accepting`, the queue's `running`, autoscan's and the
pool's `stopped`, the local runner. `loop` is the await the queue loop is at with
the batch it has read and the job in its hand; `job` and `unwoken` separate the
storing of a job from the wakeup that follows it. `request` and `tracked` are a
request and what the tracker holds of it, `worker` one runner connection with its
event chain, `coord` the coordinator.

The barrier is one step because `shutdown.js` closes all gates in one synchronous
block. Every step that comes back from an await decides by what it finds then:
`Proceed` in the startup, `Running` in the loop, the test after the claim
(`StartHandler`, `ReleaseClaim`). `WorkDrained` is the parallel drain;
`DatabaseCloses` and `MongodStops` follow in order, and `Deadline` ends the process
from any phase. One failure may happen anywhere: a database call that throws, a
subsystem that does not start, an exit of mongod, a port that is taken. Once
mongod is gone, every later call fails at no cost.

Abstracted: the jobs are a request's, the startup scan, one autoscan tick and one
transcode; what handlers do is `HandlerEnded`. Left out are the readiness
`processing` (a connected runner, so `ReadyMeansServing` is claimed without it), a
change of the scan interval, which arms the same timer again, and the kill of a
mongod that does not stop, which ends in the same state.

### RunnerClient

`ws`, `deadline`, `timer` and `outage` are the variables of `runner.js`; `sock` is
the state of each WebSocket object, so a listener of a socket that is no longer
current is a step of its own. `current` is the task of `runner/task.js` and `proc`
the ffmpeg process of each assignment, which may outlive the task. The monitor is
the environment: `mail`, `answer` and `lease` are what is on its way to the runner,
back, and what the monitor believes. Whether the runner is the monitor's own, has
the right token, and whether its address contains the digits 401 (see below) are
chosen in the initial state. Left out: progress messages, metrics, and the length of
the backoff, which decides when an attempt happens and not whether.

### SettingsRevision

The stored document is the number of times each edit was applied, which tells a
lost edit from a repeated one; its revision is a digest of its content and
therefore that content itself. `queue` and `serving` are the chain of
`serializeMutation`. A client is a mounted settings page: `latest` and `shown` are
what it works on and shows, `op` the operation it awaits, `blocked` its gates.
`Unknown` is an answer that is lost, truncated or late; the request is then carried
out or not, at any later time (`Forsake` only drops its client). A profile edit is a
function that is evaluated again after a refusal (`Rebase`); the form is a document
and is not. While the pause is being set the fields of the form stay open
(`EditField`). A save clicked meanwhile waits in `queueRef` and is dispatched when its
turn comes; that it carries the document of the click, which may lack fields changed
since, is left out. A pause that the monitor plainly refused is no longer in
doubt (`refused`), so a failed read takes back what the page shows and closes no gate.
Left out: validation, the merge of the built-in profiles, the scan button
and the initial load.

### ScanReconcile

`disk` says what is at each path, `doc` and `job` are the documents, and `scan` the
position of the scan with the snapshots it holds. One step is one database or
filesystem call of the scan. The loop runs a scan inline, so probes and claims
happen only between scans; ends of transcodes, lost runners and the user's
requests fall anywhere.

Abstracted: a file has one transcode setting, and its output path is a function of
it; a probe and a prepare are one step, since no scan overlaps them; `ignored` also
stands for a failed probe, which the user may requeue in the same way; scratch and
backup files are named by the same fields of the document as the output, and are
not paths of their own; `removeStrays` is part of the step that reads the
documents; which finished jobs are the newest is left open. `deleteOutput` and
`replace` are left out. `EnqueueProbe` does not look at the file again, and
`Ignore` patches whatever it finds, as in the code.

## Runs

All runs are exhaustive. The runs of the settings check for deadlock, since a
dashboard can always go on; the others say `CHECK_DEADLOCK FALSE`, because the
system may stop when all jobs are settled, all sockets are used or the process has
ended.

| Run | States | Shows |
|---|---|---|
| `pool` (`RunnerPool.cfg`) | 637 620 | `TypeOK`, `ExclusiveLease`, `CancelTargetsStopped`, and that the pool implements `TaskLease` |
| `pool_live` (`RunnerPoolLive.cfg`) | 221 380 | every lease ends, the drain completes |
| `file` (`FileLifecycle.cfg`) | 2 009 793 | the safety properties of a file while the monitor is up |
| `file_live` (`FileLifecycleLive.cfg`) | 15 729 | owners let go, jobs settle |
| `commit` (`OutputCommit.cfg`) | 101 181 | crash safety of the output, the startup recovery, and that both implement `OutputPromise` |
| `commit_stop` (`OutputCommitStop.cfg`) | | counterexample: a restart queues a stopped file |
| `monitor` (`MonitorLifecycle.cfg`) | 718 810 | gates, drains, exit code and readiness; a stored job is noticed, a shutdown ends |
| `runner` (`RunnerClient.cfg`) | 13 455 | one connection, one task, every cancel answered, no attempt the last |
| `settings` (`SettingsRevision.cfg`) | 8 347 432 | no edit lost to another client or applied twice |
| `settings_conflict` (`SettingsRevisionConflict.cfg`) | | counterexample: a refused save of the form stays refused |
| `scan` (`ScanReconcile.cfg`) | 5 034 124 | outputs do not become sources, pruning spares the evidence of files |
| `scan_sources` (`ScanReconcileSources.cfg`) | | counterexample: an output that does |

**Bounds of the pool.** One runner id with three connections: a stale one, the
one that replaces it, and a third that overtakes the replacement, which is the
smallest number at which two handlers for one id overlap. Two jobs and two
assignments: a lease and the one that follows it, for the same job or another.
Records of different ids do not touch each other except through the jobs, so a
second id adds no case. The liveness run has two connections and no symmetry.

**Bounds of the file.** Two settings, one of each output mode, because what two
jobs of a file do to each other matters and the modes commit differently; two
generations, because every fence compares a generation with the next; one lost
runner, because recovery returns the file to a state it was in before. The
liveness run has one generation.

**Bounds of the output.** Two attempts: one that is interrupted and the next,
which meets what the first left behind. Three crashes: in finalization, in the
startup that follows, and in the startup after that one. Two failing filesystem
calls: one that starts a roll-back and one in the roll-back. The mode is chosen
in the initial state.

**Bounds of the monitor.** One request, the startup scan, one tick, one transcode
and one runner connection: one of each party the drains wait for. One failure,
anywhere; a second could only follow a shutdown that the first has begun, or hit the
drain, and mongod's exit already makes every later call fail.

**Bounds of the runner.** Two socket objects, reused once they are closed, so that
the number of connections is not bounded; the current socket and a former one are
the most that can exist. Three tasks: one whose process outlives it, the next, and
one assigned after a cancel.

**Bounds of the settings.** Two dashboards with two edits, a queue of two and one
failing mutation: a save of one client, the write of the other between its read and
its turn, and a forsaken request still in the chain. Toggles of the pause are not
bounded.

**Bounds of the scan.** One video and so two paths, four jobs, two scans, one lost
runner, and one finished job that pruning keeps. Files meet only through the paths
of their outputs and through the pruning, which has finished jobs of one file to
choose from. Three jobs already give the counterexample of `scan_sources`; the
fourth lets a file be probed and transcoded again after it.

**Fairness.** The event loop of Node.js runs every handler it has queued (weak
fairness of the handlers and of the queue loop). The watchdog's interval timer
fires, so a silent registered record is evicted, and `ws` delivers the close
event of a socket that is terminated. ffmpeg ends. In `FileLifecycle` a runner
reports or is lost, which is what `LeaseResolves` says of the pool; each pass of
the loop visits every pending job, oldest first, and runners become idle again,
so assigning and taking a job that is possible again and again happens (strong
fairness of `Assign` and of `TakeTranscode`: the loop sleeps at most five
seconds between passes). Users are never fair: nobody must stop, requeue or
connect. In `OutputCommit` a procedure that runs goes on, ffmpeg reports, and
the container restarts a monitor that died (`restart: unless-stopped`,
README.md:106 of the repository); users, scans, crashes and faults are not fair. In
`MonitorLifecycle` the startup, the loop, its idle timer and the shutdown deadline go
on (weak fairness of each); signals, clients, runners, failures and the ends of the
other drains are not assumed, because `ShutdownEnds` must hold when they hang. In
`RunnerClient` timers fire, a terminated socket reports its close, what is sent on a
connection that stays open is delivered, and a process ends after SIGKILL; nothing is
assumed of the monitor or of an ffmpeg that is not killed. The other two modules
have no liveness properties.

### Safety properties

* `ExclusiveLease`: a running job has exactly one record or handler that answers for
  it, for its latest assignment; other jobs have none.
* `CancelTargetsStopped`: a relayed cancel is for a stopped job or for none, although
  the record is read after the await that decided to send.
* `RunningJobIsHeld`: no interleaving leaves a running job in nobody's hands, except
  a job that a replace met half way (disagreement 3).
* `StopHolds`: after a stop is acknowledged nothing queues, processes or commits the
  file until the user requeues, removes or replaces it. It allows `failed` over
  `stopped`: `recoverFinalizationError` patches it when the disk cannot be undone.
* `ResultWrittenByCommittingOwner`: the upsert checks nothing, yet only the owner past
  its commit point writes an output result.
* `OnlyCurrentGenerationRuns`, `OldGenerationEnds`: what a requeue supersedes neither
  starts nor survives. What starts is running, unless a replace met it half way.
* `QuiescentStatusDerived`: when nothing is left to do, the status is the aggregate of
  the results. A job skipped because its setting is gone leaves `queued` behind; the
  code leaves that to the scanner (`scanner.js:18-22`), and the property exempts it.

Of `OutputCommit`:

* `OriginalRecoverable`: the original is in its place, or in a backup the
  journal names, or an output whose commit is durable has replaced it. This is
  what the order rename, rename, stat, journal, result, unlink is for.
* `LeftoversNamed`: whatever scratch or backup is on disk is named by the
  document, however many unlinks fail; otherwise a scan takes it for a source.
* `RestingDiskAgrees`: when nothing runs and nobody owns the file, the result
  and the status say what is at the source and at the output's place. A scratch that
  is kept there is the matter of `LeftoversNamed`.
* `NothingHalfOwned`: an owner that is left when nothing runs has something the
  next startup releases it by. It leaves out the stranded owners of
  `OwnerNotStranded`, see the disagreements.
* `ForeignFinalKept`: a file the user put at the final name is never replaced,
  neither by the promotion nor by a roll-back.
* `OnlyOriginalsTranscoded`: no attempt starts on a source that an output has
  replaced.
* `PromiseSpec`: the refinement of `OutputPromise`.

`RestingDiskAgrees` says nothing of a rejected output that was kept beside a
source it did not replace; see disagreement 10.

Of `MonitorLifecycle`:

* `ClosedGatesStayClosed`: after the barrier no gate is open, not even by a startup
  that was awaiting, the end of the queue recovery, or the late callback of `listen`.
* `PersistenceOutlivesWork`: when the database or mongod is closed nobody is
  between two of its calls, including the handler of a request whose client has
  gone and a tick that belongs to nobody.
* `CleanExitIsEarned`: exit code 0 means that nothing failed, no job is left claimed,
  and everything opened is closed.
* `ReadyMeansServing`: what the readiness endpoint reports is true.

Of the other three:

* `WorkBelongsToConnection` (`RunnerClient`): at most one socket; what runs is what
  that socket was assigned; a task the monitor waits for is on its way, in hand or
  answered. The last part is what fails when an assignment meets a busy runner, which
  ignores it.
* `EditAppliedOnce`, `SavesKeepOthers` (`SettingsRevision`): no edit twice, none
  undone by a save of another client, and no save changes the pause.
* `OutputsAreNotSources` (`ScanReconcile`): a file document for an output this program
  made exists only after a second job for the setting has replaced the result that
  names it (`erased`; disagreement 8).
* `EvidenceKept` (`ScanReconcile`): the job that fences an owner or a probe is never
  pruned, although files and jobs are read separately and removed later.

### Liveness properties

`LeaseResolves` and `DrainCompletes` for the pool; `OwnerReleased` and
`JobsSettle` for the file. `OwnerReleased` exempts an owner whose files could
not be undone on disk: the code keeps it, with its journal, for the next
startup. `JobsSettle` exempts the jobs such an owner blocks and the jobs that a
replace drops (disagreement 3). In `OutputCommit`, `OwnerReleased` exempts an
owner that waits for the next startup and the stranded ones.

`EnqueueIsNoticed` says that a stored job is looked at although its wakeup may
fall between the last look at the queue and the sleep, `ShutdownEnds` that a
shutdown ends whatever hangs. `CancelIsAnswered` holds also for an ffmpeg that
ignores SIGTERM. `KeepsTrying` says that an unstopped runner never stays without
both a connection and a timer, that a remote one which cannot connect gives up in
the end and only then, and that a shutdown settles.

`DrainCompletes` ends when the registry is empty: each socket's own close
empties it, so the `registry.clear()` at the end of the shutdown drops nothing
and is no action.

### Disagreements found while modelling

Three have a run, and PROJECT.json quotes the lines they contradict:

* **A restart queues stopped files** (`commit_stop`, `processing.js:707`).
  `recoverStuckFiles` takes a stopped file that nobody owns for crash residue, also
  one whose roll-back in the same startup kept it stopped.
* **A refused form is refused for ever** (`settings_conflict`,
  `hooks/settings.js:118`). A refused save of the form does not load the document
  that came with the refusal, although the page says so; until it is loaded anew,
  every further save carries the old revision.
* **An output becomes a source** (`scan_sources`, `mutations.js:114`). `remove` leaves
  the pending jobs of a queued file. When the file comes back, two jobs follow for
  one setting, and the failure of the second replaces the result that names the
  output of the first.

The others are stated in the modules and refuted by TLC when the property is added
to the named configuration:

1. **A failed job becomes owner** (`prepare.js:233`; `OnlyRunningJobBecomesOwner`,
   `FileLifecycle.cfg`). The claim does not look at its job. Stop and requeue
   between prepare's read and claim leave the new generation's file `processing`
   under a failed owner, until a restart.
2. **A recount takes the pending status from a fresh probe** (`dispatch.js:358`;
   `RecountSparesNewProbe`, `FileLifecycle.cfg`). The recount of dispatch's error
   chain may run after a requeue of the file it failed.
3. **A deferred claim drops its job** (`dispatch.js:49`; `RunningJobIsHeld` without
   its last disjunct, `FileLifecycle.cfg`). After a replace between read and claim the
   job stays `running`, held by nobody. In the middle of a stop, a replace likewise
   lets a claim take a job that the stop is still to fail.
4. **A kept journal is overwritten** (`prepare.js:249`; `RetainedJournalStays`,
   `FileLifecycle.cfg`). The claim of the next job replaces a journal whose cleanup
   had failed.
5. **A newer record is replaced** (`inbound.js:65`; `LeaseRecoverable`,
   `RunnerPool.cfg`). `onRegister` registers after an await without another look.
6. **An owner nobody can release** (`processing.js:415`; `OwnerNotStranded`,
   `OutputCommit.cfg`). A roll-back writes `queued` and releases the owner in two
   steps; a crash between them leaves an owner that `recoverStuckFiles` does not look
   at. A failed `stat` in `rollForwardAdjacent` at startup leads to another: the job
   is failed by `recoverInterruptedJobs`, and the release gate wants it done.
7. **An address is taken for a refusal** (`runner.js:196`; `LocalRunnerKeepsTrying`,
   `RunnerClient.cfg`). Any error whose text contains `401` counts as a rejected
   token, and the text of a network error contains the address: with a port such as
   4010 the monitor's own runner does not try again, although `runner.js:13-14` and
   74-75 say it retries forever.
8. **Two more ways to the same output** (`scanner.js:29`, 51; `OutputsNeverSources`).
   The reconcile pass reads pending jobs before running ones and misses a job that a
   lost runner returns in between; and it enqueues for a file that was stopped and
   requeued since its snapshot. Both give a file two jobs for one setting.
9. **A reconciled save may still be carried out** (`gate.js:1-3`;
   `ReconciledIsFinal`, `SettingsRevision.cfg`). The read that unblocks a client after
   an unconfirmed save can overtake that save.
10. **A restart deletes a kept output** (`finalize.js:278`, `processing.js:658`;
   `RejectedOutputKept`, `OutputCommit.cfg`). An output an overwrite rejects is kept
   unless the profile says otherwise (`strings.js:338`), but until the owner is
   released `currentOutputPath` names it. A crash in the last steps of the rejection
   makes the next startup remove it as residue, or roll its journal back; the result
   goes on naming it.

## Proofs

`RunnerPoolProofs` proves, for any sets of runners, sockets and jobs and any
number of assignments:

* `TypeCorrect`: `Spec => []TypeOK`
* `LeaseExclusive`: `Spec => []ExclusiveLease`
* `CancelsOnlyStopped`: `Spec => CancelTargetsStopped`
* `PoolImplementsLease`: `Spec => LeaseSpec`

The assumption is `PoolAssumption` of `RunnerPool`: the bound is a natural
number and the three sentinels are not in the sets they complement.

`TypeOK /\ ExclusiveLease` is not inductive. In an arbitrary such state a socket
could still have a register event waiting while its record holds a lease;
handling the event would build an idle record and forget the lease. The
strengthening is `Wired`: a socket registers at most once, that event is the
first in its chain, and until it is handled no record of the socket exists.
`Wired` is proved inductive together with `TypeOK` (`StepType`, `StepWired`),
then `ExclusiveLease` (`StepExclusive`, one step per action; the cases are
grouped by what happens to a lease: untouched, claimed, ended). `RelayTarget`
says that the record `relayCancellations` waits for keeps its stopped job or
loses it, because the loop assigns nothing while it waits; `CancelsOnlyStopped`
follows from it. The refinement maps each job to a lease state from its status
and the suspended handlers; `StepRefines` has one case per action, and each is a
move of `TaskLease` or leaves the mapping alone.

`FileLifecycleProofs` proves, for any sets of settings and any number of
generations and lost runners:

* `TypeCorrect`: `Spec => []TypeOK`
* `StopsHold`: `Spec => StopHolds`
* `ResultsByOwner`: `Spec => ResultWrittenByCommittingOwner`
* `StatusIsDerived`: `Spec => []QuiescentStatusDerived`
* `OldGenerationsEnd`: `Spec => []OldGenerationEnds`
* `RunningJobsAreHeld`: `Spec => []RunningJobIsHeld`
* `HandedJobsAreCurrent`: `Spec => OnlyCurrentGenerationRuns`

The assumption is `LifecycleAssumption` of `FileLifecycle`: the bounds are natural
numbers and the values for "no job" and the probe are not settings. All are about
every behaviour, with the user's replace. The last two except by name the jobs a
replace met half way (`overtaken`; disagreement 3): such a job may be dropped while it
runs, or be handed out while a stop fails it, and every other job of the file is
covered although the replace took place.

No property of a file under three kinds of procedures that suspend at awaits is
inductive. `LifecycleInv` says what each procedure knows wherever it is suspended:

* `LoopKnown`, `LockKnown`, `LoopsJob`, `LaterJobs`, `ProbesFirst`: which job the loop
  holds at which step, who holds the critical section, and that a generation has no
  transcodes before its probe has run.
* `OwnerKnown`: each position of the loop or a task at which the code relies on being the
  owner, and the phase there; `HandedOver`, that a job is with the loop or with a task.
  A second owner is excluded by these alone, since the owner is one field.
* `NoReturn`: from the commit on the file is not stopped. With `OwnerKnown` it gives
  `ResultsByOwner`, and `StopsHold` needs it for the steps that write after the commit.
* `ProbeKnown`, `Probed`, `CurrentKnown`, `OldKnown`: what a requeue leaves behind. A
  task that still owns the file is of the latest generation, because a requeue needs an
  unowned file; an outstanding job of an older one is about to be fenced by its probe.
* `JournalKnown`, `CancelKnown`: whose journal the file has at each step and in which
  phase. `EraseAlone` is the one place where the code writes without looking: an
  overwrite erases its journal after it has released the file. Nothing can have claimed
  it in between, since its status is `replaced` and it is no longer queued.
* `ResultKnown`, `StatusKnown`: when a setting has no result yet, so that a recorded one
  is new; and that the status shows the results wherever the file is unowned and the loop
  is not about to recount (`StatusIsDerived`).

`HandedInv` adds `RunningKnown` (a task past its end does not run, a reset that finds no
owner fails its job) and `DoomedKnown` (a job that a stop is about to fail is not the
owner and cannot become it: the file is stopped, missing, or owned by a job that nobody
works for), each for the jobs that no replace met half way. What a replace does to the
file they speak of, it does only to a job that it records (`ClaimMoves`, `ResetMoves`,
`QuenchedMoves`), and a job stays recorded (`OvertakenGrows`). Each part has a lemma
with one case per action; what an action does to one variable is said once (`JobMoves`,
`LoopMoves`, `TaskMoves`, `OwnerMoves` and their kin), and most cases follow from that.

`OutputCommitProofs` and, on top of it, `OutputCommitResting` prove, for any set of
attempts and any number of crashes and failing filesystem calls:

* `TypeCorrect`: `Spec => []TypeOK`
* `UsersFinalFileKept`: `Spec => ForeignFinalKept`
* `OriginalNeverLost`: `Spec => []OriginalRecoverable`
* `NoTranscodeOfAnOutput`: `Spec => OnlyOriginalsTranscoded`
* `CommitKeepsPromise`: `Spec => PromiseSpec`
* `LeftoversAreNamed`: `Spec => []LeftoversNamed`
* `RestingAgrees`: `Spec => []RestingDiskAgrees`
* `NoneHalfOwned`: `Spec => []NothingHalfOwned`

The assumption is `CommitAssumption` of `OutputCommit`: the bounds are natural
numbers, and no attempt is one of the values that say what else a name holds
("none", "original", "other") or the null `NoJob`.

The types alone are not inductive: a journal that names no attempt could be
moved on to `promoting`. `Typed` adds where the procedure works for an attempt
and where the journal is that attempt's (`Placed`). `UsersFinalFileKept` then
needs only that three actions touch the final name (`OnlyLinkTouchesFinal`).

`OriginalRecoverable` is far from inductive: nothing in it says that the
procedure is about to rename, or that a second attempt is about to write its own
journal over the one that names the backup. `Safe` says it in four parts.
`JournalAt` ties each position of the procedure to the phase of the journal,
`SourceAt` ties positions and phases to what the source and the backups hold,
`ResultAt` says which results are recorded by then, and `OneActive` that no job
but the procedure's is active, so that no second claim comes in between. The
parts need each other: a claim finds no journal by `OneActive`, `OneActive` holds
after a recount by `ResultAt`, and a recorded replacement implies a replaced
source by `SourceAt`. Each part has a lemma with one case per action
(`JournalAtKept`, `SourceAtKept`, `ResultAtKept`, `OneActiveKept`); the writes of
the journal are described once (`PromoteWrites` and its kin).
`NoTranscodeOfAnOutput` follows from the same invariant: only prepare makes an
owner, and there the file has neither journal nor result, hence its original.

The refinement needs to know, beyond `Safe`, that a decision is not revised. A
committed journal admits one result only, and none is recorded before it
(`OutcomeAt`); a path that names a backup belongs to a journal or to a published
output, so that a startup which removes it discards nothing else (`BackupAt`);
and `releaseTerminalOwner` finds its gate open when an adjacent output is
released while the monitor is up (`GateAt`). The last one matters because a
refusal there is an error, and the error path would roll the published output
back. `OutcomeDecidedOnce` and `OriginalDiscardedLast` have one case per action,
`StepPromised` combines them into a step of the promise.

The last three theorems are about what remains when a procedure is over, so they
have to account for every way in which one can be over: its end, a call that fails
at any of its steps, a stop, a crash in it or in the startup that repairs it. `Kept`
adds five parts to `Decided`:

* `FinalAt`: an output at the final name has a recorded result or a journal that was
  about to link it, and where an undo is past, it is gone.
* `LeftAt`: at which positions a scratch or a backup may be left, and what names it
  there. A cleanup that failed (`ctx.cleaned`) decides which name is kept, so the part
  says at each position what a successful cleanup has already removed.
* `StatusAt`: a status that shows a publication has that result; without a journal
  the converse holds too, unless a startup has failed the job of an output it could not
  stat (`HalfDone`). After the commit point there is no stop any more.
* `OwnerAt`: whose the file is at each position, what its job has come to, and that
  nobody but the procedure's attempt owns it while the monitor is up.
* `ResidueAt`: what an owner without a journal has come to, which is all that a
  startup has to go by: it failed (`Failing`) or finished (`Finished`), which the two
  releases of job.js recognise, or is `Lost`, which neither does; that is where
  `Stranded` comes from.

`NoneHalfOwned` follows since each release that is refused leaves a `Lost` owner or one
with its path, and since a procedure that goes idle has ended its job.

`MonitorLifecycleProofs` proves, for any set of requests and any number of
failures:

* `TypeCorrect`: `Spec => []TypeOK`
* `GatesStayClosed`: `Spec => []ClosedGatesStayClosed`
* `PersistenceIsLast`: `Spec => []PersistenceOutlivesWork`
* `ReadyServes`: `Spec => []ReadyMeansServing`
* `CleanExit`: `Spec => []CleanExitIsEarned`

The assumption is `MonitorAssumption`: the bound is a natural number and the jobs
are different. The invariant is `Supervised`. None of the four properties says who
may still write, and a proof that the database is closed last has to know: so
`WritersKnown` ties each job in the hands of somebody to the position of the loop,
the request, the tick or the socket that holds it, `PhasesInOrder` says what each
phase of the coordinator has already waited for and that none of it begins again
behind the closed gates, `ServerKnown` and `ReadyKnown` tie the HTTP server and the
readiness to the startup, `ResourcesKnown` what is open to what the startup has
recorded, and `FaultsKnown` and `ExitKnown` every failure to the severity or the
errors that make the exit code 1. Each has a lemma with one case per action.

`RunnerClientProofs` proves, for any sets of sockets and tasks:

* `TypeCorrect`: `Spec => []TypeOK`
* `WorkFollowsConnection`: `Spec => []WorkBelongsToConnection`

The assumption is `RunnerAssumption`: the two nulls are in neither set.
`OneConnection` adds what holds of a socket that is not open and of a runner that is
stopped, and `OnePlace` that an assignment is in one place only: at most one message
carries it, and while it is on its way nothing is in hand and nothing is answered.
Without the latter a second copy could arrive at a busy runner and be forgotten.

`SettingsRevisionProofs` proves, for any sets of clients and edits, any length of
the queue and any number of failures:

* `TypeCorrect`: `Spec => []TypeOK`
* `NoEditTwice`: `Spec => []EditAppliedOnce`
* `OthersKept`: `Spec => SavesKeepOthers`

The assumption is `SettingsAssumption`. `OneTurn` says that the mutation in progress
has read the document as it still is, which is what makes the revision test
mean something; with `AppliedOnce` (every document that is held anywhere contains an
edit at most once, and what a save carries is not less than its revision)
`OthersKept` follows. `NoEditTwice` has to exclude that a refused edit was stored
after all: `LiveOnce` says that a client has one mutation whose answer it still
awaits, and `Elsewhere` that, until that is answered with a success or given up,
the edit is in no document and in no other request. So a rebase adds it to a
document without it.

`ScanReconcileProofs` proves, for any library and any number of jobs, scans, lost
runners and finished jobs to keep:

* `EvidenceStays`: `Spec => []EvidenceKept`
* `NoOutputBecomesSource`: `Spec => []OutputsAreNotSources`

The assumptions are `ScanAssumption` (the bounds are natural numbers, the null is no
job) and `DocAssumption` (a missing document is no document). `Reconciled` has two
halves. `Guarded` is what keeps the pruning right: an owner is a transcode and a probe
a probe of the file itself, neither unused nor pruned (`EvidenceKnown`); after the
read of the files every owner is in it, and every probe that is not is still pending
(`ReadKnown`), because no claim falls in a scan, and a probe that is published in the
meantime is a new job that only the queue loop could end; and what is to be removed
has ended and is nobody's evidence (`ExcessKnown`), for either order of the two reads.
`Discovered` is about the paths: the output that a document names has no document, is
not left to be discovered and is not the one about to be added (`ExcludedKnown`), a
path about to be added still has no document (`AddedKnown`), what the user is about to
reset or drop has no owner and no standing output (`UserKnown`), and an output that
stands is named by its source (`StandingKnown`); an owner is past its commit point
then. The second half needs that a claim happens between two scans only, and that it
refuses an output path which has a document. `JobStep`, `EvidenceStep` and the other
step relations say once what any action does to one job or document; the two halves
are derived from them and not from the actions.

Only model-checked: liveness (temporal reasoning with fairness and `ENABLED` is
beyond this prover). The prover also has no induction over data, and `RECURSIVE`
operators are avoided in modules that are proved about.

## Not modelled

* Filters and name patterns (`filters.js`, `pattern.js`): pure functions of a file
  and a profile, with a worker whose deadline is one timer. Their verdict is a choice.
* Authentication and sessions: a test at the start of a request on an in-memory map
  with an expiry; nothing else depends on it.
* Dashboard fences and views: a generation counter compared after each await. What
  they protect is what is shown, except for the settings, which are modelled.
* Runner metrics, progress and logging: no decision reads them.
* The interior of ffmpeg, ffprobe, MongoDB, `ws` and `express`: external, modelled by
  the outcomes the code distinguishes.

## Plan

Done: the lease protocol, the file lifecycle, the commit with its crashes, the
process lifecycle, the runner, the settings and the scan. What is left, in order:

1. `FileLifecycle`: an abstract per-file specification (unowned, owned, committed,
   settled) and the refinement, from `LifecycleInv`.
2. To the models: the retired paths of lost runners and the probe owners at startup
   in `OutputCommit`; more than one setting per file in `ScanReconcile`.
