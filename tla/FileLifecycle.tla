--------------------------- MODULE FileLifecycle ---------------------------
(***************************************************************************)
(* The lifecycle of one media file: its document, the jobs of its probe    *)
(* generations, and everyone who moves them: the queue loop (probe and     *)
(* dispatch), the handler that finalizes a runner's result, the recovery   *)
(* of a lost runner, and the user's stop, requeue, replace and remove.     *)
(*                                                                         *)
(* One step is the code between two awaits.  Code in the file's critical   *)
(* section (withFileLifecycleCriticalSection) needs lock = "free"; a       *)
(* section of several steps holds the lock.  Plain patches, upserts and    *)
(* job updates take no lock, as in the source.                             *)
(***************************************************************************)
EXTENDS Naturals

CONSTANTS Settings,      \* transcode profiles
          Overwrites,    \* those whose output replaces the source
          MaxGens,       \* bound: probe generations (requeues + 1)
          MaxLosses,     \* bound: runners lost in a behaviour
          Probe, NoJob, NoSetting

ASSUME LifecycleAssumption ==
    /\ Overwrites \subseteq Settings
    /\ MaxGens \in Nat \ {0}
    /\ MaxLosses \in Nat
    /\ Probe \notin Settings
    /\ NoSetting \notin Settings
    /\ NoJob \notin (1..MaxGens) \X (Settings \union {Probe})

VARIABLES
    file,     \* the file document
    job,      \* job -> its durable status
    gen,      \* the latest probe generation
    lock,     \* who is in a section of several steps
    loop,     \* the queue loop, one job at a time
    task,     \* transcode job -> where its execution or settlement is
    losses,   \* runners lost so far
    stop,     \* the user's stop in progress
    requeue,  \* the user's requeue in progress
    overtaken \* history: jobs that a replace by the user met half way

vars == <<file, job, gen, lock, loop, task, losses, stop, requeue, overtaken>>

Gens       == 1..MaxGens
Transcodes == Gens \X Settings
ProbeJob(g) == <<g, Probe>>
Jobs       == Transcodes \union {ProbeJob(g) : g \in Gens}
Gen(j)     == j[1]
Setting(j) == j[2]

Statuses == {"pending", "queued", "processing", "transcoded", "replaced",
             "failed", "rejected", "stopped", "ignored", "missing"}
Stoppable   == {"pending", "queued", "processing"}
Requeueable == {"failed", "transcoded", "rejected", "replaced", "ignored", "stopped"}
Outcomes    == {"none", "done", "failed", "rejected", "replaced"}

\* The journal stands for the output paths it names as well.
NoJournal == [job |-> NoJob, phase |-> "none"]
Journals  == {NoJournal} \union
             [job : Transcodes, phase : {"prepared", "promoting", "committed", "cleaned"}]

NoResults == [s \in Settings |-> "none"]

Phases == {"none", "processing", "finalizing", "committing"}

Files == [status : Statuses, owner : Transcodes \union {NoJob}, phase : Phases,
          cancelled : BOOLEAN, probe : 0..MaxGens, journal : Journals,
          results : [Settings -> Outcomes]]

LoopSteps == {"idle", "probe-claim", "probe-media", "probe-nomatch", "probe-check",
              "probe-enqueue", "probe-publish", "probe-fence", "probe-done",
              "read", "collide", "claim", "patch", "rollback", "validate", "assign",
              "reset", "reset-error", "fail", "recount", "aggregate", "complete"}
TaskSteps == {"none", "exec", "finalize", "begin", "validate", "check", "filter", "commit",
              "promote", "link", "committed", "persist", "mark", "complete",
              "recount", "aggregate", "clean", "unlink", "unjournal", "release", "erase",
              "fail-read", "fail-claim", "fail-write", "fail-job", "recover", "unrecovered",
              "stop-check", "stop-clean", "stop-complete", "stop-release", "settle",
              "lost", "retire", "retire-failed", "requeue", "retire-stopped", "lost-job"}
Results == {"none", "ok", "cancelled", "failed", "done", "rejected", "replaced"}

NoTask == [at |-> "none", res |-> "none", kept |-> FALSE, listed |-> FALSE]
LoopIdle == [at |-> "idle", job |-> NoJob, left |-> {}, next |-> NoSetting, listed |-> FALSE]
UserIdle == [at |-> "idle", jobs |-> {}]

TypeOK ==
    /\ file \in Files
    /\ file.owner = NoJob <=> file.phase = "none"   \* activePhase is set with activeJobId
    /\ job \in [Jobs -> {"none", "pending", "running", "done", "failed"}]
    /\ gen \in Gens
    /\ lock \in {"free", "stop", "requeue", "loop", "task"}
    /\ loop \in [at : LoopSteps, job : Jobs \union {NoJob}, left : SUBSET Settings,
                 next : Settings \union {NoSetting}, listed : BOOLEAN]
    /\ task \in [Transcodes -> [at : TaskSteps, res : Results,
                                kept : BOOLEAN, listed : BOOLEAN]]
    /\ losses \in 0..MaxLosses
    /\ stop \in [at : {"idle", "write", "fail"}, jobs : SUBSET Jobs]
    /\ requeue \in [at : {"idle", "fail", "create"}, jobs : SUBSET Jobs]
    /\ overtaken \subseteq Jobs

\* publishProbeJob has published the first generation.
Init ==
    /\ file = [status |-> "pending", owner |-> NoJob, phase |-> "none", cancelled |-> FALSE,
               probe |-> 1, journal |-> NoJournal, results |-> NoResults]
    /\ job = [j \in Jobs |-> IF j = ProbeJob(1) THEN "pending" ELSE "none"]
    /\ gen = 1
    /\ lock = "free"
    /\ loop = LoopIdle
    /\ task = [j \in Transcodes |-> NoTask]
    /\ losses = 0
    /\ stop = UserIdle
    /\ requeue = UserIdle
    /\ overtaken = {}

-----------------------------------------------------------------------------
(***************************************************************************)
(* The document, its status and its jobs.                                  *)
(***************************************************************************)
Stopped(f)   == f.status = "stopped" \/ f.cancelled
Unsettled(f) == f.owner # NoJob \/ f.probe # 0 \/ f.journal # NoJournal

Active(j)    == job[j] \in {"pending", "running"}
ActiveTranscodes == {j \in Transcodes : Active(j)}
Outstanding  == {j \in Jobs : Active(j)}

CompleteIfRunning(j) == job' = [job EXCEPT ![j] = IF @ = "running" THEN "done" ELSE @]
FailIfActive(j) == job' = [job EXCEPT ![j] = IF Active(j) THEN "failed" ELSE @]

ReleasedKeepingPhase(f) == [f EXCEPT !.owner = NoJob, !.cancelled = FALSE]

Released(f) == [f EXCEPT !.owner = NoJob, !.phase = "none", !.cancelled = FALSE]

\* Aggregate status: outstanding work keeps the file queued; a usable output
\* outranks failures, which outrank rejections.
Derive(f, owned, active) ==
    LET have(r) == \E s \in Settings : f.results[s] = r IN
    CASE f.status = "stopped" -> "stopped"
      [] f.status # "stopped" /\ owned -> "processing"
      [] f.status # "stopped" /\ ~owned /\ active -> "queued"
      [] OTHER -> IF have("replaced") THEN "replaced"
                  ELSE IF have("done") THEN "transcoded"
                  ELSE IF have("failed") THEN "failed"
                  ELSE IF have("rejected") THEN "rejected"
                  ELSE "queued"

\* recomputeFileStatus(fileId, {ignoreActiveJobId: ignored}), second half.
Recomputed(f, ignored, active) ==
    IF f.status = "missing" THEN f
    ELSE [f EXCEPT !.status = Derive(f, f.owner \notin {NoJob, ignored}, active)]

OthersActive(ignored) == ActiveTranscodes \ {ignored} # {}

Transitions(j, requireActive) == file.owner = j /\ (requireActive => ~Stopped(file))

-----------------------------------------------------------------------------
(***************************************************************************)
(* The probe handler, run inline by the queue loop.                        *)
(***************************************************************************)
LoopAt(at) == loop.at = at
LoopTo(at) == loop' = [loop EXCEPT !.at = at]
LoopStops  == loop' = LoopIdle

notLoop == <<gen, task, losses, stop, requeue, overtaken>>

TakeProbe(g) ==
    /\ LoopAt("idle")
    /\ job[ProbeJob(g)] = "pending"
    /\ job' = [job EXCEPT ![ProbeJob(g)] = "running"]
    /\ loop' = [LoopIdle EXCEPT !.at = "probe-claim", !.job = ProbeJob(g)]
    /\ UNCHANGED <<file, lock, notLoop>>

\* A probe job with no owner on the file, or the file's own one, may start.
ProbeClaim ==
    /\ LoopAt("probe-claim")
    /\ lock = "free"
    /\ IF file.status = "pending" /\ file.probe \in {0, Gen(loop.job)}
       THEN file' = [file EXCEPT !.probe = Gen(loop.job)] /\ LoopTo("probe-media")
       ELSE LoopTo("probe-done") /\ UNCHANGED file
    /\ UNCHANGED <<job, lock, notLoop>>

OwnsProbe == file.probe = Gen(loop.job)

\* ffprobe succeeded: publish queued, then match the settings.
ProbeQueued ==
    /\ LoopAt("probe-media")
    /\ lock = "free"
    /\ IF OwnsProbe /\ file.status = "pending"
       THEN /\ file' = [file EXCEPT !.status = "queued"]
            /\ \E matching \in SUBSET Settings :
                  loop' = [loop EXCEPT !.at = IF matching = {} THEN "probe-nomatch" ELSE "probe-check",
                                       !.left = matching]
       ELSE LoopTo("probe-done") /\ UNCHANGED file
    /\ UNCHANGED <<job, lock, notLoop>>

ProbeFailed ==
    /\ LoopAt("probe-media")
    /\ lock = "free"
    /\ file' = IF ~OwnsProbe THEN file
               ELSE [file EXCEPT !.probe = 0,
                                 !.status = IF @ = "pending" THEN "failed" ELSE @]
    /\ LoopTo("probe-done")
    /\ UNCHANGED <<job, lock, notLoop>>

ProbeNoMatch ==
    /\ LoopAt("probe-nomatch")
    /\ lock = "free"
    /\ file' = IF ~OwnsProbe THEN file
               ELSE [file EXCEPT !.probe = 0,
                                 !.status = IF @ = "queued" THEN "ignored" ELSE @]
    /\ LoopTo("probe-done")
    /\ UNCHANGED <<job, lock, notLoop>>

\* Per setting: an unlocked look at the owner, then the enqueue.
ProbeCheck ==
    /\ LoopAt("probe-check")
    /\ IF OwnsProbe /\ file.status = "queued"
       THEN \E s \in loop.left :
              loop' = [loop EXCEPT !.at = "probe-enqueue", !.next = s, !.left = @ \ {s}]
       ELSE loop' = [loop EXCEPT !.at = "probe-publish", !.left = {}]
    /\ UNCHANGED <<file, job, lock, notLoop>>

ProbeEnqueue ==
    /\ LoopAt("probe-enqueue")
    /\ job' = [job EXCEPT ![<<Gen(loop.job), loop.next>>] = "pending"]
    /\ loop' = [loop EXCEPT !.at = IF loop.left = {} THEN "probe-publish"
                                   ELSE "probe-check",
                            !.next = NoSetting]
    /\ UNCHANGED <<file, lock, notLoop>>

ProbePublishUnfenced ==
    /\ LoopAt("probe-publish")
    /\ lock = "free"
    /\ file' = IF OwnsProbe THEN [file EXCEPT !.probe = 0] ELSE file
    /\ LoopTo("probe-done")
    /\ UNCHANGED <<job, lock, notLoop>>

ProbePublish ==
    /\ LoopAt("probe-publish")
    /\ lock = "free"
    /\ file' = IF OwnsProbe THEN [file EXCEPT !.probe = 0] ELSE file
    /\ LoopTo(IF OwnsProbe /\ file.status = "queued" THEN "probe-done" ELSE "probe-fence")
    /\ UNCHANGED <<job, lock, notLoop>>

\* failProbeGeneration: only this loop dispatches, so its jobs are pending.
ProbeFence ==
    /\ LoopAt("probe-fence")
    /\ job' = [j \in Jobs |-> IF j \in ActiveTranscodes /\ Gen(j) = Gen(loop.job)
                              THEN "failed" ELSE job[j]]
    /\ LoopTo("probe-done")
    /\ UNCHANGED <<file, lock, notLoop>>

ProbeDone ==
    /\ LoopAt("probe-done")
    /\ CompleteIfRunning(loop.job)
    /\ LoopStops
    /\ UNCHANGED <<file, lock, notLoop>>

-----------------------------------------------------------------------------
(***************************************************************************)
(* Dispatch: claim a pending transcode, prepare it, hand it to a runner.   *)
(***************************************************************************)
\* The file must have no owner; the claim is fenced to pending jobs.
TakeTranscode(j) ==
    /\ LoopAt("idle")
    /\ lock = "free"
    /\ file.owner = NoJob
    /\ job[j] = "pending"
    /\ job' = [job EXCEPT ![j] = "running"]
    /\ loop' = [LoopIdle EXCEPT !.at = "read", !.job = j]
    /\ UNCHANGED <<file, lock, notLoop>>

Unpreparable == {"replaced", "stopped", "missing"}

\* prepareTranscode up to its claim: nothing to run, an output collision, or on.
PrepareRead ==
    /\ LoopAt("read")
    /\ lock = "free"
    /\ IF file.status \in Unpreparable
       THEN LoopTo("complete")
       ELSE \E next \in {"complete", "collide", "claim"} : LoopTo(next)
    /\ UNCHANGED <<file, job, lock, notLoop>>

\* recordPreparationFailure, then prepare throws.
RecordCollision ==
    /\ LoopAt("collide")
    /\ lock = "free"
    /\ file' = IF Stopped(file) \/ file.status = "missing" THEN file
               ELSE [file EXCEPT !.results[Setting(loop.job)] = "failed", !.status = "failed"]
    /\ LoopTo("reset-error")
    /\ UNCHANGED <<job, lock, notLoop>>

Claimed(f, j) ==
    [f EXCEPT !.status = "processing", !.owner = j, !.phase = "processing",
              !.cancelled = FALSE, !.journal = [job |-> j, phase |-> "prepared"]]

\* The claim asks for an unowned file that is not terminal, and nothing else.
ClaimFile ==
    /\ LoopAt("claim")
    /\ lock = "free"
    /\ IF file.owner = NoJob /\ file.status \notin Unpreparable
       THEN file' = Claimed(file, loop.job) /\ LoopTo("patch")
       ELSE LoopTo("reset") /\ UNCHANGED file
    /\ UNCHANGED <<job, lock, notLoop>>

\* The prepared fields reach the job document, or the database rejects them.
PatchJob ==
    /\ LoopAt("patch")
    /\ \E next \in {"validate", "rollback"} : LoopTo(next)
    /\ UNCHANGED <<file, job, lock, notLoop>>

RollBackClaim ==
    /\ LoopAt("rollback")
    /\ lock = "free"
    /\ file' = IF file.owner # loop.job THEN file
               ELSE [Released(file) EXCEPT !.status = IF Stopped(file) THEN "stopped" ELSE "queued",
                                           !.journal = NoJournal]
    /\ LoopTo("reset-error")
    /\ UNCHANGED <<job, lock, notLoop>>

AlwaysPrepared == TRUE

PreparedTaskMatches ==
    /\ job[loop.job] = "running"
    /\ file.status = "processing"
    /\ ~file.cancelled
    /\ file.phase = "processing"
    /\ file.owner = loop.job

ValidatePrepared ==
    /\ LoopAt("validate")
    /\ lock = "free"
    /\ LoopTo(IF PreparedTaskMatches THEN "assign" ELSE "reset")
    /\ UNCHANGED <<file, job, lock, notLoop>>

Assign ==
    /\ LoopAt("assign")
    /\ task' = [task EXCEPT ![loop.job].at = "exec"]
    /\ LoopStops
    /\ UNCHANGED <<file, job, gen, lock, losses, stop, requeue, overtaken>>

NoRunnerLeft ==
    /\ LoopAt("assign")
    /\ LoopTo("reset")
    /\ UNCHANGED <<file, job, lock, notLoop>>

\* resetTranscode: the job decides, and the file follows if it is the owner.
Reset ==
    /\ loop.at \in {"reset", "reset-error"}
    /\ lock = "free"
    /\ LET j == loop.job
           outcome == IF job[j] # "running" THEN job[j]
                      ELSE IF file.status = "missing" \/ Stopped(file) THEN "failed"
                      ELSE IF file.owner = j THEN "pending"
                      ELSE "running" IN
       /\ job' = [job EXCEPT ![j] = outcome]
       /\ file' = IF outcome = job[j] \/ file.owner # j THEN file
                  ELSE [Released(file) EXCEPT !.status = IF Stopped(file) THEN "stopped" ELSE "queued",
                                              !.journal = NoJournal]
    /\ IF LoopAt("reset") THEN LoopStops ELSE LoopTo("fail")
    /\ UNCHANGED <<lock, notLoop>>

FailJobWithoutRecount ==
    /\ LoopAt("fail")
    /\ FailIfActive(loop.job)
    /\ LoopStops
    /\ UNCHANGED <<file, lock, notLoop>>

FailJob ==
    /\ LoopAt("fail")
    /\ FailIfActive(loop.job)
    /\ LoopTo("recount")
    /\ UNCHANGED <<file, lock, notLoop>>

\* recomputeFileStatus(fileId): list the active jobs, then write, in one section.
LoopRecount ==
    /\ LoopAt("recount")
    /\ lock = "free"
    /\ lock' = "loop"
    /\ loop' = [loop EXCEPT !.at = "aggregate", !.listed = OthersActive(NoJob)]
    /\ UNCHANGED <<file, job, notLoop>>

LoopAggregate ==
    /\ LoopAt("aggregate")
    /\ file' = Recomputed(file, NoJob, loop.listed)
    /\ lock' = "free"
    /\ LoopStops
    /\ UNCHANGED <<job, notLoop>>

CompleteSkipped ==
    /\ LoopAt("complete")
    /\ CompleteIfRunning(loop.job)
    /\ LoopStops
    /\ UNCHANGED <<file, lock, notLoop>>

-----------------------------------------------------------------------------
(***************************************************************************)
(* A handed job: its runner reports once or is lost once (RunnerPool).     *)
(***************************************************************************)
TaskAt(j, at) == task[j].at = at
TaskTo(j, at) == task' = [task EXCEPT ![j].at = at]
TaskEnds(j)   == task' = [task EXCEPT ![j] = NoTask]

notTask == <<gen, loop, losses, stop, requeue, overtaken>>

\* A runner reports cancelled only after a cancel was relayed to it.
Report(j) ==
    /\ TaskAt(j, "exec")
    /\ \E res \in {"ok", "failed", "cancelled"} :
          /\ res = "cancelled" => file.owner = j /\ file.cancelled
          /\ task' = [task EXCEPT ![j].at = "finalize", ![j].res = res]
    /\ UNCHANGED <<file, job, lock, notTask>>

LoseRunner(j) ==
    /\ TaskAt(j, "exec")
    /\ losses < MaxLosses
    /\ losses' = losses + 1
    /\ TaskTo(j, "lost")
    /\ UNCHANGED <<file, job, gen, lock, loop, stop, requeue, overtaken>>

-----------------------------------------------------------------------------
(***************************************************************************)
(* finalizeTranscode: the stop, failure and commit paths.                  *)
(***************************************************************************)
Overwrite(j) == Setting(j) \in Overwrites

\* The job must still run and own the file; the setting may be gone by now.
FinalizeRead(j) ==
    /\ TaskAt(j, "finalize")
    /\ IF job[j] # "running" THEN TaskEnds(j)
       ELSE IF file.owner # j THEN TaskTo(j, "settle")
       ELSE \/ TaskTo(j, "fail-read")
            \/ TaskTo(j, IF task[j].res = "cancelled" \/ Stopped(file) THEN "stop-clean"
                         ELSE IF task[j].res = "failed" THEN "fail-read"
                         ELSE "begin")
    /\ UNCHANGED <<file, job, lock, notTask>>

Begin(j) ==
    /\ TaskAt(j, "begin")
    /\ lock = "free"
    /\ IF Transitions(j, TRUE)
       THEN file' = [file EXCEPT !.phase = "finalizing"] /\ TaskTo(j, "validate")
       ELSE TaskTo(j, "stop-check") /\ UNCHANGED file
    /\ UNCHANGED <<job, lock, notTask>>

\* Work on the file system that may throw: validation, filters, link, renames.
Attempt(j, at, next) ==
    /\ TaskAt(j, at)
    /\ TaskTo(j, next) \/ TaskTo(j, "recover")
    /\ UNCHANGED <<file, job, lock, notTask>>

ValidateOutput(j) == Attempt(j, "validate", "check")

\* The unlocked look before the filters.
BeforeFilters(j) ==
    /\ TaskAt(j, "check")
    /\ IF file.owner # j THEN TaskEnds(j)
       ELSE TaskTo(j, IF Stopped(file) THEN "stop-clean" ELSE "filter")
    /\ UNCHANGED <<file, job, lock, notTask>>

RunFilters(j) ==
    /\ TaskAt(j, "filter")
    /\ \/ \E res \in {"rejected", IF Overwrite(j) THEN "replaced" ELSE "done"} :
            task' = [task EXCEPT ![j].at = "commit", ![j].res = res]
       \/ TaskTo(j, "recover")
    /\ UNCHANGED <<file, job, lock, notTask>>

\* The point of no return: stop has won, or is refused from here on.  An
\* overwrite success claims it together with its replacing journal.
CommitUnlessStopped(j, requireActive) ==
    IF Transitions(j, requireActive)
    THEN /\ file' = [file EXCEPT !.phase = "committing",
                                 !.journal.phase = IF task[j].res = "replaced" THEN "promoting" ELSE @]
         /\ \/ task[j].res = "replaced" /\ TaskTo(j, "link")
            \/ task[j].res = "done" /\ TaskTo(j, "promote")
            \/ task[j].res = "rejected" /\ Overwrite(j) /\ TaskTo(j, "persist")
            \* deleteOnReject decides for an adjacent rejection
            \/ /\ task[j].res = "rejected" /\ ~Overwrite(j)
               /\ TaskTo(j, "persist") \/ TaskTo(j, "promote")
    ELSE TaskTo(j, "stop-check") /\ UNCHANGED file

CommitWithoutStopCheck(j) ==
    /\ TaskAt(j, "commit")
    /\ lock = "free"
    /\ CommitUnlessStopped(j, FALSE)
    /\ UNCHANGED <<job, lock, notTask>>

Commit(j) ==
    /\ TaskAt(j, "commit")
    /\ lock = "free"
    /\ CommitUnlessStopped(j, TRUE)
    /\ UNCHANGED <<job, lock, notTask>>

\* finishAdjacentOutput's own claim, with the promoting journal.
Promote(j) ==
    /\ TaskAt(j, "promote")
    /\ lock = "free"
    /\ IF Transitions(j, TRUE)
       THEN file' = [file EXCEPT !.journal.phase = "promoting"] /\ TaskTo(j, "link")
       ELSE TaskTo(j, "stop-check") /\ UNCHANGED file
    /\ UNCHANGED <<job, lock, notTask>>

Link(j) == Attempt(j, "link", "committed")

JournalCommitted(j) ==
    /\ TaskAt(j, "committed")
    /\ lock = "free"
    /\ IF Transitions(j, FALSE)
       THEN file' = [file EXCEPT !.journal.phase = "committed"] /\ TaskTo(j, "persist")
       ELSE /\ TaskTo(j, IF task[j].res = "replaced" THEN "recover" ELSE "persist")
            /\ UNCHANGED file
    /\ UNCHANGED <<job, lock, notTask>>

\* upsertTranscodeResult takes no section.  A rejected output whose journal is
\* still only prepared is validated and maybe deleted first, which may throw.
Persist(j) ==
    /\ TaskAt(j, "persist")
    /\ \/ /\ file' = [file EXCEPT !.results[Setting(j)] = task[j].res]
          /\ TaskTo(j, IF task[j].res = "replaced" THEN "mark" ELSE "complete")
       \/ /\ file.journal.phase = "prepared"
          /\ TaskTo(j, "recover")
          /\ UNCHANGED file
    /\ UNCHANGED <<job, lock, notTask>>

MarkReplaced(j) ==
    /\ TaskAt(j, "mark")
    /\ file' = [file EXCEPT !.status = "replaced"]
    /\ TaskTo(j, "complete")
    /\ UNCHANGED <<job, lock, notTask>>

Complete(j) ==
    /\ TaskAt(j, "complete")
    /\ CompleteIfRunning(j)
    /\ TaskTo(j, IF task[j].res = "replaced" THEN "clean" ELSE "recount")
    /\ UNCHANGED <<file, lock, notTask>>

TaskRecount(j) ==
    /\ TaskAt(j, "recount")
    /\ lock = "free"
    /\ lock' = "task"
    /\ task' = [task EXCEPT ![j].at = "aggregate", ![j].listed = OthersActive(j)]
    /\ UNCHANGED <<file, job, notTask>>

TaskAggregate(j) ==
    /\ TaskAt(j, "aggregate")
    /\ file' = Recomputed(file, j, task[j].listed)
    /\ lock' = "free"
    /\ task' = [task EXCEPT ![j].listed = FALSE,
                            ![j].at = IF task[j].res = "failed" THEN "release"
                                      ELSE IF file.journal.phase = "committed" THEN "clean"
                                      ELSE "unjournal"]
    /\ UNCHANGED <<job, notTask>>

JournalCleaned(j) ==
    /\ TaskAt(j, "clean")
    /\ file' = [file EXCEPT !.journal.phase = "cleaned"]
    /\ TaskTo(j, "unlink")
    /\ UNCHANGED <<job, lock, notTask>>

\* The scratch or the backup is removed, or its journal is kept.
Unlink(j) ==
    /\ TaskAt(j, "unlink")
    /\ \/ TaskTo(j, IF task[j].res = "replaced" THEN "release" ELSE "unjournal")
       \/ task' = [task EXCEPT ![j].at = "release", ![j].kept = TRUE]
    /\ UNCHANGED <<file, job, lock, notTask>>

Unjournal(j) ==
    /\ TaskAt(j, "unjournal")
    /\ file' = [file EXCEPT !.journal = NoJournal]
    /\ TaskTo(j, "release")
    /\ UNCHANGED <<job, lock, notTask>>

TerminalOwnerCanRelease(j) ==
    /\ file.owner = j
    /\ file.phase = "committing"
    /\ file.status \notin {"processing", "stopped"}
    /\ job[j] = "done"
    /\ file.results[Setting(j)] # "none"
    /\ file.journal.phase \in {"none", "cleaned"}

FailedOwnerCanRelease(j) ==
    /\ file.owner = j
    /\ file.phase = "committing"
    /\ file.status \notin {"processing", "stopped"}
    /\ job[j] = "failed"
    /\ file.results[Setting(j)] = "failed"
    /\ \/ file.journal = NoJournal
       \/ task[j].kept /\ file.journal.job = j

CanRelease(j) ==
    IF task[j].res = "failed" THEN FailedOwnerCanRelease(j) ELSE TerminalOwnerCanRelease(j)

\* An overwrite drops its cleaned journal after the release.
Release(j) ==
    /\ TaskAt(j, "release")
    /\ lock = "free"
    /\ IF CanRelease(j)
       THEN /\ file' = Released(file)
            /\ TaskTo(j, IF task[j].res = "replaced" /\ ~task[j].kept THEN "erase" ELSE "settle")
       ELSE TaskTo(j, "recover") /\ UNCHANGED file
    /\ UNCHANGED <<job, lock, notTask>>

EraseJournal(j) ==
    /\ TaskAt(j, "erase")
    /\ file' = [file EXCEPT !.journal = NoJournal]
    /\ TaskEnds(j)
    /\ UNCHANGED <<job, lock, notTask>>

SettleUnfenced(j) ==
    /\ TaskAt(j, "settle")
    /\ TaskEnds(j)
    /\ UNCHANGED <<file, job, lock, notTask>>

\* handleResult's last fence; a completed job is terminal already.
Settle(j) ==
    /\ TaskAt(j, "settle")
    /\ FailIfActive(j)
    /\ TaskEnds(j)
    /\ UNCHANGED <<file, lock, notTask>>

\* finishStopped: clean up, complete the job, and only then release.
StopCheck(j) ==
    /\ TaskAt(j, "stop-check")
    /\ IF file.owner = j THEN TaskTo(j, "stop-clean") ELSE TaskEnds(j)
    /\ UNCHANGED <<file, job, lock, notTask>>

StopClean(j) ==
    /\ TaskAt(j, "stop-clean")
    /\ lock = "free"
    /\ \E journal \in {NoJournal, file.journal} :
          file' = IF file.owner # j THEN file
                  ELSE [file EXCEPT !.status = "stopped", !.cancelled = FALSE, !.journal = journal]
    /\ TaskTo(j, "stop-complete")
    /\ UNCHANGED <<job, lock, notTask>>

StopComplete(j) ==
    /\ TaskAt(j, "stop-complete")
    /\ CompleteIfRunning(j)
    /\ TaskTo(j, "stop-release")
    /\ UNCHANGED <<file, lock, notTask>>

StopReleaseForgotten(j) ==
    /\ TaskAt(j, "stop-release")
    /\ TaskEnds(j)
    /\ UNCHANGED <<file, job, lock, notTask>>

StopRelease(j) ==
    /\ TaskAt(j, "stop-release")
    /\ lock = "free"
    /\ file' = IF file.owner = j THEN Released(file) ELSE file
    /\ TaskEnds(j)
    /\ UNCHANGED <<job, lock, notTask>>

\* finishFailure: a failure is a commit too, and loses to a stop.
FailRead(j) ==
    /\ TaskAt(j, "fail-read")
    /\ IF file.owner # j THEN TaskTo(j, "settle")
       ELSE TaskTo(j, IF Stopped(file) THEN "stop-clean" ELSE "fail-claim")
    /\ UNCHANGED <<file, job, lock, notTask>>

FailClaim(j) ==
    /\ TaskAt(j, "fail-claim")
    /\ lock = "free"
    /\ IF Transitions(j, TRUE)
       THEN file' = [file EXCEPT !.phase = "committing"] /\ TaskTo(j, "fail-write")
       ELSE TaskTo(j, "stop-check") /\ UNCHANGED file
    /\ UNCHANGED <<job, lock, notTask>>

FailWrite(j) ==
    /\ TaskAt(j, "fail-write")
    /\ lock = "free"
    /\ IF file.owner = j /\ file.phase = "committing"
       THEN \E kept \in BOOLEAN :
              /\ file' = [file EXCEPT !.results[Setting(j)] = "failed",
                                      !.journal = IF kept THEN @ ELSE NoJournal]
              /\ task' = [task EXCEPT ![j].at = "fail-job", ![j].res = "failed", ![j].kept = kept]
       ELSE TaskTo(j, "settle") /\ UNCHANGED file
    /\ UNCHANGED <<job, lock, notTask>>

FailTask(j) ==
    /\ TaskAt(j, "fail-job")
    /\ FailIfActive(j)
    /\ TaskTo(j, "recount")
    /\ UNCHANGED <<file, lock, notTask>>

\* recoverFinalizationError: undo the attempt and fail, or report that the
\* file system would not let it.  An attempt that throws has committed nothing.
Recover(j) ==
    /\ TaskAt(j, "recover")
    /\ IF file.owner # j THEN TaskTo(j, "settle")
       ELSE /\ file.journal.phase \in {"none", "prepared", "promoting"}
            /\ TaskTo(j, "fail-read") \/ TaskTo(j, "unrecovered")
    /\ UNCHANGED <<file, job, lock, notTask>>

ReportUnrecovered(j) ==
    /\ TaskAt(j, "unrecovered")
    /\ file' = [file EXCEPT !.status = "failed"]
    /\ TaskTo(j, "settle")
    /\ UNCHANGED <<job, lock, notTask>>

-----------------------------------------------------------------------------
(***************************************************************************)
(* requeueLostWork.                                                        *)
(***************************************************************************)
BelongsTo(j) == file.owner = j /\ file.status \in {"processing", "stopped"}

LostRead(j) ==
    /\ TaskAt(j, "lost")
    /\ IF job[j] # "running" THEN TaskEnds(j)
       ELSE IF ~BelongsTo(j) THEN TaskTo(j, "lost-job")
       ELSE TaskTo(j, "retire") \/ TaskTo(j, "retire-failed")   \* unlink failed
    /\ UNCHANGED <<file, job, lock, notTask>>

Retired(f, status) == [Released(f) EXCEPT !.status = status, !.journal = NoJournal]

\* The commit point of the race between a stop and a lost runner.
RetireOver(j, requireActive) ==
    /\ task[j].at \in {"retire", "retire-failed"}
    /\ lock = "free"
    /\ LET again == TaskAt(j, "retire") IN
       IF Transitions(j, requireActive)
       THEN /\ file' = Retired(file, IF again THEN "queued" ELSE "failed")
            /\ TaskTo(j, IF again THEN "requeue" ELSE "lost-job")
       ELSE TaskTo(j, "retire-stopped") /\ UNCHANGED file
    /\ UNCHANGED <<job, lock, notTask>>

RetireOverStop(j) == RetireOver(j, FALSE)

Retire(j) == RetireOver(j, TRUE)

RequeueLostForgotten(j) ==
    /\ TaskAt(j, "requeue")
    /\ TaskEnds(j)
    /\ UNCHANGED <<file, job, lock, notTask>>

RequeueLost(j) ==
    /\ TaskAt(j, "requeue")
    /\ job' = [job EXCEPT ![j] = IF @ = "running" THEN "pending" ELSE @]
    /\ TaskEnds(j)
    /\ UNCHANGED <<file, lock, notTask>>

\* Stop won: only the old generation is retired.
RetireStopped(j) ==
    /\ TaskAt(j, "retire-stopped")
    /\ lock = "free"
    /\ file' = IF file.owner = j /\ Stopped(file) THEN Retired(file, file.status) ELSE file
    /\ TaskTo(j, "lost-job")
    /\ UNCHANGED <<job, lock, notTask>>

FailLostJob(j) ==
    /\ TaskAt(j, "lost-job")
    /\ job' = [job EXCEPT ![j] = IF @ = "running" THEN "failed" ELSE @]
    /\ TaskEnds(j)
    /\ UNCHANGED <<file, lock, notTask>>

-----------------------------------------------------------------------------
(***************************************************************************)
(* The user.                                                               *)
(***************************************************************************)
notUser == <<gen, loop, task, losses, overtaken>>

\* transitionFileToStopped: what is to be failed is listed inside the section.
StopRead ==
    /\ stop.at = "idle"
    /\ lock = "free"
    /\ file.phase # "committing"
    /\ file.status \in Stoppable
    /\ lock' = "stop"
    /\ stop' = [at |-> "write",
                jobs |-> (Outstanding \ {file.owner}) \union
                         (IF file.probe = 0 THEN {} ELSE {ProbeJob(file.probe)})]
    /\ UNCHANGED <<file, job, notUser, requeue>>

StopWrite ==
    /\ stop.at = "write"
    /\ file' = [file EXCEPT !.status = "stopped", !.cancelled = file.owner # NoJob, !.probe = 0]
    /\ lock' = "free"
    /\ stop' = IF stop.jobs = {} THEN UserIdle ELSE [stop EXCEPT !.at = "fail"]
    /\ UNCHANGED <<job, notUser, requeue>>

StopFailJob(j) ==
    /\ stop.at = "fail"
    /\ j \in stop.jobs
    /\ FailIfActive(j)
    /\ stop' = IF stop.jobs = {j} THEN UserIdle ELSE [stop EXCEPT !.jobs = @ \ {j}]
    /\ UNCHANGED <<file, lock, notUser, requeue>>

RequeueRead ==
    /\ requeue.at = "idle"
    /\ lock = "free"
    /\ gen < MaxGens
    /\ file.status \in Requeueable
    /\ ~Unsettled(file)
    /\ lock' = "requeue"
    /\ requeue' = [at |-> "fail", jobs |-> Outstanding]
    /\ UNCHANGED <<file, job, notUser, stop>>

RequeueFailJob(j) ==
    /\ requeue.at = "fail"
    /\ j \in requeue.jobs
    /\ FailIfActive(j)
    /\ requeue' = [requeue EXCEPT !.jobs = @ \ {j}]
    /\ UNCHANGED <<file, lock, notUser, stop>>

RequeuePublish ==
    /\ requeue.at = "fail"
    /\ requeue.jobs = {}
    /\ gen' = gen + 1
    /\ file' = [status |-> "pending", owner |-> NoJob, phase |-> "none", cancelled |-> FALSE,
                probe |-> gen + 1, journal |-> NoJournal, results |-> NoResults]
    /\ requeue' = [requeue EXCEPT !.at = "create"]
    /\ UNCHANGED <<job, lock, loop, task, losses, stop, overtaken>>

\* The probe job is created last; if the database rejects it the file fails.
RequeueCreate ==
    /\ requeue.at = "create"
    /\ \/ /\ job' = [job EXCEPT ![ProbeJob(gen)] = "pending"]
          /\ UNCHANGED file
       \/ /\ file' = IF file.status = "pending" /\ file.probe = gen
                     THEN [file EXCEPT !.status = "failed", !.probe = 0] ELSE file
          /\ UNCHANGED job
    /\ lock' = "free"
    /\ requeue' = UserIdle
    /\ UNCHANGED <<notUser, stop>>

\* Jobs that a replace does not wait for: the one the loop has read the file for
\* and is about to claim or to reset, and those a stop has yet to fail.
MetHalfWay ==
    {j \in Jobs : j \in stop.jobs \/ (loop.job = j /\ loop.at \in {"claim", "reset"})}

Replace(s) ==
    /\ lock = "free"
    /\ ~Unsettled(file)
    /\ file.status \notin {"processing", "missing"}
    /\ file.results[s] = "done"
    /\ file' = [file EXCEPT !.status = "replaced", !.results[s] = "replaced"]
    /\ overtaken' = overtaken \cup MetHalfWay
    /\ UNCHANGED <<job, lock, gen, loop, task, losses, stop, requeue>>

Remove ==
    /\ lock = "free"
    /\ ~Unsettled(file)
    /\ file.status \notin {"processing", "missing"}
    /\ file' = [file EXCEPT !.status = "missing", !.results = NoResults, !.cancelled = FALSE]
    /\ UNCHANGED <<job, lock, notUser, stop, requeue>>

-----------------------------------------------------------------------------
LoopStep ==
    \/ \E g \in Gens : TakeProbe(g)
    \/ ProbeClaim \/ ProbeQueued \/ ProbeFailed \/ ProbeNoMatch \/ ProbeCheck
    \/ ProbeEnqueue \/ ProbePublish \/ ProbeFence \/ ProbeDone
    \/ \E j \in Transcodes : TakeTranscode(j)
    \/ PrepareRead \/ RecordCollision \/ ClaimFile \/ PatchJob \/ RollBackClaim
    \/ ValidatePrepared \/ Assign \/ NoRunnerLeft \/ Reset
    \/ FailJob \/ LoopRecount \/ LoopAggregate \/ CompleteSkipped

CommitStep(j) ==
    \/ FinalizeRead(j) \/ Begin(j) \/ ValidateOutput(j) \/ BeforeFilters(j) \/ RunFilters(j)
    \/ Commit(j) \/ Promote(j) \/ Link(j) \/ JournalCommitted(j) \/ Persist(j)
    \/ MarkReplaced(j) \/ Complete(j) \/ TaskRecount(j) \/ TaskAggregate(j)
    \/ JournalCleaned(j) \/ Unlink(j) \/ Unjournal(j) \/ Release(j) \/ EraseJournal(j)
    \/ Settle(j)

AbortStep(j) ==
    \/ StopCheck(j) \/ StopClean(j) \/ StopComplete(j) \/ StopRelease(j)
    \/ FailRead(j) \/ FailClaim(j) \/ FailWrite(j) \/ FailTask(j)
    \/ Recover(j) \/ ReportUnrecovered(j)

LostStep(j) ==
    LostRead(j) \/ Retire(j) \/ RequeueLost(j) \/ RetireStopped(j) \/ FailLostJob(j)

TaskStep(j) == Report(j) \/ CommitStep(j) \/ AbortStep(j) \/ LostStep(j)

StopStep == StopRead \/ StopWrite \/ \E j \in Jobs : StopFailJob(j)
RequeueStep == RequeueRead \/ RequeuePublish \/ RequeueCreate \/ \E j \in Jobs : RequeueFailJob(j)

Next ==
    \/ LoopStep
    \/ \E j \in Transcodes : TaskStep(j) \/ LoseRunner(j)
    \/ StopStep
    \/ RequeueStep
    \/ \E s \in Settings : Replace(s)
    \/ Remove

Spec == Init /\ [][Next]_vars

(***************************************************************************)
(* Fairness.  The process keeps running what it has begun: the queue loop, *)
(* the handlers of results and losses, a stop or requeue in progress.  A   *)
(* runner reports (or is lost: RunnerPool's LeaseResolves).  Every pass of *)
(* the loop looks at all pending jobs, oldest first, and runners keep      *)
(* becoming idle, so a job that can be dispatched and assigned again and   *)
(* again is so at last.  Users start nothing under fairness.               *)
(***************************************************************************)
Fairness ==
    /\ WF_vars(LoopStep)
    /\ SF_vars(Assign)
    /\ \A j \in Transcodes : WF_vars(TaskStep(j)) /\ SF_vars(TakeTranscode(j))
    /\ WF_vars(StopWrite \/ \E j \in Jobs : StopFailJob(j))
    /\ WF_vars(RequeuePublish \/ RequeueCreate \/ \E j \in Jobs : RequeueFailJob(j))

FairSpec == Spec /\ Fairness

-----------------------------------------------------------------------------
(***************************************************************************)
(* Properties.                                                             *)
(***************************************************************************)
\* A job that is running is in somebody's hands: the queue loop's, or those of
\* its runner, its result handler or its recovery.  No interleaving of stop,
\* requeue, removal, reset and recovery leaves one that only a restart would
\* settle (dispatch.js:11-13 and 83-142, recovery.js, inbound.js).  A replace by
\* the user does, but only the one job that it met half way (see Dropped).
RunningJobIsHeld ==
    \A j \in Jobs : job[j] = "running" =>
        loop.job = j \/ (j \in Transcodes /\ task[j].at # "none") \/ j \in overtaken

\* Once a stop is acknowledged the file is not queued, probed or processed
\* again, and nothing is committed over it, until the user requeues, removes or
\* replaces it (mutations.js stop, processing.js transitionOwner, recovery.js
\* 131-136).
StopHolds ==
    [][file.status = "stopped" =>
         \/ file'.status \in {"stopped", "failed"} /\ file'.results = file.results
         \/ file'.status = "pending" /\ gen' = gen + 1
         \/ file'.status = "missing"
         \/ \E s \in Settings : Replace(s)]_vars

\* An output result is written only by the job that owns the file, past its
\* point of no return, with no stop acknowledged, although the upsert itself
\* takes no section and checks nothing (results.js 34-38, finalize.js).
ResultWrittenByCommittingOwner ==
    [][\A s \in Settings :
         file'.results[s] \in {"done", "rejected"} /\ file.results[s] # file'.results[s] =>
            /\ file.owner \in Transcodes /\ Setting(file.owner) = s
            /\ file.phase = "committing"
            /\ ~Stopped(file)]_vars

\* Whatever a stop, a requeue, a removal and a replace do while a job is being
\* prepared, a runner is handed only a job of the latest generation that owns the
\* file, and a running one (validatePreparedTask; transcode.test.js:815).  Only a
\* replace in the middle of a stop lets a claim take a job that the stop is still
\* to fail, also after its last look at it.
OnlyCurrentGenerationRuns ==
    [][\A j \in Transcodes :
         task[j].at = "none" /\ task'[j].at = "exec" =>
            Gen(j) = gen /\ file.owner = j /\ (job[j] = "running" \/ j \in overtaken)]_vars

\* When a requeue publishes a generation, every job of an older one has ended,
\* or is the probe that the queue loop is inside of, or is about to be failed by
\* it: its late enqueue cannot outlive the fence (requeue, probe.js 129-139).
OldGenerationEnds ==
    \A j \in Outstanding : Gen(j) < gen => loop.job = ProbeJob(Gen(j))

Quiescent ==
    /\ loop = LoopIdle
    /\ \A j \in Transcodes : task[j] = NoTask
    /\ Outstanding = {}
    /\ stop = UserIdle /\ requeue = UserIdle

\* A job that ended without a result: skipped because its setting was gone or
\* disabled, or failed before or after its run without finalization.
Unattempted == \E s \in Settings : job[<<gen, s>>] # "none" /\ file.results[s] = "none"

\* With no work left, an unowned file shows the aggregate of its results: every
\* path that ends a job recounts, and no recount saw stale results.  Only a
\* setting without a result leaves it behind, and that one the scanner enqueues
\* again (recomputeFileStatus, deriveAggregateStatus, scanner.js 18-22).
QuiescentStatusDerived ==
    Quiescent /\ file.owner = NoJob /\ file.probe = 0
              /\ file.status \notin {"stopped", "ignored", "missing"}
              /\ file.results # NoResults
        => \/ file.status = Derive(file, FALSE, FALSE)
           \/ file.status \in {"queued", "failed"} /\ Unattempted

\* A file whose finalization could not be undone on disk keeps its owner and
\* its journal for the next startup; the job has failed.
Unrecovered(j) ==
    /\ task[j] = NoTask /\ job[j] = "failed"
    /\ file.status \in {"failed", "stopped"} /\ file.journal.job = j

\* Every owner lets go of its file, however its run ends (finalize.js,
\* releaseTerminalOwner, releaseFailedOwner, requeueLostWork, resetTranscode).
OwnerReleased ==
    \A j \in Transcodes : file.owner = j ~> file.owner # j \/ Unrecovered(j)

\* A claim that met a file the user had just replaced is dropped, with its job
\* still running.
Dropped(j) ==
    /\ job[j] = "running" /\ loop.job # j /\ task[j] = NoTask
    /\ j \in overtaken /\ file.status \in {"replaced", "missing"}

\* A job that waits for the queue is settled at last, also when its runner is
\* lost, its file is stopped or another job of the file goes first, unless an
\* owner that could not be recovered blocks the file until the next startup.
JobsSettle ==
    \A j \in Transcodes :
        Active(j) ~> \/ ~Active(j) \/ Dropped(j)
                     \/ file.owner \in Transcodes /\ Unrecovered(file.owner)

\* A job that a stop made terminal never becomes the file's owner
\* (dispatch.js:26-28).
OnlyRunningJobBecomesOwner ==
    [][\A j \in Transcodes : file.owner # j /\ file'.owner = j => job[j] = "running"]_vars

\* The journal of an output that is still to be cleaned up stays until it is:
\* another job's journal never takes its place (processing.js:457-458).
RetainedJournalStays ==
    [][file.journal.phase = "cleaned" /\ file'.journal # NoJournal
         => file'.journal.job = file.journal.job]_vars

\* A recount never takes a fresh generation's pending status from its probe
\* (transcode.test.js:176, processing.js 53-54).
RecountSparesNewProbe ==
    [][file.status = "pending" /\ file'.status = "queued" => loop.at = "probe-media"]_vars
=============================================================================
