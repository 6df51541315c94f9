---------------------------- MODULE OutputCommit ----------------------------
(***************************************************************************)
(* The output of one profile on its way to the disk, across crashes: the   *)
(* claim of prepare.js, the filesystem and database steps of finalize.js,  *)
(* and the startup recovery of processing.js and event/recovery.js.        *)
(*                                                                         *)
(* One file, one profile, one monitor.  Every database write and every     *)
(* filesystem call is a step of its own; the monitor may die between any   *)
(* two of them, and a filesystem call may fail.  FileLifecycle has the     *)
(* interleavings of a running monitor; here the steps of one procedure     *)
(* follow each other (`pc') and only the user's stop comes in between.     *)
(***************************************************************************)
EXTENDS Naturals, FiniteSets

CONSTANTS Attempts,    \* transcode jobs, one per attempt, in no order
          MaxCrashes,  \* bound: crashes in a behaviour
          MaxFaults,   \* bound: filesystem calls that fail
          NoJob

ASSUME CommitAssumption ==
    /\ NoJob \notin Attempts
    /\ {"none", "original", "other"} \cap Attempts = {}
    /\ MaxCrashes \in Nat
    /\ MaxFaults \in Nat

VARIABLES
    mode,     \* the profile's output mode: "adjacent" or "overwrite"
    file,     \* the file document
    job,      \* attempt -> its durable status
    disk,     \* the directory of the file
    life,     \* "up", "down" or "boot": the monitor process
    pc,       \* the next step of the procedure that runs
    ctx,      \* its local variables, lost in a crash
    crashes, faults

vars == <<mode, file, job, disk, life, pc, ctx, crashes, faults>>

Statuses == {"queued", "processing", "stopped", "transcoded", "replaced", "rejected", "failed"}
Holders  == Attempts \union {NoJob}

\* A path the monitor chose; NoPath is null.  Scratch and backup names carry
\* the attempt, the final name of an adjacent output does not.
Paths  == [kind : {"scratch", "backup"}, job : Attempts]
          \union {[kind |-> "none", job |-> NoJob], [kind |-> "final", job |-> NoJob]}
NoPath    == [kind |-> "none", job |-> NoJob]
FinalPath == [kind |-> "final", job |-> NoJob]
ScratchOf(j) == [kind |-> "scratch", job |-> j]
BackupOf(j)  == [kind |-> "backup", job |-> j]

\* "promoting" is "replacing" in the journal of an overwrite.
Journals  == [job : Attempts, phase : {"prepared", "promoting", "committed", "cleaned"},
              res : {"done", "rejected"}]
             \union {[job |-> NoJob, phase |-> "none", res |-> "done"]}
NoJournal == [job |-> NoJob, phase |-> "none", res |-> "done"]

Results  == [status : {"none", "done", "replaced", "rejected", "failed"}, path : Paths]
NoResult == [status |-> "none", path |-> NoPath]

FreshFile == [status |-> "queued", owner |-> NoJob, phase |-> "none", cancelled |-> FALSE,
              failing |-> FALSE, journal |-> NoJournal, path |-> NoPath, result |-> NoResult]

\* What the source and the final name hold: nothing, the original, a file the
\* user put there, or the output of an attempt.  A scratch shares its inode
\* with the final name while both hold the output of the same attempt.
FreshDisk == [source |-> "original", final |-> "none", scratch |-> {}, backup |-> {}]

\* job: the attempt; verdict: of the filters; cleaned: whether the cleanup
\* succeeded; seen: the status in the snapshot recoverStuckFiles works from.
NoCtx == [job |-> NoJob, verdict |-> "none", cleaned |-> TRUE, seen |-> "queued"]

FileType == [status : Statuses, owner : Holders,
             phase : {"none", "processing", "finalizing", "committing"},
             cancelled : BOOLEAN, failing : BOOLEAN,
             journal : Journals, path : Paths, result : Results]
JobType  == [Attempts -> {"none", "pending", "running", "done", "failed"}]
DiskType == [source : {"original", "none"} \union Attempts,
             final : {"none", "other"} \union Attempts,
             scratch : SUBSET Attempts, backup : SUBSET Attempts]
CtxType  == [job : Holders, verdict : {"none", "pass", "keep", "delete"},
             cleaned : BOOLEAN, seen : Statuses]

TypeOK ==
    /\ mode \in {"adjacent", "overwrite"}
    /\ file \in FileType
    /\ job \in JobType
    /\ disk \in DiskType
    /\ life \in {"up", "down", "boot"}
    /\ ctx \in CtxType
    /\ crashes \in 0..MaxCrashes /\ faults \in 0..MaxFaults

Init ==
    /\ mode \in {"adjacent", "overwrite"}
    /\ file = FreshFile
    /\ job = [j \in Attempts |-> "none"]
    /\ disk = FreshDisk
    /\ life = "up" /\ pc = "idle" /\ ctx = NoCtx
    /\ crashes = 0 /\ faults = 0

-----------------------------------------------------------------------------
(***************************************************************************)
(* The shape of a step: one write to a document, or one filesystem call.   *)
(***************************************************************************)
me == ctx.job
Steady == UNCHANGED <<mode, life, crashes>>

\* One write to the file document.
Write(from, document, to) ==
    /\ pc = from /\ pc' = to
    /\ file' = document
    /\ Steady /\ UNCHANGED <<job, disk, ctx, faults>>

\* One conditional write to the job (completeIfRunning, failIfActive).
Completed(j) == [job EXCEPT ![j] = IF @ = "running" THEN "done" ELSE @]
Failed(j)    == [job EXCEPT ![j] = IF @ \in {"pending", "running"} THEN "failed" ELSE @]
Settle(from, jobs, to) ==
    /\ pc = from /\ pc' = to
    /\ job' = jobs
    /\ Steady /\ UNCHANGED <<file, disk, ctx, faults>>

\* One filesystem call: it takes effect, or it throws and changes nothing.
Call(from, directory, to, onError) ==
    /\ pc = from
    /\ \/ /\ disk' = directory /\ pc' = to /\ UNCHANGED faults
       \/ /\ faults < MaxFaults /\ faults' = faults + 1
          /\ pc' = onError /\ UNCHANGED disk
    /\ Steady /\ UNCHANGED <<file, job, ctx>>

Without(path) ==
    CASE path.kind = "scratch" -> [disk EXCEPT !.scratch = @ \ {path.job}]
      [] path.kind = "backup"  -> [disk EXCEPT !.backup = @ \ {path.job}]
      [] OTHER -> disk

\* One unlink whose failure the procedure only remembers; null is no path.
TryUnlink(from, path, to) ==
    /\ pc = from /\ pc' = to
    /\ \/ /\ disk' = Without(path) /\ ctx' = [ctx EXCEPT !.cleaned = TRUE]
          /\ UNCHANGED faults
       \/ /\ path # NoPath /\ faults < MaxFaults /\ faults' = faults + 1
          /\ ctx' = [ctx EXCEPT !.cleaned = FALSE] /\ UNCHANGED disk
    /\ Steady /\ UNCHANGED <<file, job>>

\* A decision that writes nothing.
Branch(from, to) ==
    /\ pc = from /\ pc' = to
    /\ Steady /\ UNCHANGED <<file, job, disk, ctx, faults>>

StopWon == file.cancelled \/ file.status = "stopped"

\* deriveAggregateStatus for a file with one profile.
Aggregate(ignored) ==
    IF file.status = "stopped" THEN "stopped"
    ELSE IF file.owner \notin {NoJob, ignored} THEN "processing"
    ELSE IF \E j \in Attempts \ {ignored} : job[j] \in {"pending", "running"} THEN "queued"
    ELSE CASE file.result.status = "done" -> "transcoded"
           [] file.result.status = "none" -> "queued"
           [] OTHER -> file.result.status

WithResult(status, path) == [file EXCEPT !.result = [status |-> status, path |-> path]]

Released(f, keepPath) ==
    [f EXCEPT !.owner = NoJob, !.phase = "none", !.cancelled = FALSE, !.failing = FALSE,
              !.path = IF keepPath THEN @ ELSE NoPath]

\* The gate of releaseTerminalOwner.
TerminalOwnerCanRelease(j) ==
    /\ file.owner = j /\ file.phase = "committing"
    /\ file.status \notin {"processing", "stopped"}
    /\ job[j] = "done"
    /\ file.result.status # "none"
    /\ file.journal.phase \in {"none", "cleaned"}

\* The gate of releaseFailedOwner.
FailedOwnerCanRelease(j, keepPath) ==
    /\ file.owner = j /\ file.phase = "committing"
    /\ file.status \notin {"processing", "stopped"}
    /\ job[j] = "failed"
    /\ file.result.status = "failed"
    /\ \/ file.journal = NoJournal /\ file.path = NoPath
       \/ keepPath /\ file.path # NoPath /\ file.journal.job = j

-----------------------------------------------------------------------------
(***************************************************************************)
(* A new attempt: the scan enqueues a queued file that has no result, the  *)
(* loop claims the job, prepare claims the file.                           *)
(***************************************************************************)
Active(j) == job[j] \in {"pending", "running"}

Enqueue(j) ==
    /\ life = "up"
    /\ file.status = "queued" /\ file.result.status = "none"
    /\ job[j] = "none" /\ \A k \in Attempts : ~Active(k)
    /\ Settle("idle", [job EXCEPT ![j] = "pending"], "idle")

ClaimJob(j) ==
    /\ life = "up" /\ pc = "idle" /\ job[j] = "pending"
    /\ job' = [job EXCEPT ![j] = "running"]
    /\ pc' = "prepare" /\ ctx' = [NoCtx EXCEPT !.job = j]
    /\ Steady /\ UNCHANGED <<file, disk, faults>>

\* prepare skips a terminal file.  Here a stop comes before the claim of a job
\* or after the file is claimed, so that none is met (FileLifecycle has it).
Preparable == file.status \notin {"replaced", "stopped"}

Collision == mode = "adjacent" /\ (disk.final # "none" \/ file.journal # NoJournal)

PrepareCollision ==
    /\ Preparable
    /\ file.owner = NoJob /\ Collision
    /\ Write("prepare", [WithResult("failed", NoPath) EXCEPT !.status = "failed"], "collided")

FailCollided == Settle("collided", Failed(me), "recountCollided")
RecountCollided == Write("recountCollided", [file EXCEPT !.status = Aggregate(me)], "idle")

PrepareClaim ==
    /\ Preparable
    /\ file.owner = NoJob /\ ~Collision
    /\ Write("prepare",
             [file EXCEPT !.status = "processing", !.owner = me, !.phase = "processing",
                          !.cancelled = FALSE, !.failing = FALSE, !.path = ScratchOf(me),
                          !.journal = [job |-> me, phase |-> "prepared", res |-> "done"]],
             "transcode")

\* Another job owns the file: the reset that follows leaves this one running.
PrepareDefer ==
    /\ Preparable
    /\ file.owner # NoJob
    /\ Branch("prepare", "idle")

(***************************************************************************)
(* The runner writes the scratch and reports once.                         *)
(***************************************************************************)
RunnerWrites ==
    /\ pc = "transcode" /\ me \notin disk.scratch
    /\ disk' = [disk EXCEPT !.scratch = @ \union {me}]
    /\ Steady /\ UNCHANGED <<file, job, pc, ctx, faults>>

\* finalizeTranscode reads the file once before it acts on the result.
ResultCancelled == StopWon /\ Branch("transcode", "stopClean")
ResultError     == ~StopWon /\ Branch("transcode", "failClaim")
ResultOk        == ~StopWon /\ me \in disk.scratch /\ Branch("transcode", "finalize")

-----------------------------------------------------------------------------
(***************************************************************************)
(* finalizeTranscode: every claim is a transitionOwner that a stop fences. *)
(***************************************************************************)
Claim(from, document, to) ==
    \/ ~StopWon /\ Write(from, document, to)
    \/ StopWon /\ Branch(from, "stopClean")

ClaimFinalizing == Claim("finalize", [file EXCEPT !.phase = "finalizing"], "validate")

\* validateOutput or a filter may throw on an output that is not good.
Validate ==
    \/ StopWon /\ Branch("validate", "stopClean")
    \/ ~StopWon /\ Branch("validate", "filter")
    \/ Branch("validate", "error")

\* The filters' verdict.  An overwrite that passes claims nothing yet.
Filter ==
    /\ pc = "filter"
    /\ \E verdict \in {"pass", "keep", "delete"} :
        /\ ctx' = [ctx EXCEPT !.verdict = verdict]
        /\ pc' = IF mode = "overwrite" /\ verdict = "pass" THEN "replace" ELSE "commit"
    /\ Steady /\ UNCHANGED <<file, job, disk, faults>>

ClaimCommitting ==
    Claim("commit", [file EXCEPT !.phase = "committing"],
          IF ctx.verdict = "pass" \/ (ctx.verdict = "keep" /\ mode = "adjacent")
          THEN "promote" ELSE "reject")

(***************************************************************************)
(* finishAdjacentOutput.                                                   *)
(***************************************************************************)
Promote ==
    Claim("promote",
          [file EXCEPT !.phase = "committing",
                       !.journal = [@ EXCEPT !.phase = "promoting",
                                             !.res = IF ctx.verdict = "pass" THEN "done"
                                                     ELSE "rejected"]],
          "link")

LinkFinalOverExisting == Call("link", [disk EXCEPT !.final = me], "linked", "error")

\* link fails with EEXIST rather than replacing a file the user put there.
LinkFinal ==
    \/ disk.final = "none" /\ Call("link", [disk EXCEPT !.final = me], "linked", "error")
    \/ disk.final # "none" /\ Branch("link", "error")

ValidateFinal == Call("linked", disk, "journalCommitted", "error")

JournalCommitted ==
    Write("journalCommitted", [file EXCEPT !.journal = [@ EXCEPT !.phase = "committed"]],
          "persist")

\* upsertTranscodeResult with the journal's verdict, at run time and at boot.
PersistOutput ==
    Write("persist",
          IF mode = "overwrite" THEN WithResult("replaced", NoPath)
          ELSE WithResult(file.journal.res, FinalPath),
          IF mode = "overwrite" THEN "markReplaced" ELSE "complete")

CompleteOutput ==
    Settle("complete", Completed(me), IF mode = "overwrite" THEN "journalCleaned" ELSE "aggregate")

AggregateOutput == Write("aggregate", [file EXCEPT !.status = Aggregate(me)], "journalCleaned")

JournalCleaned ==
    Write("journalCleaned", [file EXCEPT !.journal = [@ EXCEPT !.phase = "cleaned"]],
          IF mode = "overwrite" THEN "unlinkBackup" ELSE "unlinkScratch")

UnlinkScratch == TryUnlink("unlinkScratch", ScratchOf(me), "unjournalScratch")

UnjournalOwnerOnly ==
    Write("unjournalScratch", [file EXCEPT !.journal.job = NoJob, !.path = NoPath], "releaseOutput")

\* The journal goes with the scratch; otherwise the path is kept beside it.
UnjournalScratch ==
    Write("unjournalScratch",
          IF ctx.cleaned THEN [file EXCEPT !.journal = NoJournal, !.path = NoPath]
          ELSE [file EXCEPT !.path = ScratchOf(me)],
          "releaseOutput")

\* At boot the owner may have been released before; the gate is asked only
\* while it still holds the file.
ReleaseOutput ==
    \/ file.owner # me /\ life = "boot" /\ Branch("releaseOutput", "stuck")
    \/ /\ TerminalOwnerCanRelease(me)
       /\ Write("releaseOutput", Released(file, ~ctx.cleaned),
                IF life = "boot" THEN "stuck" ELSE "idle")
    \/ /\ file.owner = me /\ ~TerminalOwnerCanRelease(me)
       /\ Branch("releaseOutput", IF life = "boot" THEN "bootError" ELSE "error")

(***************************************************************************)
(* finishOverwriteSuccess.                                                 *)
(***************************************************************************)
Replace ==
    Claim("replace",
          [file EXCEPT !.phase = "committing", !.journal = [@ EXCEPT !.phase = "promoting"]],
          "renameToBackup")

RenameToBackup ==
    Call("renameToBackup", [disk EXCEPT !.source = "none", !.backup = @ \union {me}],
         "renameOutput", "error")

RenameOutput ==
    Call("renameOutput", [disk EXCEPT !.source = me, !.scratch = @ \ {me}],
         "statSource", "renameBack")

\* The error of the rename back is swallowed; the first one is thrown.
Restored(j) == [disk EXCEPT !.source = "original", !.backup = @ \ {j}]
RenameBack  == Call("renameBack", Restored(me), "error", "error")

StatSource == Call("statSource", disk, "journalCommitted", "error")

MarkReplaced == Write("markReplaced", [file EXCEPT !.status = "replaced"], "complete")

\* At run time a failed unlink keeps the journal and names the backup; at boot
\* it throws.
UnlinkBackup ==
    \/ life = "up" /\ TryUnlink("unlinkBackup", BackupOf(me), "releaseReplaced")
    \/ life = "boot" /\ Call("unlinkBackup", Without(BackupOf(me)), "releaseReplaced", "bootError")

ReleaseReplaced ==
    /\ life = "up" => TerminalOwnerCanRelease(me)
    /\ Write("releaseReplaced",
             IF file.owner = me THEN Released(file, ~ctx.cleaned) ELSE file,
             "eraseJournal")

EraseJournal ==
    Write("eraseJournal",
          IF ctx.cleaned THEN [file EXCEPT !.journal = NoJournal, !.path = NoPath]
          ELSE [file EXCEPT !.path = BackupOf(me)],
          IF life = "boot" THEN "stuck" ELSE "idle")

(***************************************************************************)
(* finishRejected, unless it publishes the adjacent output.                *)
(***************************************************************************)
ValidateRejected ==
    Call("reject", disk, IF ctx.verdict = "delete" THEN "deleteRejected" ELSE "persistRejected",
         "error")

DeleteRejected ==
    Call("deleteRejected", Without(ScratchOf(me)), "persistRejected", "error")

PersistRejected ==
    Write("persistRejected",
          WithResult("rejected", IF ctx.verdict = "delete" THEN NoPath ELSE ScratchOf(me)),
          "completeRejected")

CompleteRejected  == Settle("completeRejected", Completed(me), "aggregateRejected")
AggregateRejected ==
    Write("aggregateRejected", [file EXCEPT !.status = Aggregate(me)], "unjournalRejected")
UnjournalRejected ==
    Write("unjournalRejected", [file EXCEPT !.journal = NoJournal], "releaseRejected")

ReleaseRejected ==
    /\ TerminalOwnerCanRelease(me)
    /\ Write("releaseRejected", Released(file, FALSE), "idle")

(***************************************************************************)
(* finishStopped.                                                          *)
(***************************************************************************)
StopClean == TryUnlink("stopClean", ScratchOf(me), "stopWrite")

StopWriteForgetting ==
    Write("stopWrite",
          [file EXCEPT !.status = "stopped", !.cancelled = FALSE,
                       !.journal = NoJournal, !.path = NoPath],
          "stopComplete")

StopWrite ==
    Write("stopWrite",
          LET stopped == [file EXCEPT !.status = "stopped", !.cancelled = FALSE] IN
          IF ctx.cleaned THEN [stopped EXCEPT !.journal = NoJournal, !.path = NoPath] ELSE stopped,
          "stopComplete")

StopComplete == Settle("stopComplete", Completed(me), "stopRelease")
StopRelease  == Write("stopRelease", Released(file, ~ctx.cleaned), "idle")

(***************************************************************************)
(* finishFailure, also reached after a roll-back.                          *)
(***************************************************************************)
FailClaim ==
    Claim("failClaim", [file EXCEPT !.phase = "committing", !.failing = TRUE], "failClean")

FailClean == TryUnlink("failClean", ScratchOf(me), "failPersist")

FailPersist ==
    Write("failPersist",
          IF ctx.cleaned
          THEN [WithResult("failed", NoPath) EXCEPT !.journal = NoJournal, !.path = NoPath]
          ELSE WithResult("failed", NoPath),
          "failJob")

\* The end of a failure, the same at boot.
FailJob       == Settle("failJob", Failed(me), "failAggregate")
FailAggregate == Write("failAggregate", [file EXCEPT !.status = Aggregate(me)], "failRelease")

\* The steps before it make the gate pass; an owner it refused would be stuck
\* here, which OwnerReleased excludes.
FailRelease ==
    LET keepPath == life = "up" /\ ~ctx.cleaned IN
    /\ FailedOwnerCanRelease(me, keepPath)
    /\ Write("failRelease", Released(file, keepPath), IF life = "boot" THEN "stuck" ELSE "idle")

-----------------------------------------------------------------------------
(***************************************************************************)
(* recoverFinalizationError, and the roll-back it shares with boot:        *)
(* reconcileAdjacentFilesystem and reconcileOverwriteFilesystem.           *)
(***************************************************************************)
\* Nothing throws once the journal says committed (a failed database write is
\* not modelled), so only the roll-back is reached while the monitor is up.
HandleError ==
    Branch("error", IF file.journal = NoJournal THEN "failClaim" ELSE "undo")

\* Only a final name that shares its inode with the scratch is the task's own.
OwnFinal(j) == j \in disk.scratch /\ disk.final = j

UndoFinal ==
    /\ mode = "adjacent"
    /\ Call("undo", IF OwnFinal(me) THEN [disk EXCEPT !.final = "none"] ELSE disk,
            "undoScratch", "undoFailed")

RestoreNothing == mode = "overwrite" /\ Call("undo", disk, "undoScratch", "undoFailed")
RestoreBackup ==
    /\ mode = "overwrite"
    /\ Call("undo", IF me \in disk.backup THEN Restored(me) ELSE disk,
            "undoScratch", "undoFailed")

FailureFinalizing ==
    file.owner = file.journal.job /\ file.phase = "committing" /\ file.failing

UndoScratch ==
    Call("undoScratch", Without(ScratchOf(me)),
         CASE life = "up" -> "failClaim"
           [] life = "boot" /\ FailureFinalizing -> "recoverFailure"
           [] OTHER -> "failInterrupted",
         "undoFailed")

\* What could not be undone keeps its owner and its journal.
UndoFailed ==
    \/ life = "up" /\ Write("undoFailed", [file EXCEPT !.status = "failed"], "failUndone")
    \/ life = "boot" /\ Branch("undoFailed", "bootError")
FailUndone == Settle("failUndone", Failed(me), "idle")

-----------------------------------------------------------------------------
(***************************************************************************)
(* The crash, and startup: processing.initialize, then recoverInterrupted- *)
(* Jobs.  No request, runner or loop is served before it is over.          *)
(***************************************************************************)
Crash ==
    /\ life # "down" /\ crashes < MaxCrashes
    /\ crashes' = crashes + 1
    /\ life' = "down" /\ pc' = "idle" /\ ctx' = NoCtx
    /\ UNCHANGED <<mode, file, job, disk, faults>>

CrashedTask == IF file.journal = NoJournal THEN file.owner ELSE file.journal.job

\* adjacentRecoveryAction and overwriteRecoveryAction.
RolledForwardOnceCleaned == file.journal.phase = "cleaned"
RolledForward == file.journal.phase \in {"committed", "cleaned"}

\* recoverAdjacentJournals or recoverOverwriteJournals starts.
Boot ==
    /\ life = "down" /\ life' = "boot"
    /\ ctx' = [NoCtx EXCEPT !.job = CrashedTask]
    /\ pc' = CASE file.journal = NoJournal -> "stuck"
               [] file.journal # NoJournal /\ RolledForward /\ ~FailureFinalizing -> "statOutput"
               [] OTHER -> "undo"
    /\ UNCHANGED <<mode, file, job, disk, crashes, faults>>

\* rollForwardAdjacent and rollForwardOverwrite start with a stat of the
\* output; the steps that follow are those of finalization.
StatOutput == Call("statOutput", disk, "persist", "bootError")

\* recoverFailureFinalization persists the failure and goes on to fail the job.
RecoverFailure ==
    Write("recoverFailure",
          [WithResult("failed", NoPath) EXCEPT !.journal = NoJournal, !.path = NoPath],
          "failJob")

\* rollBackAdjacent and rollBackOverwrite.
FailInterrupted == Settle("failInterrupted", Failed(me), "unjournalUndone")

UnjournalUndone ==
    Write("unjournalUndone",
          [file EXCEPT !.status = IF StopWon THEN "stopped" ELSE "queued", !.cancelled = FALSE,
                       !.journal = NoJournal, !.path = NoPath],
          "releaseUndone")

ReleaseUndone ==
    Write("releaseUndone", IF file.owner = me THEN Released(file, FALSE) ELSE file,
          "aggregateUndone")

AggregateUndone ==
    Write("aggregateUndone", [file EXCEPT !.status = Aggregate(NoJob)], "stuck")

\* The catch of recoverAdjacentJournals and recoverOverwriteJournals.
BootError ==
    Write("bootError",
          [file EXCEPT !.status = IF StopWon THEN "stopped" ELSE "failed",
                       !.path = IF mode = "overwrite" /\ me \in disk.backup
                                THEN BackupOf(me) ELSE ScratchOf(me)],
          "stuck")

(***************************************************************************)
(* recoverStuckFiles.                                                      *)
(***************************************************************************)
CommittingResidue ==
    file.owner # NoJob /\ file.phase = "committing" /\ file.journal = NoJournal

ReadStuck ==
    /\ pc = "stuck"
    /\ ctx' = [NoCtx EXCEPT !.job = file.owner, !.seen = file.status]
    /\ pc' = IF CommittingResidue THEN "removeResidue" ELSE "readInterrupted"
    /\ Steady /\ UNCHANGED <<file, job, disk, faults>>

RemoveResidue ==
    \/ /\ file.path = NoPath
       /\ Branch("removeResidue", IF file.failing THEN "failResidue" ELSE "releaseResidue")
    \/ /\ file.path # NoPath
       /\ TryUnlink("removeResidue", file.path, "forgetResidue")

ForgetResidue ==
    \/ /\ ctx.cleaned
       /\ Write("forgetResidue", [file EXCEPT !.path = NoPath],
                IF file.failing THEN "failResidue" ELSE "releaseResidue")
    \/ ~ctx.cleaned /\ Branch("forgetResidue", "readInterrupted")

FailResidue      == Settle("failResidue", Failed(me), "aggregateResidue")
AggregateResidue ==
    Write("aggregateResidue", [file EXCEPT !.status = Aggregate(me)], "releaseResidue")

ResidueTerminalOnly == ~file.failing /\ TerminalOwnerCanRelease(me)
ResidueCanRelease ==
    FailedOwnerCanRelease(me, FALSE) \/ (~file.failing /\ TerminalOwnerCanRelease(me))

ReleaseResidue ==
    \/ ResidueCanRelease /\ Write("releaseResidue", Released(file, FALSE), "jobs")
    \/ ~ResidueCanRelease /\ Branch("releaseResidue", "readInterrupted")

\* Any other processing or stopped file without a journal: its path is removed.
ReadInterrupted ==
    \/ /\ ctx.seen \in {"processing", "stopped"} /\ file.journal = NoJournal
       /\ TryUnlink("readInterrupted", file.path,
                    IF file.owner = NoJob THEN "requeueUnowned" ELSE "failOwner")
    \/ /\ ~(ctx.seen \in {"processing", "stopped"} /\ file.journal = NoJournal)
       /\ Branch("readInterrupted", "jobs")

\* A file nobody owns, the stopped ones included, goes back to the aggregate.
\* Without a journal it names no path, so no removal has failed before it.
RequeueUnowned ==
    /\ ctx.cleaned
    /\ Write("requeueUnowned", [file EXCEPT !.status = "queued", !.path = NoPath],
             "aggregateUnowned")
AggregateUnowned ==
    Write("aggregateUnowned", [file EXCEPT !.status = Aggregate(NoJob)], "jobs")

FailOwner    == Settle("failOwner", Failed(me), "releaseOwner")
ReleaseOwner == Write("releaseOwner", Released(file, ~ctx.cleaned), "settleOwner")
SettleOwner  ==
    Write("settleOwner",
          IF ctx.seen = "stopped" THEN [file EXCEPT !.status = "stopped", !.cancelled = FALSE]
          ELSE [file EXCEPT !.status = Aggregate(NoJob)],
          "jobs")

(***************************************************************************)
(* recoverInterruptedJobs, then the loop starts and a scan is enqueued.    *)
(***************************************************************************)
CompletedBeforeCrash ==
    /\ file.owner = NoJob
    /\ file.status \in {"transcoded", "replaced"}
    /\ file.result.status \in {"done", "replaced"}

RecoverInterruptedJob(j) ==
    /\ job[j] = "running"
    /\ Settle("jobs", IF CompletedBeforeCrash THEN Completed(j) ELSE Failed(j), "jobs")

Ready ==
    /\ pc = "jobs" /\ \A j \in Attempts : job[j] # "running"
    /\ life' = "up" /\ pc' = "idle" /\ ctx' = NoCtx
    /\ UNCHANGED <<mode, file, job, disk, crashes, faults>>

-----------------------------------------------------------------------------
(***************************************************************************)
(* The user.                                                               *)
(***************************************************************************)
StopOwnedLate ==
    /\ life = "up" /\ file.status = "processing" /\ file.owner # NoJob
    /\ file' = [file EXCEPT !.status = "stopped", !.cancelled = TRUE]
    /\ Steady /\ UNCHANGED <<job, disk, pc, ctx, faults>>

\* A stop of an owned file flags it and leaves its job to finishStopped.
StopOwned ==
    /\ life = "up" /\ file.status = "processing"
    /\ file.owner # NoJob /\ file.phase \in {"processing", "finalizing"}
    /\ file' = [file EXCEPT !.status = "stopped", !.cancelled = TRUE]
    /\ Steady /\ UNCHANGED <<job, disk, pc, ctx, faults>>

\* A stop of a queued file: the status first, then its pending job.
StopQueued ==
    /\ life = "up" /\ file.status = "queued" /\ file.owner = NoJob
    /\ Write("idle", [file EXCEPT !.status = "stopped"], "stopJobs")
StopJobs ==
    Settle("stopJobs", [j \in Attempts |-> IF Active(j) THEN "failed" ELSE job[j]], "idle")

\* A file of the user takes the final name, which the scan has not seen yet.
UserCreatesFinal ==
    /\ mode = "adjacent" /\ disk.final = "none"
    /\ disk' = [disk EXCEPT !.final = "other"]
    /\ UNCHANGED <<mode, file, job, life, pc, ctx, crashes, faults>>

-----------------------------------------------------------------------------
Attempt ==
    \/ \E j \in Attempts : ClaimJob(j)
    \/ PrepareCollision \/ FailCollided \/ RecountCollided \/ PrepareClaim \/ PrepareDefer
    \/ RunnerWrites \/ ResultCancelled \/ ResultError \/ ResultOk

ToCommitPoint == ClaimFinalizing \/ Validate \/ Filter \/ ClaimCommitting

FinishAdjacent ==
    \/ Promote \/ LinkFinal \/ ValidateFinal \/ JournalCommitted
    \/ PersistOutput \/ CompleteOutput \/ AggregateOutput \/ JournalCleaned
    \/ UnlinkScratch \/ UnjournalScratch \/ ReleaseOutput

FinishOverwrite ==
    \/ Replace \/ RenameToBackup \/ RenameOutput \/ RenameBack \/ StatSource
    \/ MarkReplaced \/ UnlinkBackup \/ ReleaseReplaced \/ EraseJournal

FinishRejected ==
    \/ ValidateRejected \/ DeleteRejected \/ PersistRejected \/ CompleteRejected
    \/ AggregateRejected \/ UnjournalRejected \/ ReleaseRejected

FinishStopped == StopClean \/ StopWrite \/ StopComplete \/ StopRelease

FinishFailure ==
    \/ FailClaim \/ FailClean \/ FailPersist \/ FailJob \/ FailAggregate \/ FailRelease

RollBack ==
    \/ HandleError \/ UndoFinal \/ RestoreBackup \/ UndoScratch \/ UndoFailed \/ FailUndone

Finalize ==
    \/ ToCommitPoint \/ FinishAdjacent \/ FinishOverwrite \/ FinishRejected
    \/ FinishStopped \/ FinishFailure \/ RollBack

RecoverJournal ==
    \/ Boot \/ StatOutput \/ RecoverFailure
    \/ FailInterrupted \/ UnjournalUndone \/ ReleaseUndone \/ AggregateUndone \/ BootError

RecoverStuckFile ==
    \/ ReadStuck \/ RemoveResidue \/ ForgetResidue \/ FailResidue \/ AggregateResidue
    \/ ReleaseResidue \/ ReadInterrupted \/ RequeueUnowned \/ AggregateUnowned
    \/ FailOwner \/ ReleaseOwner \/ SettleOwner

RecoverJobs == (\E j \in Attempts : RecoverInterruptedJob(j)) \/ Ready

Startup == RecoverJournal \/ RecoverStuckFile \/ RecoverJobs

User == StopOwned \/ StopQueued \/ StopJobs \/ UserCreatesFinal

Next ==
    \/ \E j \in Attempts : Enqueue(j)
    \/ Attempt \/ Finalize \/ Startup
    \/ User \/ Crash

Spec == Init /\ [][Next]_vars

(***************************************************************************)
(* Fairness.  A procedure that runs goes on to its end, ffmpeg reports,    *)
(* and the container restarts a monitor that died (restart: unless-stopped *)
(* in README.md).  Users, scans, crashes and faults are not fair.          *)
(***************************************************************************)
FairSpec == Spec /\ WF_vars(Attempt \/ Finalize \/ Startup \/ StopJobs)

-----------------------------------------------------------------------------
(***************************************************************************)
(* Properties.                                                             *)
(***************************************************************************)
Resting == life = "up" /\ pc = "idle" /\ \A j \in Attempts : ~Active(j)
Unowned == file.owner = NoJob /\ file.journal = NoJournal

\* The original is in its place, or a backup that the journal names holds it,
\* or an output whose commit is durable has replaced it: no crash between the
\* two renames and no failed rename loses it (finishOverwriteSuccess).
OriginalRecoverable ==
    \/ disk.source = "original"
    \/ file.journal.phase = "promoting" /\ file.journal.job \in disk.backup
    \/ /\ disk.source \in Attempts
       /\ file.journal.phase \in {"committed", "cleaned"} \/ file.result.status = "replaced"

\* Whatever the monitor left in the directory is named by the document, so a
\* scan never ingests a scratch or a backup as a source (processing.js:637).
LeftoversNamed ==
    /\ \A j \in disk.scratch :
          ScratchOf(j) \in {file.path, file.result.path} \/ file.journal.job = j
    /\ \A j \in disk.backup : file.path = BackupOf(j) \/ file.journal.job = j

\* When nothing runs and nobody owns the file, the recorded result and the
\* status say what is at the source and at the output's place: a published output
\* is there, an unpublished one is not.  What else is left, a rejected output kept
\* as scratch among it, is LeftoversNamed's.
RestingDiskAgrees ==
    Resting /\ Unowned =>
        /\ disk.source = "original" <=> file.result.status # "replaced"
        /\ file.result.path = FinalPath => disk.final \in Attempts
        /\ disk.final \in Attempts => file.result.path = FinalPath
        /\ file.status = "transcoded" <=> file.result.status = "done"
        /\ file.status = "replaced" <=> file.result.status = "replaced"

\* What an owner that is left leaves for the next startup to work from.
KeptForStartup == file.journal.job = file.owner \/ file.path # NoPath

\* No startup can tell whose the file is any more: the crash of a startup came
\* between the write that requeues a rolled-back file and its release, or a
\* startup could not stat a committed output and failed its job.
Stranded ==
    /\ file.owner # NoJob /\ ~KeptForStartup /\ job[file.owner] = "failed"
    /\ file.status = "queued" \/ file.result.path = FinalPath

\* When nothing runs, no job is left running, and an owner that is left has
\* what the next startup releases it by; the two ways in which it is left
\* without one (Stranded, OwnerNotStranded) apart.
NothingHalfOwned ==
    life = "up" /\ pc = "idle" /\ ~Stranded =>
        /\ \A j \in Attempts : job[j] # "running"
        /\ file.owner # NoJob => KeptForStartup

\* No owner is left that a later startup could not release ("strand
\* activeJobId forever", job.js:192).
OwnerNotStranded ==
    life = "up" /\ pc = "idle" /\ file.owner # NoJob => KeptForStartup

\* A file the user put at the final name is never replaced or removed
\* (promoteAdjacentScratch, sameFileIdentity).
ForeignFinalKept == [][disk.final = "other" => disk'.final = "other"]_disk

\* No attempt is made on a source that an output has replaced
\* (processing.js:652).
OnlyOriginalsTranscoded ==
    [][file'.owner # NoJob /\ file'.owner # file.owner => disk.source = "original"]_file

\* The outcome, as OutputPromise sees it.
Published ==
    \/ file.result.status \in {"done", "replaced"}
    \/ /\ file.journal.phase \in {"committed", "cleaned"}
       /\ mode = "overwrite" \/ file.journal.res = "done"
Refused ==
    \/ file.result.status \in {"rejected", "failed"}
    \/ file.journal.phase \in {"committed", "cleaned"}

outcomeOf  == IF Published THEN "published" ELSE IF Refused THEN "refused" ELSE "open"
originalOf == disk.source = "original" \/ disk.backup # {}

Promise == INSTANCE OutputPromise WITH outcome <- outcomeOf, original <- originalOf

\* The steps, crashes and recoveries implement the promise: one decision, and
\* the original is discarded for a published output only.
PromiseSpec == Promise!Spec

\* Every owner lets go of the file, unless it waits for the next startup with
\* what could not be undone, or is stranded.
OwnerReleased ==
    \A j \in Attempts :
        file.owner = j ~>
            \/ file.owner # j
            \/ life = "up" /\ pc = "idle" /\ (KeptForStartup \/ Stranded)

\* A stop the user was told about is not undone by a restart (finalize.js:87).
StopSurvivesRestart == [][file.status = "stopped" => file'.status = "stopped"]_file

\* A rejected output that the result names is on disk: "By default rejected
\* outputs are kept on disk." (lib/strings.js:338).
RejectedOutputKept ==
    Resting /\ Unowned /\ file.result.status = "rejected" =>
        \A j \in Attempts : file.result.path = ScratchOf(j) => j \in disk.scratch
=============================================================================
