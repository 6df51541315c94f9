------------------------- MODULE OutputCommitProofs -------------------------
(***************************************************************************)
(* OutputCommit for any number of attempts, crashes and failing filesystem *)
(* calls: every step keeps the types, no step replaces or removes a file   *)
(* the user put at the final name, the original is never lost, no attempt  *)
(* is made on a source that an output has replaced, and the whole          *)
(* implements OutputPromise: the outcome is decided once, and the original *)
(* is discarded for a published output only.                               *)
(*                                                                         *)
(* None of these is inductive. The invariant is built in three layers,     *)
(* each with what the next one needs: Typed (types, and whose journal it   *)
(* is), Safe (journal, source, result and active jobs by position),        *)
(* Decided (what a result admits, what a backup path goes with, which      *)
(* release may be refused).                                                *)
(***************************************************************************)
EXTENDS OutputCommit, TLAPS

(***************************************************************************)
(* The first layer: types, and the journal's attempt.                      *)
(***************************************************************************)
\* The positions at which the procedure works for no attempt of its own.
Detached == {"idle", "stopJobs", "stuck", "removeResidue", "forgetResidue", "failResidue",
             "aggregateResidue", "releaseResidue", "readInterrupted", "requeueUnowned",
             "aggregateUnowned", "failOwner", "releaseOwner", "settleOwner", "jobs"}

\* The positions from the claim of the file to the last write into the journal.
Journaling == {"transcode", "finalize", "validate", "filter", "commit", "promote", "link",
               "linked", "replace", "renameToBackup", "renameOutput", "statSource",
               "statOutput", "journalCommitted", "persist", "markReplaced", "complete",
               "aggregate", "journalCleaned", "reject", "deleteRejected", "persistRejected"}

\* Elsewhere the procedure works for an attempt, and while it writes into the
\* journal, the journal is that attempt's.
Placed ==
    /\ pc \notin Detached => me \in Attempts
    /\ pc \in Journaling => file.journal.job = me

Typed == TypeOK /\ Placed

-----------------------------------------------------------------------------
(***************************************************************************)
(* The values the steps write.                                             *)
(***************************************************************************)
\* Scratch and backup names of an attempt are paths, and so is none.
LEMMA PathTypes ==
    /\ NoPath \in Paths /\ FinalPath \in Paths
    /\ \A j \in Attempts : ScratchOf(j) \in Paths /\ BackupOf(j) \in Paths
  BY DEF Paths, NoPath, FinalPath, ScratchOf, BackupOf

\* A journal is a record, whichever of its two kinds it is.
LEMMA JournalRecord ==
    ASSUME TypeOK
    PROVE  file.journal \in [job : Holders, res : {"done", "rejected"},
                             phase : {"none", "prepared", "promoting", "committed", "cleaned"}]
  BY DEF TypeOK, FileType, Journals, NoJournal, Holders

\* A journal that names an attempt can be moved on to any phase and result.
LEMMA JournalTypes ==
    ASSUME TypeOK, file.journal.job \in Attempts,
           NEW phase \in {"promoting", "committed", "cleaned"}, NEW res \in {"done", "rejected"}
    PROVE  /\ file.journal.res \in {"done", "rejected"}
           /\ [file EXCEPT !.journal = [@ EXCEPT !.phase = phase]] \in FileType
           /\ [file EXCEPT !.phase = "committing", !.journal = [@ EXCEPT !.phase = phase]]
                 \in FileType
           /\ [file EXCEPT !.phase = "committing",
                           !.journal = [@ EXCEPT !.phase = phase, !.res = res]] \in FileType
  <1>1. file.journal \in [job : Attempts, res : {"done", "rejected"},
                          phase : {"prepared", "promoting", "committed", "cleaned"}]
    BY CommitAssumption DEF TypeOK, FileType, Journals, NoJournal
  <1> QED
    BY <1>1 DEF TypeOK, FileType, Journals

\* Recording a result leaves a file document.
LEMMA ResultTypes ==
    ASSUME TypeOK, NEW status \in {"done", "replaced", "rejected", "failed"}, NEW path \in Paths
    PROVE  WithResult(status, path) \in FileType
  BY DEF TypeOK, WithResult, FileType, Results

\* So does erasing the journal with the path.
LEMMA ErasedTypes ==
    ASSUME NEW f \in FileType
    PROVE  [f EXCEPT !.journal = NoJournal, !.path = NoPath] \in FileType
  BY PathTypes DEF FileType, Journals, NoJournal

\* The recount yields a status, whichever attempt it ignores.
LEMMA AggregateTypes ==
    ASSUME TypeOK, NEW j PROVE Aggregate(j) \in Statuses
  BY DEF TypeOK, Aggregate, FileType, Results, Statuses

\* A release, whichever path it keeps, leaves a file document.
LEMMA ReleasedTypes ==
    ASSUME NEW f \in FileType, NEW keepPath \in BOOLEAN
    PROVE  Released(f, keepPath) \in FileType /\ Released(f, keepPath).journal = f.journal
  BY PathTypes DEF Released, FileType, Holders

\* completeIfRunning and failIfActive leave every attempt a job status.
LEMMA JobTypes ==
    ASSUME TypeOK, NEW j PROVE Completed(j) \in JobType /\ Failed(j) \in JobType
  BY DEF TypeOK, JobType, Completed, Failed

\* The renames, the links and the unlinks leave a directory.
LEMMA DiskTypes ==
    ASSUME TypeOK
    PROVE  /\ \A path \in Paths : Without(path) \in DiskType
           /\ \A j \in Attempts :
                /\ [disk EXCEPT !.source = "none", !.backup = @ \union {j}] \in DiskType
                /\ [disk EXCEPT !.source = j, !.scratch = @ \ {j}] \in DiskType
                /\ [disk EXCEPT !.scratch = @ \union {j}] \in DiskType
                /\ [disk EXCEPT !.final = j] \in DiskType
           /\ \A j : Restored(j) \in DiskType
           /\ [disk EXCEPT !.final = "none"] \in DiskType
           /\ [disk EXCEPT !.final = "other"] \in DiskType
  BY DEF TypeOK, DiskType, Without, Restored, Paths

\* A call that fails is counted within its bound.
LEMMA FaultTypes ==
    ASSUME TypeOK, UNCHANGED faults \/ (faults < MaxFaults /\ faults' = faults + 1)
    PROVE  faults' \in 0..MaxFaults
  BY CommitAssumption DEF TypeOK

\* What a step owes to keep the types and the place.
LEMMA TypedStep ==
    ASSUME Typed, UNCHANGED <<mode, life, crashes>>,
           UNCHANGED faults \/ (faults < MaxFaults /\ faults' = faults + 1),
           file' \in FileType, job' \in JobType, disk' \in DiskType, ctx' \in CtxType,
           pc' \notin Detached => pc \notin Detached /\ ctx'.job = ctx.job,
           pc' \in Journaling =>
              pc \in Journaling /\ file'.journal.job = file.journal.job /\ ctx'.job = ctx.job
    PROVE  Typed'
  <1>1. TypeOK'
    BY FaultTypes DEF Typed, TypeOK
  <1>2. Placed'
    BY DEF Typed, Placed, me
  <1> QED
    BY <1>1, <1>2 DEF Typed

\* A write of the file document keeps the types if it writes a document.
LEMMA WriteStep ==
    ASSUME Typed, UNCHANGED <<mode, life, crashes, job, disk, ctx, faults>>, file' \in FileType,
           pc' \notin Detached => pc \notin Detached,
           pc' \in Journaling => pc \in Journaling /\ file'.journal.job = file.journal.job
    PROVE  Typed'
  BY TypedStep DEF Typed, TypeOK

\* A decision or a write of a job keeps the types if it leaves job statuses.
LEMMA JobStep ==
    ASSUME Typed, UNCHANGED <<mode, life, crashes, file, disk, ctx, faults>>, job' \in JobType,
           pc' \notin Detached => pc \notin Detached,
           pc' \in Journaling => pc \in Journaling
    PROVE  Typed'
  BY TypedStep DEF Typed, TypeOK

\* A filesystem call keeps the types if it leaves a directory.
LEMMA CallStep ==
    ASSUME Typed, UNCHANGED <<mode, life, crashes, file, job>>,
           UNCHANGED faults \/ (faults < MaxFaults /\ faults' = faults + 1),
           disk' \in DiskType,
           ctx' \in {ctx, [ctx EXCEPT !.cleaned = TRUE], [ctx EXCEPT !.cleaned = FALSE]},
           pc' \notin Detached => pc \notin Detached,
           pc' \in Journaling => pc \in Journaling
    PROVE  Typed'
  <1>1. ctx' \in CtxType /\ ctx'.job = ctx.job
    BY DEF Typed, TypeOK, CtxType
  <1> QED
    BY <1>1, TypedStep DEF Typed, TypeOK

\* What the write that claims a promotion writes.
LEMMA PromoteWrites ==
    ASSUME TypeOK, Promote, ~StopWon
    PROVE  /\ pc = "promote" /\ pc' = "link" /\ UNCHANGED <<mode, job, disk, ctx>>
           /\ UNCHANGED <<file.status, file.failing, file.result, file.path,
                          file.journal.job>>
           /\ file'.journal.phase = "promoting"
  <1>1. /\ pc = "promote" /\ pc' = "link" /\ UNCHANGED <<mode, job, disk, ctx>>
        /\ file' = [file EXCEPT !.phase = "committing",
                                !.journal = [file.journal EXCEPT
                                    !.phase = "promoting",
                                    !.res = IF ctx.verdict = "pass" THEN "done" ELSE "rejected"]]
    BY DEF TypeOK, Promote, Claim, Write, Branch, Steady, FileType
  <1>2. file'.journal = [file.journal EXCEPT
                             !.phase = "promoting",
                             !.res = IF ctx.verdict = "pass" THEN "done" ELSE "rejected"]
    BY <1>1 DEF TypeOK, FileType
  <1> QED
    BY <1>1, <1>2, JournalRecord DEF TypeOK, FileType

\* What the write that claims a replacement writes.
LEMMA ReplaceWrites ==
    ASSUME TypeOK, Replace, ~StopWon
    PROVE  /\ pc = "replace" /\ pc' = "renameToBackup" /\ UNCHANGED <<mode, job, disk, ctx>>
           /\ UNCHANGED <<file.status, file.failing, file.result, file.path,
                          file.journal.job>>
           /\ file'.journal.phase = "promoting"
  <1>1. /\ pc = "replace" /\ pc' = "renameToBackup" /\ UNCHANGED <<mode, job, disk, ctx>>
        /\ file' = [file EXCEPT !.phase = "committing",
                                !.journal = [file.journal EXCEPT !.phase = "promoting"]]
    BY DEF TypeOK, Replace, Claim, Write, Branch, Steady, FileType
  <1>2. file'.journal = [file.journal EXCEPT !.phase = "promoting"]
    BY <1>1 DEF TypeOK, FileType
  <1> QED
    BY <1>1, <1>2, JournalRecord DEF TypeOK, FileType

\* What the write that commits the output writes.
LEMMA CommitWrites ==
    ASSUME TypeOK, JournalCommitted
    PROVE  /\ pc = "journalCommitted" /\ pc' = "persist" /\ UNCHANGED <<mode, job, disk, ctx>>
           /\ UNCHANGED <<file.status, file.failing, file.result, file.path,
                          file.journal.job>>
           /\ file'.journal.phase = "committed"
  BY JournalRecord DEF TypeOK, JournalCommitted, Write, Steady, FileType

\* What the write that lets the cleanup begin writes.
LEMMA CleanWrites ==
    ASSUME TypeOK, JournalCleaned
    PROVE  /\ pc = "journalCleaned" /\ UNCHANGED <<mode, job, disk, ctx>>
           /\ pc' = IF mode = "overwrite" THEN "unlinkBackup" ELSE "unlinkScratch"
           /\ UNCHANGED <<file.status, file.failing, file.result, file.path,
                          file.journal.job>>
           /\ file'.journal.phase = "cleaned"
  BY JournalRecord DEF TypeOK, JournalCleaned, Write, Steady, FileType

-----------------------------------------------------------------------------
(***************************************************************************)
(* The steps.                                                              *)
(***************************************************************************)
\* Every step keeps the types and the place of the procedure.
LEMMA TypedKept == ASSUME Typed, [Next]_vars PROVE Typed'
  <1> USE CommitAssumption DEF Typed, Placed, TypeOK, Detached, Journaling, me,
    Steady, Write, Settle, Branch, Claim, Call, TryUnlink, StopWon
  <1>1. CASE Attempt
    <2>1. ASSUME NEW j \in Attempts, ClaimJob(j) PROVE Typed'
      <3>1. /\ UNCHANGED <<mode, file, disk, life, crashes, faults>>
            /\ job' \in JobType /\ ctx' \in CtxType
        BY <2>1 DEF ClaimJob, JobType, CtxType, NoCtx, Holders, Statuses
      <3>2. pc' = "prepare" /\ ctx'.job = j
        BY <2>1 DEF ClaimJob, NoCtx
      <3> QED
        BY <3>1, <3>2
    <2>2. CASE PrepareCollision
      BY <2>2, WriteStep, ResultTypes, PathTypes DEF PrepareCollision, FileType, Statuses
    <2>3. CASE FailCollided
      BY <2>3, JobStep, JobTypes DEF FailCollided
    <2>4. CASE RecountCollided
      BY <2>4, WriteStep, AggregateTypes DEF RecountCollided, FileType
    <2>5. CASE PrepareClaim
      <3>1. me \in Attempts /\ UNCHANGED <<mode, job, disk, life, ctx, crashes, faults>>
        BY <2>5 DEF PrepareClaim
      <3>2. file' \in FileType /\ file'.journal.job = me
        BY <2>5, <3>1, PathTypes DEF PrepareClaim, FileType, Journals, Statuses, Holders
      <3>3. TypeOK'
        BY <3>1, <3>2
      <3>4. Placed'
        BY <3>1, <3>2
      <3> QED
        BY <3>3, <3>4
    <2>6. CASE PrepareDefer
      BY <2>6, JobStep, JobTypes DEF PrepareDefer
    <2>7. CASE RunnerWrites
      BY <2>7, CallStep, DiskTypes, PathTypes DEF RunnerWrites
    <2>8. CASE ResultCancelled
      BY <2>8, JobStep, JobTypes DEF ResultCancelled
    <2>9. CASE ResultError
      BY <2>9, JobStep, JobTypes DEF ResultError
    <2>10. CASE ResultOk
      BY <2>10, JobStep, JobTypes DEF ResultOk
    <2> QED
      BY <1>1, <2>1, <2>2, <2>3, <2>4, <2>5, <2>6, <2>7, <2>8, <2>9, <2>10 DEF Attempt
  <1>2. CASE ToCommitPoint
    <2>1. CASE ClaimFinalizing
      BY <2>1, WriteStep, JobStep DEF ClaimFinalizing, FileType, Statuses
    <2>2. CASE Validate
      BY <2>2, JobStep, JobTypes DEF Validate
    <2>3. CASE Filter
      BY <2>3 DEF Filter, CtxType
    <2>4. CASE ClaimCommitting
      BY <2>4, WriteStep, JobStep DEF ClaimCommitting, FileType, Statuses
    <2> QED
      BY <1>2, <2>1, <2>2, <2>3, <2>4 DEF ToCommitPoint
  <1>3. CASE FinishAdjacent
    <2>1. CASE Promote
      <3>1. CASE StopWon
        BY <2>1, <3>1, JobStep DEF Promote
      <3>2. CASE ~StopWon
        <4>1. file.journal.job \in Attempts
          BY <2>1, <3>2 DEF Promote
        <4>2. file' \in FileType
          BY <2>1, <3>2, <4>1, JournalTypes DEF Promote
        <4> QED
          BY <2>1, <3>2, <4>2, WriteStep, PromoteWrites DEF Promote
      <3> QED
        BY <3>1, <3>2
    <2>2. CASE LinkFinal
      BY <2>2, JobStep, CallStep, DiskTypes, PathTypes DEF LinkFinal
    <2>3. CASE ValidateFinal
      BY <2>3, CallStep, DiskTypes, PathTypes DEF ValidateFinal
    <2>4. CASE JournalCommitted
      <3>1. file.journal.job \in Attempts
        BY <2>4 DEF JournalCommitted
      <3>2. file' \in FileType
        BY <2>4, <3>1, JournalTypes DEF JournalCommitted
      <3> QED
        BY <2>4, <3>2, WriteStep, CommitWrites DEF JournalCommitted
    <2>5. CASE PersistOutput
      BY <2>5, WriteStep, ResultTypes, PathTypes, JournalTypes DEF PersistOutput,
        WithResult, FileType, Statuses
    <2>6. CASE CompleteOutput
      BY <2>6, JobStep, JobTypes DEF CompleteOutput
    <2>7. CASE AggregateOutput
      BY <2>7, WriteStep, AggregateTypes DEF AggregateOutput, FileType, Statuses
    <2>8. CASE JournalCleaned
      <3>1. file.journal.job \in Attempts
        BY <2>8 DEF JournalCleaned
      <3>2. file' \in FileType
        BY <2>8, <3>1, JournalTypes DEF JournalCleaned
      <3> QED
        BY <2>8, <3>2, WriteStep, CleanWrites DEF JournalCleaned
    <2>9. CASE UnlinkScratch
      BY <2>9, CallStep, JobStep, DiskTypes, PathTypes DEF UnlinkScratch
    <2>10. CASE UnjournalScratch
      BY <2>10, WriteStep, PathTypes DEF UnjournalScratch, Journals, NoJournal, FileType,
        Statuses
    <2>11. CASE ReleaseOutput
      <3>1. \A keepPath \in BOOLEAN :
              /\ Released(file, keepPath) \in FileType
              /\ Released(file, keepPath).journal = file.journal
        BY ReleasedTypes
      <3> QED
        BY <2>11, <3>1, WriteStep, JobStep DEF ReleaseOutput, CtxType
    <2> QED
      BY <1>3, <2>1, <2>2, <2>3, <2>4, <2>5, <2>6, <2>7, <2>8, <2>9, <2>10, <2>11
        DEF FinishAdjacent
  <1>4. CASE FinishOverwrite
    <2>1. CASE Replace
      <3>1. CASE StopWon
        BY <2>1, <3>1, JobStep DEF Replace
      <3>2. CASE ~StopWon
        <4>1. file.journal.job \in Attempts
          BY <2>1, <3>2 DEF Replace
        <4>2. file' \in FileType
          BY <2>1, <3>2, <4>1, JournalTypes DEF Replace
        <4> QED
          BY <2>1, <3>2, <4>2, WriteStep, ReplaceWrites DEF Replace
      <3> QED
        BY <3>1, <3>2
    <2>2. CASE RenameToBackup
      BY <2>2, CallStep, DiskTypes, PathTypes DEF RenameToBackup
    <2>3. CASE RenameOutput
      BY <2>3, CallStep, DiskTypes, PathTypes DEF RenameOutput
    <2>4. CASE RenameBack
      BY <2>4, CallStep, DiskTypes, PathTypes DEF RenameBack
    <2>5. CASE StatSource
      BY <2>5, CallStep, DiskTypes, PathTypes DEF StatSource
    <2>6. CASE MarkReplaced
      BY <2>6, WriteStep DEF MarkReplaced, FileType, Statuses
    <2>7. CASE UnlinkBackup
      BY <2>7, CallStep, JobStep, DiskTypes, PathTypes DEF UnlinkBackup
    <2>8. CASE ReleaseReplaced
      BY <2>8, WriteStep, ReleasedTypes DEF ReleaseReplaced, Released, FileType, Statuses
    <2>9. CASE EraseJournal
      BY <2>9, WriteStep, PathTypes DEF EraseJournal, Journals, NoJournal, FileType,
        Statuses
    <2> QED
      BY <1>4, <2>1, <2>2, <2>3, <2>4, <2>5, <2>6, <2>7, <2>8, <2>9 DEF FinishOverwrite
  <1>5. CASE FinishRejected
    <2>1. CASE ValidateRejected
      BY <2>1, CallStep, DiskTypes, PathTypes DEF ValidateRejected
    <2>2. CASE DeleteRejected
      BY <2>2, CallStep, DiskTypes, PathTypes DEF DeleteRejected
    <2>3. CASE PersistRejected
      BY <2>3, WriteStep, ResultTypes, PathTypes, JournalTypes DEF PersistRejected,
        WithResult, FileType, Statuses
    <2>4. CASE CompleteRejected
      BY <2>4, JobStep, JobTypes DEF CompleteRejected
    <2>5. CASE AggregateRejected
      BY <2>5, WriteStep, AggregateTypes DEF AggregateRejected, FileType, Statuses
    <2>6. CASE UnjournalRejected
      BY <2>6, WriteStep, PathTypes DEF UnjournalRejected, Journals, NoJournal, FileType,
        Statuses
    <2>7. CASE ReleaseRejected
      BY <2>7, WriteStep, ReleasedTypes DEF ReleaseRejected, Released, FileType, Statuses
    <2> QED
      BY <1>5, <2>1, <2>2, <2>3, <2>4, <2>5, <2>6, <2>7 DEF FinishRejected
  <1>6. CASE FinishStopped
    <2>1. CASE StopClean
      BY <2>1, CallStep, JobStep, DiskTypes, PathTypes DEF StopClean
    <2>2. CASE StopWrite
      BY <2>2, WriteStep, PathTypes DEF StopWrite, Journals, NoJournal, FileType, Statuses
    <2>3. CASE StopComplete
      BY <2>3, JobStep, JobTypes DEF StopComplete
    <2>4. CASE StopRelease
      BY <2>4, WriteStep, ReleasedTypes DEF StopRelease, Released, FileType, Statuses
    <2> QED
      BY <1>6, <2>1, <2>2, <2>3, <2>4 DEF FinishStopped
  <1>7. CASE FinishFailure
    <2>1. CASE FailClaim
      BY <2>1, WriteStep, JobStep DEF FailClaim, FileType, Statuses
    <2>2. CASE FailClean
      BY <2>2, CallStep, JobStep, DiskTypes, PathTypes DEF FailClean
    <2>3. CASE FailPersist
      <3>1. WithResult("failed", NoPath) \in FileType
        BY ResultTypes, PathTypes
      <3> QED
        BY <2>3, <3>1, ErasedTypes, WriteStep DEF FailPersist
    <2>4. CASE FailJob
      BY <2>4, JobStep, JobTypes DEF FailJob
    <2>5. CASE FailAggregate
      BY <2>5, WriteStep, AggregateTypes DEF FailAggregate, FileType, Statuses
    <2>6. CASE FailRelease
      BY <2>6, WriteStep, ReleasedTypes DEF FailRelease, Released, FileType, Statuses
    <2> QED
      BY <1>7, <2>1, <2>2, <2>3, <2>4, <2>5, <2>6 DEF FinishFailure
  <1>8. CASE RollBack
    <2>1. CASE HandleError
      BY <2>1, JobStep, JobTypes DEF HandleError
    <2>2. CASE UndoFinal
      BY <2>2, CallStep, DiskTypes, PathTypes DEF UndoFinal
    <2>3. CASE RestoreBackup
      BY <2>3, CallStep, DiskTypes, PathTypes DEF RestoreBackup
    <2>4. CASE UndoScratch
      BY <2>4, CallStep, DiskTypes, PathTypes DEF UndoScratch
    <2>5. CASE UndoFailed
      BY <2>5, WriteStep, JobStep DEF UndoFailed, FileType, Statuses
    <2>6. CASE FailUndone
      BY <2>6, JobStep, JobTypes DEF FailUndone
    <2> QED
      BY <1>8, <2>1, <2>2, <2>3, <2>4, <2>5, <2>6 DEF RollBack
  <1>9. CASE RecoverJournal
    <2>1. CASE Boot
      <3>1. CrashedTask \in Holders /\ (file.journal # NoJournal => CrashedTask \in Attempts)
        BY DEF CrashedTask, FileType, Journals, NoJournal, Holders
      <3>2. /\ UNCHANGED <<mode, file, job, disk, crashes, faults>> /\ life' = "boot"
            /\ ctx' \in CtxType /\ ctx'.job = CrashedTask
        BY <2>1, <3>1 DEF Boot, CtxType, NoCtx, Statuses
      <3>3. \/ pc' = "stuck"
            \/ pc' \in {"statOutput", "undo"} /\ file.journal # NoJournal
        BY <2>1 DEF Boot
      <3>4. pc' = "statOutput" => file.journal.job = CrashedTask
        BY <3>3 DEF CrashedTask
      <3> QED
        BY <3>1, <3>2, <3>3, <3>4
    <2>2. CASE StatOutput
      BY <2>2, CallStep, DiskTypes, PathTypes DEF StatOutput
    <2>3. CASE RecoverFailure
      <3>1. WithResult("failed", NoPath) \in FileType
        BY ResultTypes, PathTypes
      <3> QED
        BY <2>3, <3>1, ErasedTypes, WriteStep DEF RecoverFailure
    <2>4. CASE FailInterrupted
      BY <2>4, JobStep, JobTypes DEF FailInterrupted
    <2>5. CASE UnjournalUndone
      BY <2>5, WriteStep, PathTypes DEF UnjournalUndone, Journals, NoJournal, FileType,
        Statuses
    <2>6. CASE ReleaseUndone
      BY <2>6, WriteStep, ReleasedTypes DEF ReleaseUndone, Released, FileType, Statuses
    <2>7. CASE AggregateUndone
      BY <2>7, WriteStep, AggregateTypes DEF AggregateUndone, FileType, Statuses
    <2>8. CASE BootError
      BY <2>8, WriteStep, PathTypes DEF BootError, Journals, NoJournal, FileType, Statuses
    <2> QED
      BY <1>9, <2>1, <2>2, <2>3, <2>4, <2>5, <2>6, <2>7, <2>8 DEF RecoverJournal
  <1>10. CASE RecoverStuckFile
    <2>1. CASE ReadStuck
      <3>1. ctx' \in CtxType /\ pc' \in Detached
        BY <2>1 DEF ReadStuck, CtxType, NoCtx, FileType
      <3>2. UNCHANGED <<mode, life, crashes, file, job, disk, faults>>
        BY <2>1 DEF ReadStuck
      <3> QED
        BY <3>1, <3>2, TypedStep
    <2>2. CASE RemoveResidue
      <3>1. Without(file.path) \in DiskType
        BY DiskTypes DEF FileType
      <3> QED
        BY <2>2, <3>1, CallStep, JobStep DEF RemoveResidue
    <2>3. CASE ForgetResidue
      BY <2>3, WriteStep, JobStep, PathTypes DEF ForgetResidue, Journals, NoJournal,
        FileType, Statuses
    <2>4. CASE FailResidue
      BY <2>4, JobStep, JobTypes DEF FailResidue
    <2>5. CASE AggregateResidue
      BY <2>5, WriteStep, AggregateTypes DEF AggregateResidue, FileType, Statuses
    <2>6. CASE ReleaseResidue
      <3>1. \A keepPath \in BOOLEAN :
              /\ Released(file, keepPath) \in FileType
              /\ Released(file, keepPath).journal = file.journal
        BY ReleasedTypes
      <3> QED
        BY <2>6, <3>1, WriteStep, JobStep DEF ReleaseResidue, CtxType
    <2>7. CASE ReadInterrupted
      <3>1. Without(file.path) \in DiskType
        BY DiskTypes DEF FileType
      <3> QED
        BY <2>7, <3>1, CallStep, JobStep DEF ReadInterrupted
    <2>8. CASE RequeueUnowned
      BY <2>8, WriteStep, PathTypes DEF RequeueUnowned, Journals, NoJournal, FileType,
        Statuses
    <2>9. CASE AggregateUnowned
      BY <2>9, WriteStep, AggregateTypes DEF AggregateUnowned, FileType, Statuses
    <2>10. CASE FailOwner
      BY <2>10, JobStep, JobTypes DEF FailOwner
    <2>11. CASE ReleaseOwner
      BY <2>11, WriteStep, ReleasedTypes DEF ReleaseOwner, Released, FileType, Statuses
    <2>12. CASE SettleOwner
      BY <2>12, WriteStep, AggregateTypes DEF SettleOwner, FileType, Statuses
    <2> QED
      BY <1>10, <2>1, <2>2, <2>3, <2>4, <2>5, <2>6, <2>7, <2>8, <2>9, <2>10, <2>11, <2>12
        DEF RecoverStuckFile
  <1>11. CASE RecoverJobs
    <2>1. ASSUME NEW j \in Attempts, RecoverInterruptedJob(j) PROVE Typed'
      BY <2>1, PathTypes DEF RecoverInterruptedJob, FileType, CtxType, JobType, DiskType,
        Journals, NoJournal, Statuses, Holders, NoCtx, CrashedTask, Results,
        CompletedBeforeCrash, Completed, Failed
    <2>2. CASE Ready
      BY <2>2, PathTypes DEF Ready, FileType, CtxType, JobType, DiskType, Journals,
        NoJournal, Statuses, Holders, NoCtx, CrashedTask, Results
    <2> QED
      BY <1>11, <2>1, <2>2 DEF RecoverJobs
  <1>12. CASE User
    <2>1. CASE StopOwned
      <3>1. file' \in FileType /\ file'.journal = file.journal
        BY <2>1 DEF StopOwned, FileType, Statuses
      <3> QED
        BY <2>1, <3>1, WriteStep DEF StopOwned
    <2>2. CASE StopQueued
      BY <2>2, PathTypes DEF StopQueued, FileType, CtxType, JobType, DiskType, Journals,
        NoJournal, Statuses, Holders, NoCtx, CrashedTask, Results
    <2>3. CASE StopJobs
      BY <2>3, PathTypes DEF StopJobs, FileType, CtxType, JobType, DiskType, Journals,
        NoJournal, Statuses, Holders, NoCtx, CrashedTask, Results, Active
    <2>4. CASE UserCreatesFinal
      BY <2>4, PathTypes DEF UserCreatesFinal, FileType, CtxType, JobType, DiskType,
        Journals, NoJournal, Statuses, Holders, NoCtx, CrashedTask, Results
    <2> QED
      BY <1>12, <2>1, <2>2, <2>3, <2>4 DEF User
  <1>13. ASSUME NEW j \in Attempts, Enqueue(j) PROVE Typed'
    BY <1>13, PathTypes DEF Enqueue, FileType, CtxType, JobType, DiskType, Journals,
      NoJournal, Statuses, Holders, NoCtx, CrashedTask, Results, Active
  <1>14. CASE Crash
    BY <1>14, PathTypes DEF Crash, FileType, CtxType, JobType, DiskType, Journals,
      NoJournal, Statuses, Holders, NoCtx, CrashedTask, Results
  <1>15. CASE UNCHANGED vars
    BY <1>15, PathTypes DEF vars, FileType, CtxType, JobType, DiskType, Journals, NoJournal,
      Statuses, Holders, NoCtx, CrashedTask, Results
  <1> QED
    BY <1>1, <1>2, <1>3, <1>4, <1>5, <1>6, <1>7, <1>8, <1>9, <1>10, <1>11, <1>12, <1>13,
      <1>14, <1>15 DEF Next, Finalize, Startup

\* Initially nothing runs, and the values are of their types.
LEMMA InitTyped == Init => Typed
  BY CommitAssumption, PathTypes
  DEF Init, Typed, Placed, TypeOK, FreshFile, FreshDisk, NoCtx, NoResult, FileType, JobType,
      DiskType, CtxType, Statuses, Holders, Journals, NoJournal, Results, Detached, Journaling

\* Only the link, its undo and the user change what the final name holds.
LEMMA OnlyLinkTouchesFinal ==
    ASSUME TypeOK, [Next]_vars
    PROVE  LinkFinal \/ UndoFinal \/ UserCreatesFinal \/ disk'.final = disk.final
  <1> USE DEF TypeOK, DiskType, Steady, Write, Settle, Branch, Claim, Call, TryUnlink, Without,
          Restored
  <1>1. CASE Attempt
    BY <1>1 DEF Attempt, ClaimJob, PrepareCollision, FailCollided, RecountCollided,
      PrepareClaim, PrepareDefer, RunnerWrites, ResultCancelled, ResultError, ResultOk
  <1>2. CASE ToCommitPoint
    BY <1>2 DEF ToCommitPoint, ClaimFinalizing, Validate, Filter, ClaimCommitting
  <1>3. CASE FinishAdjacent
    BY <1>3 DEF FinishAdjacent, Promote, ValidateFinal, JournalCommitted, PersistOutput,
      CompleteOutput, AggregateOutput, JournalCleaned, UnlinkScratch, UnjournalScratch,
      ReleaseOutput
  <1>4. CASE FinishOverwrite
    BY <1>4 DEF FinishOverwrite, Replace, RenameToBackup, RenameOutput, RenameBack,
      StatSource, MarkReplaced, UnlinkBackup, ReleaseReplaced, EraseJournal
  <1>5. CASE FinishRejected
    BY <1>5 DEF FinishRejected, ValidateRejected, DeleteRejected, PersistRejected,
      CompleteRejected, AggregateRejected, UnjournalRejected, ReleaseRejected
  <1>6. CASE FinishStopped
    BY <1>6 DEF FinishStopped, StopClean, StopWrite, StopComplete, StopRelease
  <1>7. CASE FinishFailure
    BY <1>7 DEF FinishFailure, FailClaim, FailClean, FailPersist, FailJob, FailAggregate,
      FailRelease
  <1>8. CASE RollBack
    BY <1>8 DEF RollBack, HandleError, RestoreBackup, UndoScratch, UndoFailed, FailUndone
  <1>9. CASE RecoverJournal
    BY <1>9 DEF RecoverJournal, Boot, StatOutput, RecoverFailure, FailInterrupted,
      UnjournalUndone, ReleaseUndone, AggregateUndone, BootError
  <1>10. CASE RecoverStuckFile
    BY <1>10 DEF RecoverStuckFile, ReadStuck, RemoveResidue, ForgetResidue, FailResidue,
      AggregateResidue, ReleaseResidue, ReadInterrupted, RequeueUnowned, AggregateUnowned,
      FailOwner, ReleaseOwner, SettleOwner
  <1>11. CASE RecoverJobs
    BY <1>11 DEF RecoverJobs, RecoverInterruptedJob, Ready
  <1>12. CASE User
    BY <1>12 DEF User, StopOwned, StopQueued, StopJobs
  <1>13. ASSUME NEW j \in Attempts, Enqueue(j) PROVE disk'.final = disk.final
    BY <1>13 DEF Enqueue
  <1>14. CASE Crash
    BY <1>14 DEF Crash
  <1>15. CASE UNCHANGED vars
    BY <1>15 DEF vars
  <1> QED
    BY <1>1, <1>2, <1>3, <1>4, <1>5, <1>6, <1>7, <1>8, <1>9, <1>10, <1>11, <1>12, <1>13,
      <1>14, <1>15 DEF Next, Finalize, Startup

-----------------------------------------------------------------------------
(***************************************************************************)
(* The theorems.                                                           *)
(***************************************************************************)
\* Every reachable state is of its types, and the procedure works for an attempt
\* wherever it needs one.
THEOREM TypesHold == Spec => []Typed
  <1>1. Typed /\ [Next]_vars => Typed'
    BY TypedKept
  <1> QED
    BY InitTyped, <1>1, PTL DEF Spec

\* The type invariant the runs check.
THEOREM TypeCorrect == Spec => []TypeOK
  <1>1. Typed => TypeOK
    BY DEF Typed
  <1> QED
    BY TypesHold, <1>1, PTL

\* promoteAdjacentScratch links the final name only where nothing is, and the
\* undo removes it only if it shares its inode with a scratch: neither replaces
\* nor removes a file of the user.
THEOREM UsersFinalFileKept == Spec => ForeignFinalKept
  <1>1. ASSUME Typed, [Next]_vars
        PROVE  [disk.final = "other" => disk'.final = "other"]_disk
    <2> SUFFICES ASSUME disk.final = "other" PROVE disk'.final = "other"
      OBVIOUS
    <2>1. CASE LinkFinal
      BY <2>1 DEF LinkFinal, Call, Branch
    <2>2. CASE UndoFinal
      BY <2>2, <1>1, CommitAssumption DEF UndoFinal, OwnFinal, Call, Typed, TypeOK, DiskType
    <2>3. CASE UserCreatesFinal
      BY <2>3 DEF UserCreatesFinal
    <2> QED
      BY <1>1, <2>1, <2>2, <2>3, OnlyLinkTouchesFinal DEF Typed
  <1> QED
    BY <1>1, TypesHold, PTL DEF Spec, ForeignFinalKept

-----------------------------------------------------------------------------
(***************************************************************************)
(* The second layer: where the procedure is when the journal is in which   *)
(* phase (JournalAt), where the source is in each of these positions       *)
(* (SourceAt), which results are recorded by then (ResultAt), and that no  *)
(* second job is active in the meantime (OneActive).                       *)
(***************************************************************************)
\* Where the journal of the attempt is in which phase.
PreparedAt  == {"transcode", "finalize", "validate", "filter", "commit", "promote", "replace",
                "reject", "deleteRejected", "persistRejected", "completeRejected",
                "aggregateRejected", "unjournalRejected"}
PromotingAt == {"link", "linked", "renameToBackup", "renameOutput", "renameBack", "statSource",
                "journalCommitted"}
CommittedAt == {"statOutput", "persist", "markReplaced", "complete", "aggregate",
                "journalCleaned", "unlinkBackup", "releaseReplaced", "eraseJournal"}
NoJournalAt == {"prepare", "collided", "recountCollided", "releaseUndone", "aggregateUndone",
                "removeResidue", "forgetResidue", "failResidue", "aggregateResidue",
                "releaseResidue", "requeueUnowned", "aggregateUnowned", "failOwner",
                "releaseOwner", "settleOwner"}

Committed(journal) == journal.phase \in {"committed", "cleaned"}

JournalAt ==
    /\ pc \in PreparedAt  => file.journal.phase = "prepared" /\ ~file.failing
    /\ pc \in PromotingAt => /\ file.journal.phase = "promoting" /\ ~file.failing
                             /\ file.journal.job = me
    /\ pc \in CommittedAt => Committed(file.journal)
    /\ pc \in NoJournalAt => file.journal = NoJournal
    /\ pc \in {"error", "undo", "undoScratch", "undoFailed"} /\ mode = "overwrite" =>
          file.journal.phase \in {"prepared", "promoting"} /\ file.journal.job = me
    /\ file.failing => mode = "adjacent" \/ ~Committed(file.journal)
    /\ file.status = "queued" => file.journal = NoJournal

\* Where the source is.
AdjacentAt  == {"promote", "link", "linked", "aggregate", "unlinkScratch", "unjournalScratch",
                "releaseOutput"}
OverwriteAt == {"replace", "renameToBackup", "renameOutput", "renameBack", "statSource",
                "markReplaced", "unlinkBackup", "releaseReplaced", "eraseJournal"}
OriginalAt  == {"renameToBackup", "undoScratch", "failClaim", "failClean", "failPersist",
                "recoverFailure", "failInterrupted", "unjournalUndone", "stopClean", "stopWrite"}

SourceAt ==
    /\ pc \in AdjacentAt  => mode = "adjacent"
    /\ pc = "commit" /\ ctx.verdict = "pass" => mode = "adjacent"
    /\ pc \in OverwriteAt => mode = "overwrite"
    /\ pc \in OriginalAt  => disk.source = "original"
    /\ pc \in {"renameOutput", "renameBack", "statSource"} => me \in disk.backup
    /\ pc = "statSource" \/ (pc = "journalCommitted" /\ mode = "overwrite") =>
          disk.source \in Attempts
    /\ mode = "adjacent" => disk.source = "original" /\ file.result.status # "replaced"
    /\ file.journal.phase = "prepared" => disk.source = "original"
    /\ file.journal.phase = "promoting" =>
          disk.source = "original" \/ file.journal.job \in disk.backup
    /\ Committed(file.journal) => mode = "adjacent" \/ disk.source \in Attempts
    /\ file.journal.phase = "none" =>
          disk.source = "original" \/ file.result.status = "replaced"
    /\ file.result.status = "replaced" =>
          disk.source \in Attempts /\ file.journal.phase # "promoting"

\* Which results are recorded, and which jobs are active.
ReplacedAt == {"markReplaced", "unlinkBackup", "releaseReplaced", "eraseJournal"}
RecordedAt == {"complete", "aggregate", "journalCleaned", "completeRejected",
               "aggregateRejected", "failJob", "failAggregate"}

ResultAt ==
    /\ pc = "prepare" => file.result.status = "none"
    /\ pc \in RecordedAt => file.result.status # "none"
    /\ pc \in ReplacedAt => file.result.status = "replaced"
    /\ pc \in {"complete", "journalCleaned"} /\ mode = "overwrite" =>
          file.result.status = "replaced"

OneActive ==
    /\ \A i, j \in Attempts : Active(i) /\ Active(j) => i = j
    /\ pc \notin Detached => \A j \in Attempts : Active(j) => j = me /\ job[j] = "running"
    /\ file.journal # NoJournal =>
          \A j \in Attempts : Active(j) => j = file.journal.job /\ job[j] = "running"
    /\ (\E j \in Attempts : job[j] = "pending") => file.result.status = "none"

Safe == Typed /\ JournalAt /\ SourceAt /\ ResultAt /\ OneActive

-----------------------------------------------------------------------------
(***************************************************************************)
(* Facts about the recount and about the writes of the journal.            *)
(***************************************************************************)
\* With a result and no other active job the recount does not say queued.
LEMMA AggregateSettled ==
    ASSUME TypeOK, file.result.status # "none", \A j \in Attempts : Active(j) => j = me
    PROVE  Aggregate(me) # "queued"
  BY DEF TypeOK, Aggregate, Active, FileType, Results

\* A step that leaves the jobs, the attempt and the result alone, and moves the
\* journal of an attempt on, leaves one attempt active.
LEMMA JournalMoved ==
    ASSUME OneActive, UNCHANGED <<job, ctx, file.result>>, pc \notin Detached,
           file.journal # NoJournal, file'.journal.job = file.journal.job
    PROVE  OneActive'
  BY DEF OneActive, Active, me

-----------------------------------------------------------------------------
\* Every step leaves the journal in the phase that the next position has: the
\* phase moves on with the filesystem calls, and a claim of a second attempt
\* finds no journal.
LEMMA JournalAtKept == ASSUME Safe, [Next]_vars PROVE JournalAt'
  <1> USE CommitAssumption DEF Safe, Typed, Placed, TypeOK, FileType, Journals, NoJournal,
    JournalAt, SourceAt, PreparedAt, PromotingAt, CommittedAt, NoJournalAt, Committed,
    Detached, Journaling, OriginalAt, Write, Settle, Call, TryUnlink, Branch, Claim, Steady,
    me, StopWon
  <1>1. CASE Attempt
    <2>1. ASSUME NEW j \in Attempts, ClaimJob(j) PROVE JournalAt'
      <3>1. file.journal = NoJournal
        BY <2>1 DEF ClaimJob, OneActive, Active
      <3>2. pc' = "prepare" /\ UNCHANGED <<file, mode>>
        BY <2>1 DEF ClaimJob
      <3> QED
        BY <3>1, <3>2
    <2>2. CASE PrepareCollision
      BY <2>2 DEF PrepareCollision, Preparable, Collision, WithResult, NoPath
    <2>3. CASE FailCollided
      BY <2>3 DEF FailCollided, Failed
    <2>4. CASE RecountCollided
      BY <2>4 DEF RecountCollided, Aggregate
    <2>5. CASE PrepareClaim
      BY <2>5 DEF PrepareClaim, Preparable, Collision, ScratchOf
    <2>6. CASE PrepareDefer
      BY <2>6 DEF PrepareDefer, Preparable
    <2>7. CASE RunnerWrites
      BY <2>7 DEF RunnerWrites
    <2>8. CASE ResultCancelled
      BY <2>8 DEF ResultCancelled
    <2>9. CASE ResultError
      BY <2>9 DEF ResultError
    <2>10. CASE ResultOk
      BY <2>10 DEF ResultOk
    <2> QED
      BY <1>1, <2>1, <2>2, <2>3, <2>4, <2>5, <2>6, <2>7, <2>8, <2>9, <2>10 DEF Attempt
  <1>2. CASE ToCommitPoint
    <2>1. CASE ClaimFinalizing
      BY <2>1 DEF ClaimFinalizing
    <2>2. CASE Validate
      BY <2>2 DEF Validate
    <2>3. CASE Filter
      BY <2>3 DEF Filter
    <2>4. CASE ClaimCommitting
      BY <2>4 DEF ClaimCommitting
    <2> QED
      BY <1>2, <2>1, <2>2, <2>3, <2>4 DEF ToCommitPoint
  <1>3. CASE FinishAdjacent
    <2>1. CASE Promote
      <3>1. CASE StopWon
        BY <2>1, <3>1 DEF Promote
      <3>2. CASE ~StopWon
        BY <2>1, <3>2, PromoteWrites
      <3> QED
        BY <3>1, <3>2
    <2>2. CASE LinkFinal
      BY <2>2 DEF LinkFinal
    <2>3. CASE ValidateFinal
      BY <2>3 DEF ValidateFinal
    <2>4. CASE JournalCommitted
      BY <2>4 DEF JournalCommitted
    <2>5. CASE PersistOutput
      BY <2>5 DEF PersistOutput, WithResult, NoPath, FinalPath
    <2>6. CASE CompleteOutput
      BY <2>6 DEF CompleteOutput, Completed
    <2>7. CASE AggregateOutput
      <3>1. Aggregate(me) # "queued"
        BY <2>7, AggregateSettled DEF AggregateOutput, ResultAt, RecordedAt, OneActive
      <3> QED
        BY <2>7, <3>1 DEF AggregateOutput
    <2>8. CASE JournalCleaned
      BY <2>8 DEF JournalCleaned
    <2>9. CASE UnlinkScratch
      BY <2>9 DEF UnlinkScratch, Without, NoPath, ScratchOf
    <2>10. CASE UnjournalScratch
      BY <2>10 DEF UnjournalScratch, NoPath, ScratchOf
    <2>11. CASE ReleaseOutput
      <3>1. /\ UNCHANGED <<mode, ctx, file.journal, file.status>> /\ mode = "adjacent"
            /\ file'.failing => file.failing
        BY <2>11 DEF ReleaseOutput, Released, SourceAt, AdjacentAt
      <3> QED
        BY <2>11, <3>1 DEF ReleaseOutput
    <2> QED
      BY <1>3, <2>1, <2>2, <2>3, <2>4, <2>5, <2>6, <2>7, <2>8, <2>9, <2>10, <2>11
        DEF FinishAdjacent
  <1>4. CASE FinishOverwrite
    <2>1. CASE Replace
      <3>1. CASE StopWon
        BY <2>1, <3>1 DEF Replace
      <3>2. CASE ~StopWon
        BY <2>1, <3>2, ReplaceWrites
      <3> QED
        BY <3>1, <3>2
    <2>2. CASE RenameToBackup
      BY <2>2 DEF RenameToBackup
    <2>3. CASE RenameOutput
      BY <2>3 DEF RenameOutput
    <2>4. CASE RenameBack
      BY <2>4 DEF RenameBack, Restored
    <2>5. CASE StatSource
      BY <2>5 DEF StatSource
    <2>6. CASE MarkReplaced
      BY <2>6 DEF MarkReplaced
    <2>7. CASE UnlinkBackup
      BY <2>7 DEF UnlinkBackup, Without, NoPath, BackupOf
    <2>8. CASE ReleaseReplaced
      BY <2>8 DEF ReleaseReplaced, TerminalOwnerCanRelease, Released, NoPath
    <2>9. CASE EraseJournal
      BY <2>9 DEF EraseJournal, NoPath, BackupOf
    <2> QED
      BY <1>4, <2>1, <2>2, <2>3, <2>4, <2>5, <2>6, <2>7, <2>8, <2>9 DEF FinishOverwrite
  <1>5. CASE FinishRejected
    <2>1. CASE ValidateRejected
      BY <2>1 DEF ValidateRejected
    <2>2. CASE DeleteRejected
      BY <2>2 DEF DeleteRejected, Without, ScratchOf
    <2>3. CASE PersistRejected
      BY <2>3 DEF PersistRejected, WithResult, NoPath, ScratchOf
    <2>4. CASE CompleteRejected
      BY <2>4 DEF CompleteRejected, Completed
    <2>5. CASE AggregateRejected
      <3>1. Aggregate(me) # "queued"
        BY <2>5, AggregateSettled DEF AggregateRejected, ResultAt, RecordedAt, OneActive
      <3> QED
        BY <2>5, <3>1 DEF AggregateRejected
    <2>6. CASE UnjournalRejected
      BY <2>6 DEF UnjournalRejected
    <2>7. CASE ReleaseRejected
      BY <2>7 DEF ReleaseRejected, TerminalOwnerCanRelease, Released, NoPath
    <2> QED
      BY <1>5, <2>1, <2>2, <2>3, <2>4, <2>5, <2>6, <2>7 DEF FinishRejected
  <1>6. CASE FinishStopped
    <2>1. CASE StopClean
      BY <2>1 DEF StopClean, Without, NoPath, ScratchOf
    <2>2. CASE StopWrite
      BY <2>2 DEF StopWrite, NoPath
    <2>3. CASE StopComplete
      BY <2>3 DEF StopComplete, Completed
    <2>4. CASE StopRelease
      BY <2>4 DEF StopRelease, Released, NoPath
    <2> QED
      BY <1>6, <2>1, <2>2, <2>3, <2>4 DEF FinishStopped
  <1>7. CASE FinishFailure
    <2>1. CASE FailClaim
      BY <2>1 DEF FailClaim
    <2>2. CASE FailClean
      BY <2>2 DEF FailClean, Without, NoPath, ScratchOf
    <2>3. CASE FailPersist
      BY <2>3 DEF FailPersist, WithResult, NoPath
    <2>4. CASE FailJob
      BY <2>4 DEF FailJob, Failed
    <2>5. CASE FailAggregate
      <3>1. Aggregate(me) # "queued"
        BY <2>5, AggregateSettled DEF FailAggregate, ResultAt, RecordedAt, OneActive
      <3> QED
        BY <2>5, <3>1 DEF FailAggregate
    <2>6. CASE FailRelease
      BY <2>6 DEF FailRelease, FailedOwnerCanRelease, NoPath, Released
    <2> QED
      BY <1>7, <2>1, <2>2, <2>3, <2>4, <2>5, <2>6 DEF FinishFailure
  <1>8. CASE RollBack
    <2>1. CASE HandleError
      BY <2>1 DEF HandleError
    <2>2. CASE UndoFinal
      BY <2>2 DEF UndoFinal, OwnFinal
    <2>3. CASE RestoreBackup
      BY <2>3 DEF RestoreBackup, Restored
    <2>4. CASE UndoScratch
      BY <2>4 DEF UndoScratch, Without, ScratchOf, FailureFinalizing
    <2>5. CASE UndoFailed
      BY <2>5 DEF UndoFailed
    <2>6. CASE FailUndone
      BY <2>6 DEF FailUndone, Failed
    <2> QED
      BY <1>8, <2>1, <2>2, <2>3, <2>4, <2>5, <2>6 DEF RollBack
  <1>9. CASE RecoverJournal
    <2>1. CASE Boot
      BY <2>1 DEF Boot, NoCtx, CrashedTask, RolledForward, FailureFinalizing
    <2>2. CASE StatOutput
      BY <2>2 DEF StatOutput
    <2>3. CASE RecoverFailure
      BY <2>3 DEF RecoverFailure, WithResult, NoPath
    <2>4. CASE FailInterrupted
      BY <2>4 DEF FailInterrupted, Failed
    <2>5. CASE UnjournalUndone
      BY <2>5 DEF UnjournalUndone, NoPath
    <2>6. CASE ReleaseUndone
      BY <2>6 DEF ReleaseUndone, Released, NoPath
    <2>7. CASE AggregateUndone
      BY <2>7 DEF AggregateUndone, Aggregate
    <2>8. CASE BootError
      BY <2>8 DEF BootError, BackupOf, ScratchOf
    <2> QED
      BY <1>9, <2>1, <2>2, <2>3, <2>4, <2>5, <2>6, <2>7, <2>8 DEF RecoverJournal
  <1>10. CASE RecoverStuckFile
    <2>1. CASE ReadStuck
      BY <2>1 DEF ReadStuck, NoCtx, CommittingResidue
    <2>2. CASE RemoveResidue
      BY <2>2 DEF RemoveResidue, NoPath, Without
    <2>3. CASE ForgetResidue
      BY <2>3 DEF ForgetResidue, NoPath
    <2>4. CASE FailResidue
      BY <2>4 DEF FailResidue, Failed
    <2>5. CASE AggregateResidue
      BY <2>5 DEF AggregateResidue, Aggregate
    <2>6. CASE ReleaseResidue
      BY <2>6 DEF ReleaseResidue, ResidueCanRelease, FailedOwnerCanRelease, NoPath,
        TerminalOwnerCanRelease, Released
    <2>7. CASE ReadInterrupted
      BY <2>7 DEF ReadInterrupted, Without, NoPath
    <2>8. CASE RequeueUnowned
      BY <2>8 DEF RequeueUnowned, NoPath
    <2>9. CASE AggregateUnowned
      BY <2>9 DEF AggregateUnowned, Aggregate
    <2>10. CASE FailOwner
      BY <2>10 DEF FailOwner, Failed
    <2>11. CASE ReleaseOwner
      BY <2>11 DEF ReleaseOwner, Released, NoPath
    <2>12. CASE SettleOwner
      BY <2>12 DEF SettleOwner, Aggregate
    <2> QED
      BY <1>10, <2>1, <2>2, <2>3, <2>4, <2>5, <2>6, <2>7, <2>8, <2>9, <2>10, <2>11, <2>12
        DEF RecoverStuckFile
  <1>11. CASE RecoverJobs
    <2>1. ASSUME NEW j \in Attempts, RecoverInterruptedJob(j) PROVE JournalAt'
      BY <2>1 DEF RecoverInterruptedJob, CompletedBeforeCrash, Completed, Failed
    <2>2. CASE Ready
      BY <2>2 DEF Ready, NoCtx
    <2> QED
      BY <1>11, <2>1, <2>2 DEF RecoverJobs
  <1>12. CASE User
    <2>1. CASE StopOwned
      BY <2>1 DEF StopOwned
    <2>2. CASE StopQueued
      BY <2>2 DEF StopQueued
    <2>3. CASE StopJobs
      BY <2>3 DEF StopJobs, Active
    <2>4. CASE UserCreatesFinal
      BY <2>4 DEF UserCreatesFinal
    <2> QED
      BY <1>12, <2>1, <2>2, <2>3, <2>4 DEF User
  <1>13. ASSUME NEW j \in Attempts, Enqueue(j) PROVE JournalAt'
    BY <1>13 DEF Enqueue, Active
  <1>14. CASE Crash
    BY <1>14 DEF Crash, NoCtx
  <1>15. CASE UNCHANGED vars
    BY <1>15 DEF vars, Active
  <1> QED
    BY <1>1, <1>2, <1>3, <1>4, <1>5, <1>6, <1>7, <1>8, <1>9, <1>10, <1>11, <1>12, <1>13,
      <1>14, <1>15 DEF Next, Finalize, Startup

-----------------------------------------------------------------------------
\* Every step leaves the original in its place, or in a backup of the journal's
\* attempt while the journal says promoting, or replaced behind a commit point.
LEMMA SourceAtKept == ASSUME Safe, [Next]_vars PROVE SourceAt'
  <1> USE CommitAssumption DEF Safe, Typed, Placed, TypeOK, FileType, Journals, NoJournal,
    JournalAt, SourceAt, PreparedAt, PromotingAt, CommittedAt, NoJournalAt, Committed,
    Detached, Journaling, OriginalAt, AdjacentAt, OverwriteAt, ResultAt, ReplacedAt, DiskType,
    Write, Settle, Call, TryUnlink, Branch, Claim, Steady, me, StopWon
  <1>1. CASE Attempt
    <2>1. ASSUME NEW j \in Attempts, ClaimJob(j) PROVE SourceAt'
      BY <2>1 DEF ClaimJob, NoCtx
    <2>2. CASE PrepareCollision
      BY <2>2 DEF PrepareCollision, Preparable, Collision, WithResult, NoPath
    <2>3. CASE FailCollided
      BY <2>3 DEF FailCollided, Failed
    <2>4. CASE RecountCollided
      BY <2>4 DEF RecountCollided, Aggregate
    <2>5. CASE PrepareClaim
      BY <2>5 DEF PrepareClaim, Preparable, Collision, ScratchOf
    <2>6. CASE PrepareDefer
      BY <2>6 DEF PrepareDefer, Preparable
    <2>7. CASE RunnerWrites
      BY <2>7 DEF RunnerWrites
    <2>8. CASE ResultCancelled
      BY <2>8 DEF ResultCancelled
    <2>9. CASE ResultError
      BY <2>9 DEF ResultError
    <2>10. CASE ResultOk
      BY <2>10 DEF ResultOk
    <2> QED
      BY <1>1, <2>1, <2>2, <2>3, <2>4, <2>5, <2>6, <2>7, <2>8, <2>9, <2>10 DEF Attempt
  <1>2. CASE ToCommitPoint
    <2>1. CASE ClaimFinalizing
      BY <2>1 DEF ClaimFinalizing
    <2>2. CASE Validate
      BY <2>2 DEF Validate
    <2>3. CASE Filter
      BY <2>3 DEF Filter
    <2>4. CASE ClaimCommitting
      BY <2>4 DEF ClaimCommitting
    <2> QED
      BY <1>2, <2>1, <2>2, <2>3, <2>4 DEF ToCommitPoint
  <1>3. CASE FinishAdjacent
    <2>1. CASE Promote
      <3>1. CASE StopWon
        BY <2>1, <3>1 DEF Promote
      <3>2. CASE ~StopWon
        BY <2>1, <3>2, PromoteWrites
      <3> QED
        BY <3>1, <3>2
    <2>2. CASE LinkFinal
      BY <2>2 DEF LinkFinal
    <2>3. CASE ValidateFinal
      BY <2>3 DEF ValidateFinal
    <2>4. CASE JournalCommitted
      BY <2>4 DEF JournalCommitted
    <2>5. CASE PersistOutput
      BY <2>5 DEF PersistOutput, WithResult, NoPath, FinalPath
    <2>6. CASE CompleteOutput
      BY <2>6 DEF CompleteOutput, Completed
    <2>7. CASE AggregateOutput
      BY <2>7 DEF AggregateOutput, Aggregate
    <2>8. CASE JournalCleaned
      BY <2>8 DEF JournalCleaned
    <2>9. CASE UnlinkScratch
      BY <2>9 DEF UnlinkScratch, Without, NoPath, ScratchOf
    <2>10. CASE UnjournalScratch
      BY <2>10 DEF UnjournalScratch, NoPath, ScratchOf
    <2>11. CASE ReleaseOutput
      BY <2>11 DEF ReleaseOutput, TerminalOwnerCanRelease, Released, NoPath
    <2> QED
      BY <1>3, <2>1, <2>2, <2>3, <2>4, <2>5, <2>6, <2>7, <2>8, <2>9, <2>10, <2>11
        DEF FinishAdjacent
  <1>4. CASE FinishOverwrite
    <2>1. CASE Replace
      <3>1. CASE StopWon
        BY <2>1, <3>1 DEF Replace
      <3>2. CASE ~StopWon
        BY <2>1, <3>2, ReplaceWrites
      <3> QED
        BY <3>1, <3>2
    <2>2. CASE RenameToBackup
      <3>1. me \in Attempts /\ file.journal.phase = "promoting" /\ file.journal.job = me
        BY <2>2 DEF RenameToBackup
      <3>2. CASE UNCHANGED disk /\ pc' = "error"
        BY <2>2, <3>2 DEF RenameToBackup
      <3>3. CASE /\ pc' = "renameOutput"
                 /\ disk' = [disk EXCEPT !.source = "none", !.backup = disk.backup \union {me}]
        <4>1. disk'.source = "none" /\ me \in disk'.backup
          BY <3>3
        <4> QED
          BY <2>2, <3>1, <3>3, <4>1 DEF RenameToBackup
      <3>4. \/ UNCHANGED disk /\ pc' = "error"
            \/ /\ pc' = "renameOutput"
               /\ disk' = [disk EXCEPT !.source = "none", !.backup = disk.backup \union {me}]
        BY <2>2 DEF RenameToBackup
      <3> QED
        BY <3>2, <3>3, <3>4
    <2>3. CASE RenameOutput
      BY <2>3 DEF RenameOutput
    <2>4. CASE RenameBack
      BY <2>4 DEF RenameBack, Restored
    <2>5. CASE StatSource
      BY <2>5 DEF StatSource
    <2>6. CASE MarkReplaced
      BY <2>6 DEF MarkReplaced
    <2>7. CASE UnlinkBackup
      BY <2>7 DEF UnlinkBackup, Without, NoPath, BackupOf
    <2>8. CASE ReleaseReplaced
      BY <2>8 DEF ReleaseReplaced, TerminalOwnerCanRelease, Released, NoPath
    <2>9. CASE EraseJournal
      BY <2>9 DEF EraseJournal, NoPath, BackupOf
    <2> QED
      BY <1>4, <2>1, <2>2, <2>3, <2>4, <2>5, <2>6, <2>7, <2>8, <2>9 DEF FinishOverwrite
  <1>5. CASE FinishRejected
    <2>1. CASE ValidateRejected
      BY <2>1 DEF ValidateRejected
    <2>2. CASE DeleteRejected
      BY <2>2 DEF DeleteRejected, Without, ScratchOf
    <2>3. CASE PersistRejected
      BY <2>3 DEF PersistRejected, WithResult, NoPath, ScratchOf
    <2>4. CASE CompleteRejected
      BY <2>4 DEF CompleteRejected, Completed
    <2>5. CASE AggregateRejected
      BY <2>5 DEF AggregateRejected, Aggregate
    <2>6. CASE UnjournalRejected
      BY <2>6 DEF UnjournalRejected
    <2>7. CASE ReleaseRejected
      BY <2>7 DEF ReleaseRejected, TerminalOwnerCanRelease, Released, NoPath
    <2> QED
      BY <1>5, <2>1, <2>2, <2>3, <2>4, <2>5, <2>6, <2>7 DEF FinishRejected
  <1>6. CASE FinishStopped
    <2>1. CASE StopClean
      BY <2>1 DEF StopClean, Without, NoPath, ScratchOf
    <2>2. CASE StopWrite
      BY <2>2 DEF StopWrite, NoPath
    <2>3. CASE StopComplete
      BY <2>3 DEF StopComplete, Completed
    <2>4. CASE StopRelease
      BY <2>4 DEF StopRelease, Released, NoPath
    <2> QED
      BY <1>6, <2>1, <2>2, <2>3, <2>4 DEF FinishStopped
  <1>7. CASE FinishFailure
    <2>1. CASE FailClaim
      BY <2>1 DEF FailClaim
    <2>2. CASE FailClean
      BY <2>2 DEF FailClean, Without, NoPath, ScratchOf
    <2>3. CASE FailPersist
      BY <2>3 DEF FailPersist, WithResult, NoPath
    <2>4. CASE FailJob
      BY <2>4 DEF FailJob, Failed
    <2>5. CASE FailAggregate
      BY <2>5 DEF FailAggregate, Aggregate
    <2>6. CASE FailRelease
      BY <2>6 DEF FailRelease, FailedOwnerCanRelease, NoPath, Released
    <2> QED
      BY <1>7, <2>1, <2>2, <2>3, <2>4, <2>5, <2>6 DEF FinishFailure
  <1>8. CASE RollBack
    <2>1. CASE HandleError
      BY <2>1 DEF HandleError
    <2>2. CASE UndoFinal
      BY <2>2 DEF UndoFinal, OwnFinal
    <2>3. CASE RestoreBackup
      BY <2>3 DEF RestoreBackup, Restored
    <2>4. CASE UndoScratch
      BY <2>4 DEF UndoScratch, Without, ScratchOf, FailureFinalizing
    <2>5. CASE UndoFailed
      BY <2>5 DEF UndoFailed
    <2>6. CASE FailUndone
      BY <2>6 DEF FailUndone, Failed
    <2> QED
      BY <1>8, <2>1, <2>2, <2>3, <2>4, <2>5, <2>6 DEF RollBack
  <1>9. CASE RecoverJournal
    <2>1. CASE Boot
      BY <2>1 DEF Boot, NoCtx, CrashedTask, RolledForward, FailureFinalizing
    <2>2. CASE StatOutput
      BY <2>2 DEF StatOutput
    <2>3. CASE RecoverFailure
      BY <2>3 DEF RecoverFailure, WithResult, NoPath
    <2>4. CASE FailInterrupted
      BY <2>4 DEF FailInterrupted, Failed
    <2>5. CASE UnjournalUndone
      BY <2>5 DEF UnjournalUndone, NoPath
    <2>6. CASE ReleaseUndone
      BY <2>6 DEF ReleaseUndone, Released, NoPath
    <2>7. CASE AggregateUndone
      BY <2>7 DEF AggregateUndone, Aggregate
    <2>8. CASE BootError
      BY <2>8 DEF BootError, BackupOf, ScratchOf
    <2> QED
      BY <1>9, <2>1, <2>2, <2>3, <2>4, <2>5, <2>6, <2>7, <2>8 DEF RecoverJournal
  <1>10. CASE RecoverStuckFile
    <2>1. CASE ReadStuck
      BY <2>1 DEF ReadStuck, NoCtx, CommittingResidue
    <2>2. CASE RemoveResidue
      BY <2>2 DEF RemoveResidue, NoPath, Without
    <2>3. CASE ForgetResidue
      BY <2>3 DEF ForgetResidue, NoPath
    <2>4. CASE FailResidue
      BY <2>4 DEF FailResidue, Failed
    <2>5. CASE AggregateResidue
      BY <2>5 DEF AggregateResidue, Aggregate
    <2>6. CASE ReleaseResidue
      BY <2>6 DEF ReleaseResidue, ResidueCanRelease, FailedOwnerCanRelease, NoPath,
        TerminalOwnerCanRelease, Released
    <2>7. CASE ReadInterrupted
      BY <2>7 DEF ReadInterrupted, Without, NoPath
    <2>8. CASE RequeueUnowned
      BY <2>8 DEF RequeueUnowned, NoPath
    <2>9. CASE AggregateUnowned
      BY <2>9 DEF AggregateUnowned, Aggregate
    <2>10. CASE FailOwner
      BY <2>10 DEF FailOwner, Failed
    <2>11. CASE ReleaseOwner
      BY <2>11 DEF ReleaseOwner, Released, NoPath
    <2>12. CASE SettleOwner
      BY <2>12 DEF SettleOwner, Aggregate
    <2> QED
      BY <1>10, <2>1, <2>2, <2>3, <2>4, <2>5, <2>6, <2>7, <2>8, <2>9, <2>10, <2>11, <2>12
        DEF RecoverStuckFile
  <1>11. CASE RecoverJobs
    <2>1. ASSUME NEW j \in Attempts, RecoverInterruptedJob(j) PROVE SourceAt'
      BY <2>1 DEF RecoverInterruptedJob, CompletedBeforeCrash, Completed, Failed
    <2>2. CASE Ready
      BY <2>2 DEF Ready, NoCtx
    <2> QED
      BY <1>11, <2>1, <2>2 DEF RecoverJobs
  <1>12. CASE User
    <2>1. CASE StopOwned
      BY <2>1 DEF StopOwned
    <2>2. CASE StopQueued
      BY <2>2 DEF StopQueued
    <2>3. CASE StopJobs
      BY <2>3 DEF StopJobs, Active
    <2>4. CASE UserCreatesFinal
      BY <2>4 DEF UserCreatesFinal
    <2> QED
      BY <1>12, <2>1, <2>2, <2>3, <2>4 DEF User
  <1>13. ASSUME NEW j \in Attempts, Enqueue(j) PROVE SourceAt'
    BY <1>13 DEF Enqueue, Active
  <1>14. CASE Crash
    BY <1>14 DEF Crash, NoCtx
  <1>15. CASE UNCHANGED vars
    BY <1>15 DEF vars, Active
  <1> QED
    BY <1>1, <1>2, <1>3, <1>4, <1>5, <1>6, <1>7, <1>8, <1>9, <1>10, <1>11, <1>12, <1>13,
      <1>14, <1>15 DEF Next, Finalize, Startup

-----------------------------------------------------------------------------
\* Every step leaves a result where the next position counts on one.
LEMMA ResultAtKept == ASSUME Safe, [Next]_vars PROVE ResultAt'
  <1> USE CommitAssumption DEF Safe, Typed, Placed, TypeOK, FileType, Journals, NoJournal,
    ResultAt, ReplacedAt, RecordedAt, JournalAt, CommittedAt, Committed, SourceAt,
    OverwriteAt, OneActive, AdjacentAt, Write, Settle, Call, TryUnlink, Branch, Claim, Steady,
    me, StopWon
  <1>1. CASE Attempt
    <2>1. ASSUME NEW j \in Attempts, ClaimJob(j) PROVE ResultAt'
      BY <2>1 DEF ClaimJob, NoCtx
    <2>2. CASE PrepareCollision
      BY <2>2 DEF PrepareCollision, Preparable, Collision, WithResult, NoPath
    <2>3. CASE FailCollided
      BY <2>3 DEF FailCollided, Failed
    <2>4. CASE RecountCollided
      BY <2>4 DEF RecountCollided, Aggregate
    <2>5. CASE PrepareClaim
      BY <2>5 DEF PrepareClaim, Preparable, Collision, ScratchOf
    <2>6. CASE PrepareDefer
      BY <2>6 DEF PrepareDefer, Preparable
    <2>7. CASE RunnerWrites
      BY <2>7 DEF RunnerWrites
    <2>8. CASE ResultCancelled
      BY <2>8 DEF ResultCancelled
    <2>9. CASE ResultError
      BY <2>9 DEF ResultError
    <2>10. CASE ResultOk
      BY <2>10 DEF ResultOk
    <2> QED
      BY <1>1, <2>1, <2>2, <2>3, <2>4, <2>5, <2>6, <2>7, <2>8, <2>9, <2>10 DEF Attempt
  <1>2. CASE ToCommitPoint
    <2>1. CASE ClaimFinalizing
      BY <2>1 DEF ClaimFinalizing
    <2>2. CASE Validate
      BY <2>2 DEF Validate
    <2>3. CASE Filter
      BY <2>3 DEF Filter
    <2>4. CASE ClaimCommitting
      BY <2>4 DEF ClaimCommitting
    <2> QED
      BY <1>2, <2>1, <2>2, <2>3, <2>4 DEF ToCommitPoint
  <1>3. CASE FinishAdjacent
    <2>1. CASE Promote
      BY <2>1 DEF Promote
    <2>2. CASE LinkFinal
      BY <2>2 DEF LinkFinal
    <2>3. CASE ValidateFinal
      BY <2>3 DEF ValidateFinal
    <2>4. CASE JournalCommitted
      BY <2>4 DEF JournalCommitted
    <2>5. CASE PersistOutput
      BY <2>5 DEF PersistOutput, WithResult, NoPath, FinalPath
    <2>6. CASE CompleteOutput
      BY <2>6 DEF CompleteOutput, Completed
    <2>7. CASE AggregateOutput
      BY <2>7 DEF AggregateOutput, Aggregate
    <2>8. CASE JournalCleaned
      BY <2>8 DEF JournalCleaned
    <2>9. CASE UnlinkScratch
      BY <2>9 DEF UnlinkScratch, Without, NoPath, ScratchOf
    <2>10. CASE UnjournalScratch
      BY <2>10 DEF UnjournalScratch, NoPath, ScratchOf
    <2>11. CASE ReleaseOutput
      BY <2>11 DEF ReleaseOutput, TerminalOwnerCanRelease, Released, NoPath
    <2> QED
      BY <1>3, <2>1, <2>2, <2>3, <2>4, <2>5, <2>6, <2>7, <2>8, <2>9, <2>10, <2>11
        DEF FinishAdjacent
  <1>4. CASE FinishOverwrite
    <2>1. CASE Replace
      BY <2>1 DEF Replace
    <2>2. CASE RenameToBackup
      BY <2>2 DEF RenameToBackup
    <2>3. CASE RenameOutput
      BY <2>3 DEF RenameOutput
    <2>4. CASE RenameBack
      BY <2>4 DEF RenameBack, Restored
    <2>5. CASE StatSource
      BY <2>5 DEF StatSource
    <2>6. CASE MarkReplaced
      BY <2>6 DEF MarkReplaced
    <2>7. CASE UnlinkBackup
      BY <2>7 DEF UnlinkBackup, Without, NoPath, BackupOf
    <2>8. CASE ReleaseReplaced
      BY <2>8 DEF ReleaseReplaced, TerminalOwnerCanRelease, Released, NoPath
    <2>9. CASE EraseJournal
      BY <2>9 DEF EraseJournal, NoPath, BackupOf
    <2> QED
      BY <1>4, <2>1, <2>2, <2>3, <2>4, <2>5, <2>6, <2>7, <2>8, <2>9 DEF FinishOverwrite
  <1>5. CASE FinishRejected
    <2>1. CASE ValidateRejected
      BY <2>1 DEF ValidateRejected
    <2>2. CASE DeleteRejected
      BY <2>2 DEF DeleteRejected, Without, ScratchOf
    <2>3. CASE PersistRejected
      BY <2>3 DEF PersistRejected, WithResult, NoPath, ScratchOf
    <2>4. CASE CompleteRejected
      BY <2>4 DEF CompleteRejected, Completed
    <2>5. CASE AggregateRejected
      BY <2>5 DEF AggregateRejected, Aggregate
    <2>6. CASE UnjournalRejected
      BY <2>6 DEF UnjournalRejected
    <2>7. CASE ReleaseRejected
      BY <2>7 DEF ReleaseRejected, TerminalOwnerCanRelease, Released, NoPath
    <2> QED
      BY <1>5, <2>1, <2>2, <2>3, <2>4, <2>5, <2>6, <2>7 DEF FinishRejected
  <1>6. CASE FinishStopped
    <2>1. CASE StopClean
      BY <2>1 DEF StopClean, Without, NoPath, ScratchOf
    <2>2. CASE StopWrite
      BY <2>2 DEF StopWrite, NoPath
    <2>3. CASE StopComplete
      BY <2>3 DEF StopComplete, Completed
    <2>4. CASE StopRelease
      BY <2>4 DEF StopRelease, Released, NoPath
    <2> QED
      BY <1>6, <2>1, <2>2, <2>3, <2>4 DEF FinishStopped
  <1>7. CASE FinishFailure
    <2>1. CASE FailClaim
      BY <2>1 DEF FailClaim
    <2>2. CASE FailClean
      BY <2>2 DEF FailClean, Without, NoPath, ScratchOf
    <2>3. CASE FailPersist
      BY <2>3 DEF FailPersist, WithResult, NoPath
    <2>4. CASE FailJob
      BY <2>4 DEF FailJob, Failed
    <2>5. CASE FailAggregate
      BY <2>5 DEF FailAggregate, Aggregate
    <2>6. CASE FailRelease
      BY <2>6 DEF FailRelease, FailedOwnerCanRelease, NoPath, Released
    <2> QED
      BY <1>7, <2>1, <2>2, <2>3, <2>4, <2>5, <2>6 DEF FinishFailure
  <1>8. CASE RollBack
    <2>1. CASE HandleError
      BY <2>1 DEF HandleError
    <2>2. CASE UndoFinal
      BY <2>2 DEF UndoFinal, OwnFinal
    <2>3. CASE RestoreBackup
      BY <2>3 DEF RestoreBackup, Restored
    <2>4. CASE UndoScratch
      BY <2>4 DEF UndoScratch, Without, ScratchOf, FailureFinalizing
    <2>5. CASE UndoFailed
      BY <2>5 DEF UndoFailed
    <2>6. CASE FailUndone
      BY <2>6 DEF FailUndone, Failed
    <2> QED
      BY <1>8, <2>1, <2>2, <2>3, <2>4, <2>5, <2>6 DEF RollBack
  <1>9. CASE RecoverJournal
    <2>1. CASE Boot
      BY <2>1 DEF Boot, NoCtx, CrashedTask, RolledForward, FailureFinalizing
    <2>2. CASE StatOutput
      BY <2>2 DEF StatOutput
    <2>3. CASE RecoverFailure
      BY <2>3 DEF RecoverFailure, WithResult, NoPath
    <2>4. CASE FailInterrupted
      BY <2>4 DEF FailInterrupted, Failed
    <2>5. CASE UnjournalUndone
      BY <2>5 DEF UnjournalUndone, NoPath
    <2>6. CASE ReleaseUndone
      BY <2>6 DEF ReleaseUndone, Released, NoPath
    <2>7. CASE AggregateUndone
      BY <2>7 DEF AggregateUndone, Aggregate
    <2>8. CASE BootError
      BY <2>8 DEF BootError, BackupOf, ScratchOf
    <2> QED
      BY <1>9, <2>1, <2>2, <2>3, <2>4, <2>5, <2>6, <2>7, <2>8 DEF RecoverJournal
  <1>10. CASE RecoverStuckFile
    <2>1. CASE ReadStuck
      BY <2>1 DEF ReadStuck, NoCtx, CommittingResidue
    <2>2. CASE RemoveResidue
      BY <2>2 DEF RemoveResidue, NoPath, Without
    <2>3. CASE ForgetResidue
      BY <2>3 DEF ForgetResidue, NoPath
    <2>4. CASE FailResidue
      BY <2>4 DEF FailResidue, Failed
    <2>5. CASE AggregateResidue
      BY <2>5 DEF AggregateResidue, Aggregate
    <2>6. CASE ReleaseResidue
      BY <2>6 DEF ReleaseResidue, ResidueCanRelease, FailedOwnerCanRelease, NoPath,
        TerminalOwnerCanRelease, Released
    <2>7. CASE ReadInterrupted
      BY <2>7 DEF ReadInterrupted, Without, NoPath
    <2>8. CASE RequeueUnowned
      BY <2>8 DEF RequeueUnowned, NoPath
    <2>9. CASE AggregateUnowned
      BY <2>9 DEF AggregateUnowned, Aggregate
    <2>10. CASE FailOwner
      BY <2>10 DEF FailOwner, Failed
    <2>11. CASE ReleaseOwner
      BY <2>11 DEF ReleaseOwner, Released, NoPath
    <2>12. CASE SettleOwner
      BY <2>12 DEF SettleOwner, Aggregate
    <2> QED
      BY <1>10, <2>1, <2>2, <2>3, <2>4, <2>5, <2>6, <2>7, <2>8, <2>9, <2>10, <2>11, <2>12
        DEF RecoverStuckFile
  <1>11. CASE RecoverJobs
    <2>1. ASSUME NEW j \in Attempts, RecoverInterruptedJob(j) PROVE ResultAt'
      BY <2>1 DEF RecoverInterruptedJob, CompletedBeforeCrash, Completed, Failed
    <2>2. CASE Ready
      BY <2>2 DEF Ready, NoCtx
    <2> QED
      BY <1>11, <2>1, <2>2 DEF RecoverJobs
  <1>12. CASE User
    <2>1. CASE StopOwned
      BY <2>1 DEF StopOwned
    <2>2. CASE StopQueued
      BY <2>2 DEF StopQueued
    <2>3. CASE StopJobs
      BY <2>3 DEF StopJobs, Active
    <2>4. CASE UserCreatesFinal
      BY <2>4 DEF UserCreatesFinal
    <2> QED
      BY <1>12, <2>1, <2>2, <2>3, <2>4 DEF User
  <1>13. ASSUME NEW j \in Attempts, Enqueue(j) PROVE ResultAt'
    BY <1>13 DEF Enqueue, Active
  <1>14. CASE Crash
    BY <1>14 DEF Crash, NoCtx
  <1>15. CASE UNCHANGED vars
    BY <1>15 DEF vars, Active
  <1> QED
    BY <1>1, <1>2, <1>3, <1>4, <1>5, <1>6, <1>7, <1>8, <1>9, <1>10, <1>11, <1>12, <1>13,
      <1>14, <1>15 DEF Next, Finalize, Startup

-----------------------------------------------------------------------------
\* Every step leaves one attempt active, the one the procedure and the journal
\* are of, and a pending one only while the file has no result.
LEMMA OneActiveKept == ASSUME Safe, [Next]_vars PROVE OneActive'
  <1> USE CommitAssumption DEF Safe, Typed, Placed, TypeOK, FileType, Journals, NoJournal,
    OneActive, Active, Detached, JobType, JournalAt, ResultAt, Write, Settle, Call, TryUnlink,
    Branch, Claim, Steady, me, StopWon
  <1>1. CASE Attempt
    <2>1. ASSUME NEW j \in Attempts, ClaimJob(j) PROVE OneActive'
      BY <2>1 DEF ClaimJob, NoCtx
    <2>2. CASE PrepareCollision
      BY <2>2 DEF PrepareCollision, Preparable, Collision, WithResult, NoPath
    <2>3. CASE FailCollided
      BY <2>3 DEF FailCollided, Failed
    <2>4. CASE RecountCollided
      BY <2>4 DEF RecountCollided, Aggregate
    <2>5. CASE PrepareClaim
      BY <2>5 DEF PrepareClaim, Preparable, Collision, ScratchOf
    <2>6. CASE PrepareDefer
      BY <2>6 DEF PrepareDefer, Preparable
    <2>7. CASE RunnerWrites
      BY <2>7 DEF RunnerWrites
    <2>8. CASE ResultCancelled
      BY <2>8 DEF ResultCancelled
    <2>9. CASE ResultError
      BY <2>9 DEF ResultError
    <2>10. CASE ResultOk
      BY <2>10 DEF ResultOk
    <2> QED
      BY <1>1, <2>1, <2>2, <2>3, <2>4, <2>5, <2>6, <2>7, <2>8, <2>9, <2>10 DEF Attempt
  <1>2. CASE ToCommitPoint
    <2>1. CASE ClaimFinalizing
      BY <2>1 DEF ClaimFinalizing
    <2>2. CASE Validate
      BY <2>2 DEF Validate
    <2>3. CASE Filter
      BY <2>3 DEF Filter
    <2>4. CASE ClaimCommitting
      BY <2>4 DEF ClaimCommitting
    <2> QED
      BY <1>2, <2>1, <2>2, <2>3, <2>4 DEF ToCommitPoint
  <1>3. CASE FinishAdjacent
    <2>1. CASE Promote
      <3>1. CASE StopWon
        BY <2>1, <3>1 DEF Promote
      <3>2. CASE ~StopWon
        <4>1. /\ UNCHANGED <<job, ctx, file.result>> /\ pc \notin Detached
              /\ file.journal # NoJournal /\ file'.journal.job = file.journal.job
          BY <2>1, <3>2, PromoteWrites DEF PreparedAt
        <4> QED
          BY <4>1, JournalMoved
      <3> QED
        BY <3>1, <3>2
    <2>2. CASE LinkFinal
      BY <2>2 DEF LinkFinal
    <2>3. CASE ValidateFinal
      BY <2>3 DEF ValidateFinal
    <2>4. CASE JournalCommitted
      <3>1. /\ UNCHANGED <<job, ctx, file.result>> /\ pc \notin Detached
            /\ file.journal # NoJournal /\ file'.journal.job = file.journal.job
        BY <2>4, CommitWrites DEF PromotingAt, CommittedAt, Committed
      <3> QED
        BY <3>1, JournalMoved
    <2>5. CASE PersistOutput
      BY <2>5 DEF PersistOutput, WithResult, NoPath, FinalPath
    <2>6. CASE CompleteOutput
      BY <2>6 DEF CompleteOutput, Completed
    <2>7. CASE AggregateOutput
      BY <2>7 DEF AggregateOutput, Aggregate
    <2>8. CASE JournalCleaned
      <3>1. /\ UNCHANGED <<job, ctx, file.result>> /\ pc \notin Detached
            /\ file.journal # NoJournal /\ file'.journal.job = file.journal.job
        BY <2>8, CleanWrites DEF PromotingAt, CommittedAt, Committed
      <3> QED
        BY <3>1, JournalMoved
    <2>9. CASE UnlinkScratch
      <3>1. UNCHANGED <<file, job>> /\ ctx'.job = me /\ pc \notin Detached
        BY <2>9 DEF UnlinkScratch, CtxType
      <3> QED
        BY <3>1
    <2>10. CASE UnjournalScratch
      BY <2>10 DEF UnjournalScratch, NoPath, ScratchOf
    <2>11. CASE ReleaseOutput
      BY <2>11 DEF ReleaseOutput, TerminalOwnerCanRelease, Released, NoPath
    <2> QED
      BY <1>3, <2>1, <2>2, <2>3, <2>4, <2>5, <2>6, <2>7, <2>8, <2>9, <2>10, <2>11
        DEF FinishAdjacent
  <1>4. CASE FinishOverwrite
    <2>1. CASE Replace
      <3>1. CASE StopWon
        BY <2>1, <3>1 DEF Replace
      <3>2. CASE ~StopWon
        <4>1. /\ UNCHANGED <<job, ctx, file.result>> /\ pc \notin Detached
              /\ file.journal # NoJournal /\ file'.journal.job = file.journal.job
          BY <2>1, <3>2, ReplaceWrites DEF PreparedAt
        <4> QED
          BY <4>1, JournalMoved
      <3> QED
        BY <3>1, <3>2
    <2>2. CASE RenameToBackup
      BY <2>2 DEF RenameToBackup
    <2>3. CASE RenameOutput
      BY <2>3 DEF RenameOutput
    <2>4. CASE RenameBack
      BY <2>4 DEF RenameBack, Restored
    <2>5. CASE StatSource
      BY <2>5 DEF StatSource
    <2>6. CASE MarkReplaced
      BY <2>6 DEF MarkReplaced
    <2>7. CASE UnlinkBackup
      <3>1. UNCHANGED <<file, job>> /\ ctx'.job = me /\ pc \notin Detached
        BY <2>7 DEF UnlinkBackup, CtxType
      <3> QED
        BY <3>1
    <2>8. CASE ReleaseReplaced
      BY <2>8 DEF ReleaseReplaced, TerminalOwnerCanRelease, Released, NoPath
    <2>9. CASE EraseJournal
      BY <2>9 DEF EraseJournal, NoPath, BackupOf
    <2> QED
      BY <1>4, <2>1, <2>2, <2>3, <2>4, <2>5, <2>6, <2>7, <2>8, <2>9 DEF FinishOverwrite
  <1>5. CASE FinishRejected
    <2>1. CASE ValidateRejected
      BY <2>1 DEF ValidateRejected
    <2>2. CASE DeleteRejected
      BY <2>2 DEF DeleteRejected, Without, ScratchOf
    <2>3. CASE PersistRejected
      BY <2>3 DEF PersistRejected, WithResult, NoPath, ScratchOf
    <2>4. CASE CompleteRejected
      BY <2>4 DEF CompleteRejected, Completed
    <2>5. CASE AggregateRejected
      BY <2>5 DEF AggregateRejected, Aggregate
    <2>6. CASE UnjournalRejected
      BY <2>6 DEF UnjournalRejected
    <2>7. CASE ReleaseRejected
      BY <2>7 DEF ReleaseRejected, TerminalOwnerCanRelease, Released, NoPath
    <2> QED
      BY <1>5, <2>1, <2>2, <2>3, <2>4, <2>5, <2>6, <2>7 DEF FinishRejected
  <1>6. CASE FinishStopped
    <2>1. CASE StopClean
      <3>1. UNCHANGED <<file, job>> /\ ctx'.job = me /\ pc \notin Detached
        BY <2>1 DEF StopClean, CtxType
      <3> QED
        BY <3>1
    <2>2. CASE StopWrite
      BY <2>2 DEF StopWrite, NoPath
    <2>3. CASE StopComplete
      BY <2>3 DEF StopComplete, Completed
    <2>4. CASE StopRelease
      BY <2>4 DEF StopRelease, Released, NoPath
    <2> QED
      BY <1>6, <2>1, <2>2, <2>3, <2>4 DEF FinishStopped
  <1>7. CASE FinishFailure
    <2>1. CASE FailClaim
      BY <2>1 DEF FailClaim
    <2>2. CASE FailClean
      <3>1. UNCHANGED <<file, job>> /\ ctx'.job = me /\ pc \notin Detached
        BY <2>2 DEF FailClean, CtxType
      <3> QED
        BY <3>1
    <2>3. CASE FailPersist
      BY <2>3 DEF FailPersist, WithResult, NoPath
    <2>4. CASE FailJob
      BY <2>4 DEF FailJob, Failed
    <2>5. CASE FailAggregate
      BY <2>5 DEF FailAggregate, Aggregate
    <2>6. CASE FailRelease
      BY <2>6 DEF FailRelease, FailedOwnerCanRelease, NoPath, Released
    <2> QED
      BY <1>7, <2>1, <2>2, <2>3, <2>4, <2>5, <2>6 DEF FinishFailure
  <1>8. CASE RollBack
    <2>1. CASE HandleError
      BY <2>1 DEF HandleError
    <2>2. CASE UndoFinal
      BY <2>2 DEF UndoFinal, OwnFinal
    <2>3. CASE RestoreBackup
      BY <2>3 DEF RestoreBackup, Restored
    <2>4. CASE UndoScratch
      BY <2>4 DEF UndoScratch, Without, ScratchOf, FailureFinalizing
    <2>5. CASE UndoFailed
      BY <2>5 DEF UndoFailed
    <2>6. CASE FailUndone
      BY <2>6 DEF FailUndone, Failed
    <2> QED
      BY <1>8, <2>1, <2>2, <2>3, <2>4, <2>5, <2>6 DEF RollBack
  <1>9. CASE RecoverJournal
    <2>1. CASE Boot
      BY <2>1 DEF Boot, NoCtx, CrashedTask, RolledForward, FailureFinalizing
    <2>2. CASE StatOutput
      BY <2>2 DEF StatOutput
    <2>3. CASE RecoverFailure
      BY <2>3 DEF RecoverFailure, WithResult, NoPath
    <2>4. CASE FailInterrupted
      BY <2>4 DEF FailInterrupted, Failed
    <2>5. CASE UnjournalUndone
      BY <2>5 DEF UnjournalUndone, NoPath
    <2>6. CASE ReleaseUndone
      BY <2>6 DEF ReleaseUndone, Released, NoPath
    <2>7. CASE AggregateUndone
      BY <2>7 DEF AggregateUndone, Aggregate
    <2>8. CASE BootError
      BY <2>8 DEF BootError, BackupOf, ScratchOf
    <2> QED
      BY <1>9, <2>1, <2>2, <2>3, <2>4, <2>5, <2>6, <2>7, <2>8 DEF RecoverJournal
  <1>10. CASE RecoverStuckFile
    <2>1. CASE ReadStuck
      BY <2>1 DEF ReadStuck, NoCtx, CommittingResidue
    <2>2. CASE RemoveResidue
      BY <2>2 DEF RemoveResidue, NoPath, Without
    <2>3. CASE ForgetResidue
      BY <2>3 DEF ForgetResidue, NoPath
    <2>4. CASE FailResidue
      BY <2>4 DEF FailResidue, Failed
    <2>5. CASE AggregateResidue
      BY <2>5 DEF AggregateResidue, Aggregate
    <2>6. CASE ReleaseResidue
      BY <2>6 DEF ReleaseResidue, ResidueCanRelease, FailedOwnerCanRelease, NoPath,
        TerminalOwnerCanRelease, Released
    <2>7. CASE ReadInterrupted
      BY <2>7 DEF ReadInterrupted, Without, NoPath
    <2>8. CASE RequeueUnowned
      BY <2>8 DEF RequeueUnowned, NoPath
    <2>9. CASE AggregateUnowned
      BY <2>9 DEF AggregateUnowned, Aggregate
    <2>10. CASE FailOwner
      BY <2>10 DEF FailOwner, Failed
    <2>11. CASE ReleaseOwner
      BY <2>11 DEF ReleaseOwner, Released, NoPath
    <2>12. CASE SettleOwner
      BY <2>12 DEF SettleOwner, Aggregate
    <2> QED
      BY <1>10, <2>1, <2>2, <2>3, <2>4, <2>5, <2>6, <2>7, <2>8, <2>9, <2>10, <2>11, <2>12
        DEF RecoverStuckFile
  <1>11. CASE RecoverJobs
    <2>1. ASSUME NEW j \in Attempts, RecoverInterruptedJob(j) PROVE OneActive'
      BY <2>1 DEF RecoverInterruptedJob, CompletedBeforeCrash, Completed, Failed
    <2>2. CASE Ready
      BY <2>2 DEF Ready, NoCtx
    <2> QED
      BY <1>11, <2>1, <2>2 DEF RecoverJobs
  <1>12. CASE User
    <2>1. CASE StopOwned
      BY <2>1 DEF StopOwned
    <2>2. CASE StopQueued
      BY <2>2 DEF StopQueued
    <2>3. CASE StopJobs
      BY <2>3 DEF StopJobs
    <2>4. CASE UserCreatesFinal
      BY <2>4 DEF UserCreatesFinal
    <2> QED
      BY <1>12, <2>1, <2>2, <2>3, <2>4 DEF User
  <1>13. ASSUME NEW j \in Attempts, Enqueue(j) PROVE OneActive'
    BY <1>13 DEF Enqueue
  <1>14. CASE Crash
    BY <1>14 DEF Crash, NoCtx
  <1>15. CASE UNCHANGED vars
    BY <1>15 DEF vars, Active
  <1> QED
    BY <1>1, <1>2, <1>3, <1>4, <1>5, <1>6, <1>7, <1>8, <1>9, <1>10, <1>11, <1>12, <1>13,
      <1>14, <1>15 DEF Next, Finalize, Startup

-----------------------------------------------------------------------------
\* Only prepare gives the file an owner; every other write keeps it or clears it.
LEMMA OnlyPrepareClaims ==
    ASSUME TypeOK, [Next]_vars
    PROVE  PrepareClaim \/ file'.owner \in {file.owner, NoJob}
  <1> USE DEF TypeOK, FileType, Steady, Write, Settle, Branch, Claim, Call, TryUnlink,
          WithResult, Released
  <1>1. CASE Attempt
    BY <1>1 DEF Attempt, ClaimJob, PrepareCollision, FailCollided, RecountCollided,
      PrepareDefer, RunnerWrites, ResultCancelled, ResultError, ResultOk
  <1>2. CASE ToCommitPoint
    BY <1>2 DEF ToCommitPoint, ClaimFinalizing, Validate, Filter, ClaimCommitting
  <1>3. CASE FinishAdjacent
    BY <1>3 DEF FinishAdjacent, Promote, LinkFinal, ValidateFinal, JournalCommitted,
      PersistOutput, CompleteOutput, AggregateOutput, JournalCleaned, UnlinkScratch,
      UnjournalScratch, ReleaseOutput
  <1>4. CASE FinishOverwrite
    BY <1>4 DEF FinishOverwrite, Replace, RenameToBackup, RenameOutput, RenameBack,
      StatSource, MarkReplaced, UnlinkBackup, ReleaseReplaced, EraseJournal
  <1>5. CASE FinishRejected
    BY <1>5 DEF FinishRejected, ValidateRejected, DeleteRejected, PersistRejected,
      CompleteRejected, AggregateRejected, UnjournalRejected, ReleaseRejected
  <1>6. CASE FinishStopped
    BY <1>6 DEF FinishStopped, StopClean, StopWrite, StopComplete, StopRelease
  <1>7. CASE FinishFailure
    BY <1>7 DEF FinishFailure, FailClaim, FailClean, FailPersist, FailJob, FailAggregate,
      FailRelease
  <1>8. CASE RollBack
    BY <1>8 DEF RollBack, HandleError, UndoFinal, RestoreBackup, UndoScratch, UndoFailed,
      FailUndone
  <1>9. CASE RecoverJournal
    BY <1>9 DEF RecoverJournal, Boot, StatOutput, RecoverFailure, FailInterrupted,
      UnjournalUndone, ReleaseUndone, AggregateUndone, BootError
  <1>10. CASE RecoverStuckFile
    BY <1>10 DEF RecoverStuckFile, ReadStuck, RemoveResidue, ForgetResidue, FailResidue,
      AggregateResidue, ReleaseResidue, ReadInterrupted, RequeueUnowned, AggregateUnowned,
      FailOwner, ReleaseOwner, SettleOwner
  <1>11. CASE RecoverJobs
    BY <1>11 DEF RecoverJobs, RecoverInterruptedJob, Ready
  <1>12. CASE User
    BY <1>12 DEF User, StopOwned, StopQueued, StopJobs, UserCreatesFinal
  <1>13. ASSUME NEW j \in Attempts, Enqueue(j) PROVE file'.owner \in {file.owner, NoJob}
    BY <1>13 DEF Enqueue
  <1>14. CASE Crash
    BY <1>14 DEF Crash
  <1>15. CASE UNCHANGED vars
    BY <1>15 DEF vars
  <1> QED
    BY <1>1, <1>2, <1>3, <1>4, <1>5, <1>6, <1>7, <1>8, <1>9, <1>10, <1>11, <1>12, <1>13,
      <1>14, <1>15 DEF Next, Finalize, Startup

\* Initially nothing runs and the original is in its place.
LEMMA InitSafe == Init => Safe
  <1> SUFFICES ASSUME Init PROVE JournalAt /\ SourceAt /\ ResultAt /\ OneActive
    BY InitTyped DEF Safe
  <1> USE DEF Init, FreshFile, FreshDisk, NoResult, NoJournal
  <1>1. JournalAt
    BY DEF JournalAt, PreparedAt, PromotingAt, CommittedAt, NoJournalAt, Committed
  <1>2. SourceAt
    BY DEF SourceAt, AdjacentAt, OverwriteAt, OriginalAt, Committed
  <1>3. ResultAt /\ OneActive
    BY DEF ResultAt, RecordedAt, ReplacedAt, OneActive, Active, Detached
  <1> QED
    BY <1>1, <1>2, <1>3

(***************************************************************************)
(* The theorems.                                                           *)
(***************************************************************************)
\* The inductive invariant holds in every reachable state.
THEOREM SafeHolds == Spec => []Safe
  <1>1. Safe /\ [Next]_vars => Safe'
    BY TypedKept, JournalAtKept, SourceAtKept, ResultAtKept, OneActiveKept DEF Safe
  <1> QED
    BY InitSafe, <1>1, PTL DEF Spec

\* Whatever is interrupted in finishOverwriteSuccess, the original is in its
\* place, in a backup that the journal names, or replaced behind a durable commit.
THEOREM OriginalNeverLost == Spec => []OriginalRecoverable
  <1>1. Safe => OriginalRecoverable
    BY DEF Safe, Typed, TypeOK, FileType, Journals, NoJournal, SourceAt, OriginalRecoverable,
           Committed
  <1> QED
    BY SafeHolds, <1>1, PTL

\* prepare claims a file only while its source is the original, however the
\* attempts before it ended.
THEOREM NoTranscodeOfAnOutput == Spec => OnlyOriginalsTranscoded
  <1>1. ASSUME Safe, [Next]_vars
        PROVE  [file'.owner # NoJob /\ file'.owner # file.owner
                  => disk.source = "original"]_file
    <2>1. CASE PrepareClaim
      <3>1. file.result.status # "replaced" /\ file.journal.phase = "none"
        BY <1>1, <2>1 DEF PrepareClaim, Write, Safe, ResultAt, JournalAt, NoJournalAt, NoJournal
      <3> QED
        BY <1>1, <3>1 DEF Safe, SourceAt
    <2>2. CASE file'.owner \in {file.owner, NoJob}
      BY <2>2
    <2> QED
      BY <1>1, <2>1, <2>2, OnlyPrepareClaims DEF Safe, Typed
  <1> QED
    BY <1>1, SafeHolds, PTL DEF Spec, OnlyOriginalsTranscoded

-----------------------------------------------------------------------------
(***************************************************************************)
(* The third layer: which results a journal admits (OutcomeAt), what a     *)
(* path that names a backup goes with (BackupAt), and that the release of  *)
(* an adjacent output finds its gate open while the monitor is up          *)
(* (GateAt): a refused release would roll a published output back.         *)
(***************************************************************************)
\* Where no result is recorded yet, where the journal is not committed, and
\* where the recorded result is the one the journal admits.
UndecidedAt == {"transcode", "finalize", "validate", "filter", "commit", "promote", "link",
                "linked", "replace", "renameToBackup", "renameOutput", "statSource",
                "journalCommitted", "reject", "deleteRejected", "persistRejected"}
UncommittedAt == {"error", "undo", "undoScratch", "undoFailed", "recoverFailure", "failClaim",
                  "failClean", "failPersist", "failInterrupted", "unjournalUndone",
                  "stopClean", "stopWrite"}
DecidedAt == {"complete", "aggregate", "journalCleaned", "unlinkScratch", "unjournalScratch"}
RejectedAt == {"transcode", "finalize", "validate", "filter", "commit", "reject",
               "deleteRejected", "persistRejected", "completeRejected", "aggregateRejected",
               "unjournalRejected"}

Admitted == IF mode = "overwrite" THEN "replaced" ELSE file.journal.res

OutcomeAt ==
    /\ pc \in UndecidedAt => file.result.status = "none"
    /\ pc \in UncommittedAt => file.journal.phase \in {"prepared", "promoting"}
    /\ pc \in DecidedAt => file.result.status = Admitted
    /\ file.failing => ~Committed(file.journal)
    /\ file.journal.phase \in {"prepared", "promoting"} =>
          file.result.status \notin {"done", "replaced"}
    /\ Committed(file.journal) => file.result.status \in {"none", Admitted}

\* A path that names a backup: of a published output, or of a journal.
BackupAt ==
    /\ pc \in RejectedAt => file.path.kind = "scratch"
    /\ pc = "bootError" => file.journal # NoJournal \/ mode = "adjacent"
    /\ file.path.kind = "backup" =>
          file.result.status = "replaced" \/ file.journal # NoJournal

\* What releaseTerminalOwner asks holds when an adjacent output is released.
ClaimedAt == {"transcode", "finalize", "validate", "filter", "commit"}
PublishingAt == {"promote", "link", "linked", "journalCommitted", "persist", "complete"}
PublishedAt == {"journalCleaned", "unlinkScratch", "unjournalScratch", "releaseOutput"}

GateAt ==
    /\ life = "down" => pc = "idle"
    /\ pc = "statOutput" => life = "boot"
    /\ life = "up" /\ mode = "adjacent" =>
        /\ pc \in ClaimedAt \union PublishingAt \union PublishedAt \union {"aggregate"} =>
              file.owner = me
        /\ pc \in {"prepare"} \union ClaimedAt \union PublishingAt => job[me] = "running"
        /\ pc \in PublishedAt \union {"aggregate"} =>
              job[me] = "done" /\ file.result.status # "none"
        /\ pc \in PublishingAt \union PublishedAt \union {"aggregate"} =>
              file.phase = "committing" /\ ~StopWon
        /\ pc \in PublishedAt => file.status # "processing"
        /\ pc \in {"unlinkScratch", "unjournalScratch"} => file.journal.phase = "cleaned"
        /\ pc = "releaseOutput" => file.journal.phase \in {"none", "cleaned"}

Decided == Safe /\ OutcomeAt /\ BackupAt /\ GateAt

-----------------------------------------------------------------------------
\* Every step leaves a result that the journal admits: none before the commit
\* point, the journal's own after it.
LEMMA OutcomeAtKept == ASSUME Decided, [Next]_vars PROVE OutcomeAt'
  <1> USE CommitAssumption DEF Decided, Safe, Typed, Placed, TypeOK, FileType, Journals,
    NoJournal, OutcomeAt, UndecidedAt, UncommittedAt, DecidedAt, Admitted, Committed,
    JournalAt, PreparedAt, PromotingAt, CommittedAt, NoJournalAt, Detached, Journaling,
    ResultAt, ReplacedAt, RecordedAt, SourceAt, AdjacentAt, OverwriteAt, Write, Settle, Call,
    TryUnlink, Branch, Claim, Steady, me, StopWon
  <1>1. CASE Attempt
    <2>1. ASSUME NEW j \in Attempts, ClaimJob(j) PROVE OutcomeAt'
      BY <2>1 DEF ClaimJob, NoCtx
    <2>2. CASE PrepareCollision
      BY <2>2 DEF PrepareCollision, Preparable, Collision, WithResult, NoPath
    <2>3. CASE FailCollided
      BY <2>3 DEF FailCollided, Failed
    <2>4. CASE RecountCollided
      BY <2>4 DEF RecountCollided, Aggregate
    <2>5. CASE PrepareClaim
      BY <2>5 DEF PrepareClaim, Preparable, Collision, ScratchOf
    <2>6. CASE PrepareDefer
      BY <2>6 DEF PrepareDefer, Preparable
    <2>7. CASE RunnerWrites
      BY <2>7 DEF RunnerWrites
    <2>8. CASE ResultCancelled
      BY <2>8 DEF ResultCancelled
    <2>9. CASE ResultError
      BY <2>9 DEF ResultError
    <2>10. CASE ResultOk
      BY <2>10 DEF ResultOk
    <2> QED
      BY <1>1, <2>1, <2>2, <2>3, <2>4, <2>5, <2>6, <2>7, <2>8, <2>9, <2>10 DEF Attempt
  <1>2. CASE ToCommitPoint
    <2>1. CASE ClaimFinalizing
      BY <2>1 DEF ClaimFinalizing
    <2>2. CASE Validate
      BY <2>2 DEF Validate
    <2>3. CASE Filter
      BY <2>3 DEF Filter
    <2>4. CASE ClaimCommitting
      BY <2>4 DEF ClaimCommitting
    <2> QED
      BY <1>2, <2>1, <2>2, <2>3, <2>4 DEF ToCommitPoint
  <1>3. CASE FinishAdjacent
    <2>1. CASE Promote
      BY <2>1 DEF Promote
    <2>2. CASE LinkFinal
      BY <2>2 DEF LinkFinal
    <2>3. CASE ValidateFinal
      BY <2>3 DEF ValidateFinal
    <2>4. CASE JournalCommitted
      BY <2>4 DEF JournalCommitted
    <2>5. CASE PersistOutput
      BY <2>5 DEF PersistOutput, WithResult, NoPath, FinalPath
    <2>6. CASE CompleteOutput
      BY <2>6 DEF CompleteOutput, Completed
    <2>7. CASE AggregateOutput
      BY <2>7 DEF AggregateOutput, Aggregate
    <2>8. CASE JournalCleaned
      BY <2>8 DEF JournalCleaned
    <2>9. CASE UnlinkScratch
      BY <2>9 DEF UnlinkScratch, Without, NoPath, ScratchOf
    <2>10. CASE UnjournalScratch
      BY <2>10 DEF UnjournalScratch, NoPath, ScratchOf
    <2>11. CASE ReleaseOutput
      <3>1. life = "boot" \/ (life = "up" /\ TerminalOwnerCanRelease(me))
        BY <2>11 DEF ReleaseOutput, GateAt, PublishedAt, TerminalOwnerCanRelease
      <3>2. /\ UNCHANGED <<mode, file.journal, file.result>>
            /\ pc' \in {"stuck", "idle", "bootError"}
            /\ file'.failing => file.failing
        BY <2>11, <3>1 DEF ReleaseOutput, Released
      <3> QED
        BY <3>2
    <2> QED
      BY <1>3, <2>1, <2>2, <2>3, <2>4, <2>5, <2>6, <2>7, <2>8, <2>9, <2>10, <2>11
        DEF FinishAdjacent
  <1>4. CASE FinishOverwrite
    <2>1. CASE Replace
      BY <2>1 DEF Replace
    <2>2. CASE RenameToBackup
      BY <2>2 DEF RenameToBackup
    <2>3. CASE RenameOutput
      BY <2>3 DEF RenameOutput
    <2>4. CASE RenameBack
      BY <2>4 DEF RenameBack, Restored
    <2>5. CASE StatSource
      BY <2>5 DEF StatSource
    <2>6. CASE MarkReplaced
      BY <2>6 DEF MarkReplaced
    <2>7. CASE UnlinkBackup
      BY <2>7 DEF UnlinkBackup, Without, NoPath, BackupOf
    <2>8. CASE ReleaseReplaced
      BY <2>8 DEF ReleaseReplaced, TerminalOwnerCanRelease, Released, NoPath
    <2>9. CASE EraseJournal
      BY <2>9 DEF EraseJournal, NoPath, BackupOf
    <2> QED
      BY <1>4, <2>1, <2>2, <2>3, <2>4, <2>5, <2>6, <2>7, <2>8, <2>9 DEF FinishOverwrite
  <1>5. CASE FinishRejected
    <2>1. CASE ValidateRejected
      BY <2>1 DEF ValidateRejected
    <2>2. CASE DeleteRejected
      BY <2>2 DEF DeleteRejected, Without, ScratchOf
    <2>3. CASE PersistRejected
      BY <2>3 DEF PersistRejected, WithResult, NoPath, ScratchOf
    <2>4. CASE CompleteRejected
      BY <2>4 DEF CompleteRejected, Completed
    <2>5. CASE AggregateRejected
      BY <2>5 DEF AggregateRejected, Aggregate
    <2>6. CASE UnjournalRejected
      BY <2>6 DEF UnjournalRejected
    <2>7. CASE ReleaseRejected
      BY <2>7 DEF ReleaseRejected, TerminalOwnerCanRelease, Released, NoPath
    <2> QED
      BY <1>5, <2>1, <2>2, <2>3, <2>4, <2>5, <2>6, <2>7 DEF FinishRejected
  <1>6. CASE FinishStopped
    <2>1. CASE StopClean
      BY <2>1 DEF StopClean, Without, NoPath, ScratchOf
    <2>2. CASE StopWrite
      BY <2>2 DEF StopWrite, NoPath
    <2>3. CASE StopComplete
      BY <2>3 DEF StopComplete, Completed
    <2>4. CASE StopRelease
      BY <2>4 DEF StopRelease, Released, NoPath
    <2> QED
      BY <1>6, <2>1, <2>2, <2>3, <2>4 DEF FinishStopped
  <1>7. CASE FinishFailure
    <2>1. CASE FailClaim
      BY <2>1 DEF FailClaim
    <2>2. CASE FailClean
      BY <2>2 DEF FailClean, Without, NoPath, ScratchOf
    <2>3. CASE FailPersist
      BY <2>3 DEF FailPersist, WithResult, NoPath
    <2>4. CASE FailJob
      BY <2>4 DEF FailJob, Failed
    <2>5. CASE FailAggregate
      BY <2>5 DEF FailAggregate, Aggregate
    <2>6. CASE FailRelease
      BY <2>6 DEF FailRelease, FailedOwnerCanRelease, NoPath, Released
    <2> QED
      BY <1>7, <2>1, <2>2, <2>3, <2>4, <2>5, <2>6 DEF FinishFailure
  <1>8. CASE RollBack
    <2>1. CASE HandleError
      BY <2>1 DEF HandleError
    <2>2. CASE UndoFinal
      BY <2>2 DEF UndoFinal, OwnFinal
    <2>3. CASE RestoreBackup
      BY <2>3 DEF RestoreBackup, Restored
    <2>4. CASE UndoScratch
      BY <2>4 DEF UndoScratch, Without, ScratchOf, FailureFinalizing
    <2>5. CASE UndoFailed
      BY <2>5 DEF UndoFailed
    <2>6. CASE FailUndone
      BY <2>6 DEF FailUndone, Failed
    <2> QED
      BY <1>8, <2>1, <2>2, <2>3, <2>4, <2>5, <2>6 DEF RollBack
  <1>9. CASE RecoverJournal
    <2>1. CASE Boot
      BY <2>1 DEF Boot, NoCtx, CrashedTask, RolledForward, FailureFinalizing
    <2>2. CASE StatOutput
      BY <2>2 DEF StatOutput
    <2>3. CASE RecoverFailure
      BY <2>3 DEF RecoverFailure, WithResult, NoPath
    <2>4. CASE FailInterrupted
      BY <2>4 DEF FailInterrupted, Failed
    <2>5. CASE UnjournalUndone
      BY <2>5 DEF UnjournalUndone, NoPath
    <2>6. CASE ReleaseUndone
      BY <2>6 DEF ReleaseUndone, Released, NoPath
    <2>7. CASE AggregateUndone
      BY <2>7 DEF AggregateUndone, Aggregate
    <2>8. CASE BootError
      BY <2>8 DEF BootError, BackupOf, ScratchOf
    <2> QED
      BY <1>9, <2>1, <2>2, <2>3, <2>4, <2>5, <2>6, <2>7, <2>8 DEF RecoverJournal
  <1>10. CASE RecoverStuckFile
    <2>1. CASE ReadStuck
      BY <2>1 DEF ReadStuck, NoCtx, CommittingResidue
    <2>2. CASE RemoveResidue
      BY <2>2 DEF RemoveResidue, NoPath, Without
    <2>3. CASE ForgetResidue
      BY <2>3 DEF ForgetResidue, NoPath
    <2>4. CASE FailResidue
      BY <2>4 DEF FailResidue, Failed
    <2>5. CASE AggregateResidue
      BY <2>5 DEF AggregateResidue, Aggregate
    <2>6. CASE ReleaseResidue
      BY <2>6 DEF ReleaseResidue, ResidueCanRelease, FailedOwnerCanRelease, NoPath,
        TerminalOwnerCanRelease, Released
    <2>7. CASE ReadInterrupted
      BY <2>7 DEF ReadInterrupted, Without, NoPath
    <2>8. CASE RequeueUnowned
      BY <2>8 DEF RequeueUnowned, NoPath
    <2>9. CASE AggregateUnowned
      BY <2>9 DEF AggregateUnowned, Aggregate
    <2>10. CASE FailOwner
      BY <2>10 DEF FailOwner, Failed
    <2>11. CASE ReleaseOwner
      BY <2>11 DEF ReleaseOwner, Released, NoPath
    <2>12. CASE SettleOwner
      BY <2>12 DEF SettleOwner, Aggregate
    <2> QED
      BY <1>10, <2>1, <2>2, <2>3, <2>4, <2>5, <2>6, <2>7, <2>8, <2>9, <2>10, <2>11, <2>12
        DEF RecoverStuckFile
  <1>11. CASE RecoverJobs
    <2>1. ASSUME NEW j \in Attempts, RecoverInterruptedJob(j) PROVE OutcomeAt'
      BY <2>1 DEF RecoverInterruptedJob, CompletedBeforeCrash, Completed, Failed
    <2>2. CASE Ready
      BY <2>2 DEF Ready, NoCtx
    <2> QED
      BY <1>11, <2>1, <2>2 DEF RecoverJobs
  <1>12. CASE User
    <2>1. CASE StopOwned
      BY <2>1 DEF StopOwned
    <2>2. CASE StopQueued
      BY <2>2 DEF StopQueued
    <2>3. CASE StopJobs
      BY <2>3 DEF StopJobs, Active
    <2>4. CASE UserCreatesFinal
      BY <2>4 DEF UserCreatesFinal
    <2> QED
      BY <1>12, <2>1, <2>2, <2>3, <2>4 DEF User
  <1>13. ASSUME NEW j \in Attempts, Enqueue(j) PROVE OutcomeAt'
    BY <1>13 DEF Enqueue, Active
  <1>14. CASE Crash
    BY <1>14 DEF Crash, NoCtx
  <1>15. CASE UNCHANGED vars
    BY <1>15 DEF vars, Active
  <1> QED
    BY <1>1, <1>2, <1>3, <1>4, <1>5, <1>6, <1>7, <1>8, <1>9, <1>10, <1>11, <1>12, <1>13,
      <1>14, <1>15 DEF Next, Finalize, Startup

-----------------------------------------------------------------------------
\* Every step leaves a path to a backup only with the journal, or the published
\* output, that the backup belongs to.
LEMMA BackupAtKept == ASSUME Decided, [Next]_vars PROVE BackupAt'
  <1> USE CommitAssumption DEF Decided, Safe, Typed, Placed, TypeOK, FileType, Journals,
    NoJournal, BackupAt, RejectedAt, JournalAt, PreparedAt, PromotingAt, CommittedAt,
    Committed, NoJournalAt, ResultAt, ReplacedAt, Paths, Detached, Journaling, Write, Settle,
    Call, TryUnlink, Branch, Claim, Steady, me, StopWon
  <1>1. CASE Attempt
    <2>1. ASSUME NEW j \in Attempts, ClaimJob(j) PROVE BackupAt'
      BY <2>1 DEF ClaimJob, NoCtx
    <2>2. CASE PrepareCollision
      BY <2>2 DEF PrepareCollision, Preparable, Collision, WithResult, NoPath
    <2>3. CASE FailCollided
      BY <2>3 DEF FailCollided, Failed
    <2>4. CASE RecountCollided
      BY <2>4 DEF RecountCollided, Aggregate
    <2>5. CASE PrepareClaim
      BY <2>5 DEF PrepareClaim, Preparable, Collision, ScratchOf
    <2>6. CASE PrepareDefer
      BY <2>6 DEF PrepareDefer, Preparable
    <2>7. CASE RunnerWrites
      BY <2>7 DEF RunnerWrites
    <2>8. CASE ResultCancelled
      BY <2>8 DEF ResultCancelled
    <2>9. CASE ResultError
      BY <2>9 DEF ResultError
    <2>10. CASE ResultOk
      BY <2>10 DEF ResultOk
    <2> QED
      BY <1>1, <2>1, <2>2, <2>3, <2>4, <2>5, <2>6, <2>7, <2>8, <2>9, <2>10 DEF Attempt
  <1>2. CASE ToCommitPoint
    <2>1. CASE ClaimFinalizing
      BY <2>1 DEF ClaimFinalizing
    <2>2. CASE Validate
      BY <2>2 DEF Validate
    <2>3. CASE Filter
      BY <2>3 DEF Filter
    <2>4. CASE ClaimCommitting
      BY <2>4 DEF ClaimCommitting
    <2> QED
      BY <1>2, <2>1, <2>2, <2>3, <2>4 DEF ToCommitPoint
  <1>3. CASE FinishAdjacent
    <2>1. CASE Promote
      <3>1. CASE StopWon
        BY <2>1, <3>1 DEF Promote
      <3>2. CASE ~StopWon
        <4>1. /\ UNCHANGED <<file.path, file.result>> /\ file'.journal # NoJournal
              /\ pc' \in {"link", "renameToBackup"}
          BY <2>1, <3>2, PromoteWrites
        <4> QED
          BY <4>1
      <3> QED
        BY <3>1, <3>2
    <2>2. CASE LinkFinal
      BY <2>2 DEF LinkFinal
    <2>3. CASE ValidateFinal
      BY <2>3 DEF ValidateFinal
    <2>4. CASE JournalCommitted
      BY <2>4 DEF JournalCommitted
    <2>5. CASE PersistOutput
      BY <2>5 DEF PersistOutput, WithResult, NoPath, FinalPath
    <2>6. CASE CompleteOutput
      BY <2>6 DEF CompleteOutput, Completed
    <2>7. CASE AggregateOutput
      BY <2>7 DEF AggregateOutput, Aggregate
    <2>8. CASE JournalCleaned
      BY <2>8 DEF JournalCleaned
    <2>9. CASE UnlinkScratch
      BY <2>9 DEF UnlinkScratch, Without, NoPath, ScratchOf
    <2>10. CASE UnjournalScratch
      BY <2>10 DEF UnjournalScratch, NoPath, ScratchOf
    <2>11. CASE ReleaseOutput
      <3>1. /\ UNCHANGED <<mode, file.journal, file.result>> /\ mode = "adjacent"
            /\ pc' \in {"stuck", "idle", "bootError", "error"}
            /\ file'.path \in {file.path, NoPath}
        BY <2>11 DEF ReleaseOutput, Released, SourceAt, AdjacentAt
      <3> QED
        BY <3>1 DEF NoPath
    <2> QED
      BY <1>3, <2>1, <2>2, <2>3, <2>4, <2>5, <2>6, <2>7, <2>8, <2>9, <2>10, <2>11
        DEF FinishAdjacent
  <1>4. CASE FinishOverwrite
    <2>1. CASE Replace
      <3>1. CASE StopWon
        BY <2>1, <3>1 DEF Replace
      <3>2. CASE ~StopWon
        <4>1. /\ UNCHANGED <<file.path, file.result>> /\ file'.journal # NoJournal
              /\ pc' \in {"link", "renameToBackup"}
          BY <2>1, <3>2, ReplaceWrites
        <4> QED
          BY <4>1
      <3> QED
        BY <3>1, <3>2
    <2>2. CASE RenameToBackup
      BY <2>2 DEF RenameToBackup
    <2>3. CASE RenameOutput
      BY <2>3 DEF RenameOutput
    <2>4. CASE RenameBack
      BY <2>4 DEF RenameBack, Restored
    <2>5. CASE StatSource
      BY <2>5 DEF StatSource
    <2>6. CASE MarkReplaced
      BY <2>6 DEF MarkReplaced
    <2>7. CASE UnlinkBackup
      BY <2>7 DEF UnlinkBackup, Without, NoPath, BackupOf
    <2>8. CASE ReleaseReplaced
      BY <2>8 DEF ReleaseReplaced, TerminalOwnerCanRelease, Released, NoPath
    <2>9. CASE EraseJournal
      BY <2>9 DEF EraseJournal, NoPath, BackupOf
    <2> QED
      BY <1>4, <2>1, <2>2, <2>3, <2>4, <2>5, <2>6, <2>7, <2>8, <2>9 DEF FinishOverwrite
  <1>5. CASE FinishRejected
    <2>1. CASE ValidateRejected
      BY <2>1 DEF ValidateRejected
    <2>2. CASE DeleteRejected
      BY <2>2 DEF DeleteRejected, Without, ScratchOf
    <2>3. CASE PersistRejected
      BY <2>3 DEF PersistRejected, WithResult, NoPath, ScratchOf
    <2>4. CASE CompleteRejected
      BY <2>4 DEF CompleteRejected, Completed
    <2>5. CASE AggregateRejected
      BY <2>5 DEF AggregateRejected, Aggregate
    <2>6. CASE UnjournalRejected
      BY <2>6 DEF UnjournalRejected
    <2>7. CASE ReleaseRejected
      BY <2>7 DEF ReleaseRejected, TerminalOwnerCanRelease, Released, NoPath
    <2> QED
      BY <1>5, <2>1, <2>2, <2>3, <2>4, <2>5, <2>6, <2>7 DEF FinishRejected
  <1>6. CASE FinishStopped
    <2>1. CASE StopClean
      BY <2>1 DEF StopClean, Without, NoPath, ScratchOf
    <2>2. CASE StopWrite
      BY <2>2 DEF StopWrite, NoPath
    <2>3. CASE StopComplete
      BY <2>3 DEF StopComplete, Completed
    <2>4. CASE StopRelease
      BY <2>4 DEF StopRelease, Released, NoPath
    <2> QED
      BY <1>6, <2>1, <2>2, <2>3, <2>4 DEF FinishStopped
  <1>7. CASE FinishFailure
    <2>1. CASE FailClaim
      BY <2>1 DEF FailClaim
    <2>2. CASE FailClean
      BY <2>2 DEF FailClean, Without, NoPath, ScratchOf
    <2>3. CASE FailPersist
      <3>1. file.journal # NoJournal
        BY <2>3 DEF FailPersist, OutcomeAt, UncommittedAt
      <3>2. /\ pc' = "failJob"
            /\ file'.path = NoPath \/ UNCHANGED <<file.path, file.journal>>
        BY <2>3 DEF FailPersist, WithResult
      <3> QED
        BY <3>1, <3>2 DEF NoPath
    <2>4. CASE FailJob
      BY <2>4 DEF FailJob, Failed
    <2>5. CASE FailAggregate
      BY <2>5 DEF FailAggregate, Aggregate
    <2>6. CASE FailRelease
      BY <2>6 DEF FailRelease, FailedOwnerCanRelease, NoPath, Released
    <2> QED
      BY <1>7, <2>1, <2>2, <2>3, <2>4, <2>5, <2>6 DEF FinishFailure
  <1>8. CASE RollBack
    <2>1. CASE HandleError
      BY <2>1 DEF HandleError
    <2>2. CASE UndoFinal
      BY <2>2 DEF UndoFinal, OwnFinal
    <2>3. CASE RestoreBackup
      BY <2>3 DEF RestoreBackup, Restored
    <2>4. CASE UndoScratch
      BY <2>4 DEF UndoScratch, Without, ScratchOf, FailureFinalizing
    <2>5. CASE UndoFailed
      BY <2>5 DEF UndoFailed
    <2>6. CASE FailUndone
      BY <2>6 DEF FailUndone, Failed
    <2> QED
      BY <1>8, <2>1, <2>2, <2>3, <2>4, <2>5, <2>6 DEF RollBack
  <1>9. CASE RecoverJournal
    <2>1. CASE Boot
      BY <2>1 DEF Boot, NoCtx, CrashedTask, RolledForward, FailureFinalizing
    <2>2. CASE StatOutput
      BY <2>2 DEF StatOutput
    <2>3. CASE RecoverFailure
      BY <2>3 DEF RecoverFailure, WithResult, NoPath
    <2>4. CASE FailInterrupted
      BY <2>4 DEF FailInterrupted, Failed
    <2>5. CASE UnjournalUndone
      BY <2>5 DEF UnjournalUndone, NoPath
    <2>6. CASE ReleaseUndone
      BY <2>6 DEF ReleaseUndone, Released, NoPath
    <2>7. CASE AggregateUndone
      BY <2>7 DEF AggregateUndone, Aggregate
    <2>8. CASE BootError
      BY <2>8 DEF BootError, BackupOf, ScratchOf
    <2> QED
      BY <1>9, <2>1, <2>2, <2>3, <2>4, <2>5, <2>6, <2>7, <2>8 DEF RecoverJournal
  <1>10. CASE RecoverStuckFile
    <2>1. CASE ReadStuck
      BY <2>1 DEF ReadStuck, NoCtx, CommittingResidue
    <2>2. CASE RemoveResidue
      BY <2>2 DEF RemoveResidue, NoPath, Without
    <2>3. CASE ForgetResidue
      BY <2>3 DEF ForgetResidue, NoPath
    <2>4. CASE FailResidue
      BY <2>4 DEF FailResidue, Failed
    <2>5. CASE AggregateResidue
      BY <2>5 DEF AggregateResidue, Aggregate
    <2>6. CASE ReleaseResidue
      <3>1. /\ UNCHANGED <<mode, file.journal, file.result>>
            /\ pc' \in {"jobs", "readInterrupted"} /\ file'.path \in {file.path, NoPath}
        BY <2>6 DEF ReleaseResidue, Released
      <3> QED
        BY <3>1 DEF NoPath
    <2>7. CASE ReadInterrupted
      BY <2>7 DEF ReadInterrupted, Without, NoPath
    <2>8. CASE RequeueUnowned
      BY <2>8 DEF RequeueUnowned, NoPath
    <2>9. CASE AggregateUnowned
      BY <2>9 DEF AggregateUnowned, Aggregate
    <2>10. CASE FailOwner
      BY <2>10 DEF FailOwner, Failed
    <2>11. CASE ReleaseOwner
      BY <2>11 DEF ReleaseOwner, Released, NoPath
    <2>12. CASE SettleOwner
      BY <2>12 DEF SettleOwner, Aggregate
    <2> QED
      BY <1>10, <2>1, <2>2, <2>3, <2>4, <2>5, <2>6, <2>7, <2>8, <2>9, <2>10, <2>11, <2>12
        DEF RecoverStuckFile
  <1>11. CASE RecoverJobs
    <2>1. ASSUME NEW j \in Attempts, RecoverInterruptedJob(j) PROVE BackupAt'
      BY <2>1 DEF RecoverInterruptedJob, CompletedBeforeCrash, Completed, Failed
    <2>2. CASE Ready
      BY <2>2 DEF Ready, NoCtx
    <2> QED
      BY <1>11, <2>1, <2>2 DEF RecoverJobs
  <1>12. CASE User
    <2>1. CASE StopOwned
      BY <2>1 DEF StopOwned
    <2>2. CASE StopQueued
      BY <2>2 DEF StopQueued
    <2>3. CASE StopJobs
      BY <2>3 DEF StopJobs, Active
    <2>4. CASE UserCreatesFinal
      BY <2>4 DEF UserCreatesFinal
    <2> QED
      BY <1>12, <2>1, <2>2, <2>3, <2>4 DEF User
  <1>13. ASSUME NEW j \in Attempts, Enqueue(j) PROVE BackupAt'
    BY <1>13 DEF Enqueue, Active
  <1>14. CASE Crash
    BY <1>14 DEF Crash, NoCtx
  <1>15. CASE UNCHANGED vars
    BY <1>15 DEF vars, Active
  <1> QED
    BY <1>1, <1>2, <1>3, <1>4, <1>5, <1>6, <1>7, <1>8, <1>9, <1>10, <1>11, <1>12, <1>13,
      <1>14, <1>15 DEF Next, Finalize, Startup

-----------------------------------------------------------------------------
\* Every step up to the release of an adjacent output leaves the owner, its job,
\* its phase and the status as the gate of the release asks.
LEMMA GateAtKept == ASSUME Decided, [Next]_vars PROVE GateAt'
  <1> USE CommitAssumption DEF Decided, Safe, Typed, Placed, TypeOK, FileType, Journals,
    NoJournal, GateAt, ClaimedAt, PublishingAt, PublishedAt, OneActive, Active, ResultAt,
    RecordedAt, JobType, Detached, JournalAt, PreparedAt, SourceAt, AdjacentAt, OverwriteAt,
    Write, Settle, Call, TryUnlink, Branch, Claim, Steady, me, StopWon
  <1>1. CASE Attempt
    <2>1. ASSUME NEW j \in Attempts, ClaimJob(j) PROVE GateAt'
      BY <2>1 DEF ClaimJob, NoCtx
    <2>2. CASE PrepareCollision
      BY <2>2 DEF PrepareCollision, Preparable, Collision, WithResult, NoPath
    <2>3. CASE FailCollided
      BY <2>3 DEF FailCollided, Failed
    <2>4. CASE RecountCollided
      BY <2>4 DEF RecountCollided, Aggregate
    <2>5. CASE PrepareClaim
      BY <2>5 DEF PrepareClaim, Preparable, Collision, ScratchOf
    <2>6. CASE PrepareDefer
      BY <2>6 DEF PrepareDefer, Preparable
    <2>7. CASE RunnerWrites
      BY <2>7 DEF RunnerWrites
    <2>8. CASE ResultCancelled
      BY <2>8 DEF ResultCancelled
    <2>9. CASE ResultError
      BY <2>9 DEF ResultError
    <2>10. CASE ResultOk
      BY <2>10 DEF ResultOk
    <2> QED
      BY <1>1, <2>1, <2>2, <2>3, <2>4, <2>5, <2>6, <2>7, <2>8, <2>9, <2>10 DEF Attempt
  <1>2. CASE ToCommitPoint
    <2>1. CASE ClaimFinalizing
      BY <2>1 DEF ClaimFinalizing
    <2>2. CASE Validate
      BY <2>2 DEF Validate
    <2>3. CASE Filter
      BY <2>3 DEF Filter
    <2>4. CASE ClaimCommitting
      BY <2>4 DEF ClaimCommitting
    <2> QED
      BY <1>2, <2>1, <2>2, <2>3, <2>4 DEF ToCommitPoint
  <1>3. CASE FinishAdjacent
    <2>1. CASE Promote
      BY <2>1 DEF Promote
    <2>2. CASE LinkFinal
      BY <2>2 DEF LinkFinal
    <2>3. CASE ValidateFinal
      BY <2>3 DEF ValidateFinal
    <2>4. CASE JournalCommitted
      BY <2>4 DEF JournalCommitted
    <2>5. CASE PersistOutput
      BY <2>5 DEF PersistOutput, WithResult, NoPath, FinalPath
    <2>6. CASE CompleteOutput
      BY <2>6 DEF CompleteOutput, Completed
    <2>7. CASE AggregateOutput
      <3>1. CASE life = "up" /\ mode = "adjacent"
        <4>1. Aggregate(me) \notin {"processing", "stopped"}
          BY <2>7, <3>1, AggregateSettled DEF AggregateOutput, Aggregate, Results
        <4>2. /\ UNCHANGED <<mode, life, job, ctx, file.owner, file.phase, file.cancelled, file.result>>
              /\ file'.status = Aggregate(me) /\ pc = "aggregate" /\ pc' = "journalCleaned"
          BY <2>7 DEF AggregateOutput
        <4> QED
          BY <3>1, <4>1, <4>2
      <3>2. CASE ~(life = "up" /\ mode = "adjacent")
        BY <2>7, <3>2 DEF AggregateOutput
      <3> QED
        BY <3>1, <3>2
    <2>8. CASE JournalCleaned
      BY <2>8 DEF JournalCleaned
    <2>9. CASE UnlinkScratch
      <3>1. UNCHANGED <<mode, life, file, job, me>> /\ pc = "unlinkScratch" /\ pc' = "unjournalScratch"
        BY <2>9 DEF UnlinkScratch, CtxType
      <3> QED
        BY <3>1
    <2>10. CASE UnjournalScratch
      BY <2>10 DEF UnjournalScratch, NoPath, ScratchOf
    <2>11. CASE ReleaseOutput
      BY <2>11 DEF ReleaseOutput, TerminalOwnerCanRelease, Released, NoPath
    <2> QED
      BY <1>3, <2>1, <2>2, <2>3, <2>4, <2>5, <2>6, <2>7, <2>8, <2>9, <2>10, <2>11
        DEF FinishAdjacent
  <1>4. CASE FinishOverwrite
    <2>1. CASE Replace
      BY <2>1 DEF Replace
    <2>2. CASE RenameToBackup
      BY <2>2 DEF RenameToBackup
    <2>3. CASE RenameOutput
      BY <2>3 DEF RenameOutput
    <2>4. CASE RenameBack
      BY <2>4 DEF RenameBack, Restored
    <2>5. CASE StatSource
      BY <2>5 DEF StatSource
    <2>6. CASE MarkReplaced
      BY <2>6 DEF MarkReplaced
    <2>7. CASE UnlinkBackup
      BY <2>7 DEF UnlinkBackup, Without, NoPath, BackupOf
    <2>8. CASE ReleaseReplaced
      BY <2>8 DEF ReleaseReplaced, TerminalOwnerCanRelease, Released, NoPath
    <2>9. CASE EraseJournal
      BY <2>9 DEF EraseJournal, NoPath, BackupOf
    <2> QED
      BY <1>4, <2>1, <2>2, <2>3, <2>4, <2>5, <2>6, <2>7, <2>8, <2>9 DEF FinishOverwrite
  <1>5. CASE FinishRejected
    <2>1. CASE ValidateRejected
      BY <2>1 DEF ValidateRejected
    <2>2. CASE DeleteRejected
      BY <2>2 DEF DeleteRejected, Without, ScratchOf
    <2>3. CASE PersistRejected
      BY <2>3 DEF PersistRejected, WithResult, NoPath, ScratchOf
    <2>4. CASE CompleteRejected
      BY <2>4 DEF CompleteRejected, Completed
    <2>5. CASE AggregateRejected
      BY <2>5 DEF AggregateRejected, Aggregate
    <2>6. CASE UnjournalRejected
      BY <2>6 DEF UnjournalRejected
    <2>7. CASE ReleaseRejected
      BY <2>7 DEF ReleaseRejected, TerminalOwnerCanRelease, Released, NoPath
    <2> QED
      BY <1>5, <2>1, <2>2, <2>3, <2>4, <2>5, <2>6, <2>7 DEF FinishRejected
  <1>6. CASE FinishStopped
    <2>1. CASE StopClean
      BY <2>1 DEF StopClean, Without, NoPath, ScratchOf
    <2>2. CASE StopWrite
      BY <2>2 DEF StopWrite, NoPath
    <2>3. CASE StopComplete
      BY <2>3 DEF StopComplete, Completed
    <2>4. CASE StopRelease
      BY <2>4 DEF StopRelease, Released, NoPath
    <2> QED
      BY <1>6, <2>1, <2>2, <2>3, <2>4 DEF FinishStopped
  <1>7. CASE FinishFailure
    <2>1. CASE FailClaim
      BY <2>1 DEF FailClaim
    <2>2. CASE FailClean
      BY <2>2 DEF FailClean, Without, NoPath, ScratchOf
    <2>3. CASE FailPersist
      BY <2>3 DEF FailPersist, WithResult, NoPath
    <2>4. CASE FailJob
      BY <2>4 DEF FailJob, Failed
    <2>5. CASE FailAggregate
      BY <2>5 DEF FailAggregate, Aggregate
    <2>6. CASE FailRelease
      BY <2>6 DEF FailRelease, FailedOwnerCanRelease, NoPath, Released
    <2> QED
      BY <1>7, <2>1, <2>2, <2>3, <2>4, <2>5, <2>6 DEF FinishFailure
  <1>8. CASE RollBack
    <2>1. CASE HandleError
      BY <2>1 DEF HandleError
    <2>2. CASE UndoFinal
      BY <2>2 DEF UndoFinal, OwnFinal
    <2>3. CASE RestoreBackup
      BY <2>3 DEF RestoreBackup, Restored
    <2>4. CASE UndoScratch
      BY <2>4 DEF UndoScratch, Without, ScratchOf, FailureFinalizing
    <2>5. CASE UndoFailed
      BY <2>5 DEF UndoFailed
    <2>6. CASE FailUndone
      BY <2>6 DEF FailUndone, Failed
    <2> QED
      BY <1>8, <2>1, <2>2, <2>3, <2>4, <2>5, <2>6 DEF RollBack
  <1>9. CASE RecoverJournal
    <2>1. CASE Boot
      BY <2>1 DEF Boot, NoCtx, CrashedTask, RolledForward, FailureFinalizing
    <2>2. CASE StatOutput
      BY <2>2 DEF StatOutput
    <2>3. CASE RecoverFailure
      BY <2>3 DEF RecoverFailure, WithResult, NoPath
    <2>4. CASE FailInterrupted
      BY <2>4 DEF FailInterrupted, Failed
    <2>5. CASE UnjournalUndone
      BY <2>5 DEF UnjournalUndone, NoPath
    <2>6. CASE ReleaseUndone
      BY <2>6 DEF ReleaseUndone, Released, NoPath
    <2>7. CASE AggregateUndone
      BY <2>7 DEF AggregateUndone, Aggregate
    <2>8. CASE BootError
      BY <2>8 DEF BootError, BackupOf, ScratchOf
    <2> QED
      BY <1>9, <2>1, <2>2, <2>3, <2>4, <2>5, <2>6, <2>7, <2>8 DEF RecoverJournal
  <1>10. CASE RecoverStuckFile
    <2>1. CASE ReadStuck
      BY <2>1 DEF ReadStuck, NoCtx, CommittingResidue
    <2>2. CASE RemoveResidue
      BY <2>2 DEF RemoveResidue, NoPath, Without
    <2>3. CASE ForgetResidue
      BY <2>3 DEF ForgetResidue, NoPath
    <2>4. CASE FailResidue
      BY <2>4 DEF FailResidue, Failed
    <2>5. CASE AggregateResidue
      BY <2>5 DEF AggregateResidue, Aggregate
    <2>6. CASE ReleaseResidue
      BY <2>6 DEF ReleaseResidue, ResidueCanRelease, FailedOwnerCanRelease, NoPath,
        TerminalOwnerCanRelease, Released
    <2>7. CASE ReadInterrupted
      BY <2>7 DEF ReadInterrupted, Without, NoPath
    <2>8. CASE RequeueUnowned
      BY <2>8 DEF RequeueUnowned, NoPath
    <2>9. CASE AggregateUnowned
      BY <2>9 DEF AggregateUnowned, Aggregate
    <2>10. CASE FailOwner
      BY <2>10 DEF FailOwner, Failed
    <2>11. CASE ReleaseOwner
      BY <2>11 DEF ReleaseOwner, Released, NoPath
    <2>12. CASE SettleOwner
      BY <2>12 DEF SettleOwner, Aggregate
    <2> QED
      BY <1>10, <2>1, <2>2, <2>3, <2>4, <2>5, <2>6, <2>7, <2>8, <2>9, <2>10, <2>11, <2>12
        DEF RecoverStuckFile
  <1>11. CASE RecoverJobs
    <2>1. ASSUME NEW j \in Attempts, RecoverInterruptedJob(j) PROVE GateAt'
      BY <2>1 DEF RecoverInterruptedJob, CompletedBeforeCrash, Completed, Failed
    <2>2. CASE Ready
      BY <2>2 DEF Ready, NoCtx
    <2> QED
      BY <1>11, <2>1, <2>2 DEF RecoverJobs
  <1>12. CASE User
    <2>1. CASE StopOwned
      BY <2>1 DEF StopOwned
    <2>2. CASE StopQueued
      BY <2>2 DEF StopQueued
    <2>3. CASE StopJobs
      BY <2>3 DEF StopJobs
    <2>4. CASE UserCreatesFinal
      BY <2>4 DEF UserCreatesFinal
    <2> QED
      BY <1>12, <2>1, <2>2, <2>3, <2>4 DEF User
  <1>13. ASSUME NEW j \in Attempts, Enqueue(j) PROVE GateAt'
    BY <1>13 DEF Enqueue
  <1>14. CASE Crash
    BY <1>14 DEF Crash, NoCtx
  <1>15. CASE UNCHANGED vars
    BY <1>15 DEF vars, Active
  <1> QED
    BY <1>1, <1>2, <1>3, <1>4, <1>5, <1>6, <1>7, <1>8, <1>9, <1>10, <1>11, <1>12, <1>13,
      <1>14, <1>15 DEF Next, Finalize, Startup

-----------------------------------------------------------------------------
(***************************************************************************)
(* The steps of the promise.                                               *)
(***************************************************************************)
\* What a step may do to the outcome, and what to the original.
OutcomeStep == outcomeOf' = outcomeOf \/ (outcomeOf = "open" /\ UNCHANGED disk)
OriginalStep ==
    \/ UNCHANGED originalOf
    \/ originalOf /\ originalOf' = FALSE /\ outcomeOf = "published"

\* No step revises a decision, and the step that decides moves no file.
LEMMA OutcomeDecidedOnce == ASSUME Decided, [Next]_vars PROVE OutcomeStep
  <1> USE CommitAssumption DEF Decided, Safe, Typed, Placed, TypeOK, FileType, Journals,
    NoJournal, OutcomeStep, outcomeOf, Published, Refused, OutcomeAt, UndecidedAt,
    UncommittedAt, DecidedAt, Admitted, Committed, JournalAt, PreparedAt, PromotingAt,
    CommittedAt, NoJournalAt, Detached, Journaling, ResultAt, ReplacedAt, RecordedAt,
    SourceAt, AdjacentAt, OverwriteAt, Write, Settle, Call, TryUnlink, Branch, Claim, Steady,
    me, StopWon
  <1>1. CASE Attempt
    <2>1. ASSUME NEW j \in Attempts, ClaimJob(j) PROVE OutcomeStep
      BY <2>1 DEF ClaimJob, NoCtx
    <2>2. CASE PrepareCollision
      BY <2>2 DEF PrepareCollision, Preparable, Collision, WithResult, NoPath
    <2>3. CASE FailCollided
      BY <2>3 DEF FailCollided, Failed
    <2>4. CASE RecountCollided
      BY <2>4 DEF RecountCollided, Aggregate
    <2>5. CASE PrepareClaim
      BY <2>5 DEF PrepareClaim, Preparable, Collision, ScratchOf
    <2>6. CASE PrepareDefer
      BY <2>6 DEF PrepareDefer, Preparable
    <2>7. CASE RunnerWrites
      BY <2>7 DEF RunnerWrites
    <2>8. CASE ResultCancelled
      BY <2>8 DEF ResultCancelled
    <2>9. CASE ResultError
      BY <2>9 DEF ResultError
    <2>10. CASE ResultOk
      BY <2>10 DEF ResultOk
    <2> QED
      BY <1>1, <2>1, <2>2, <2>3, <2>4, <2>5, <2>6, <2>7, <2>8, <2>9, <2>10 DEF Attempt
  <1>2. CASE ToCommitPoint
    <2>1. CASE ClaimFinalizing
      BY <2>1 DEF ClaimFinalizing
    <2>2. CASE Validate
      BY <2>2 DEF Validate
    <2>3. CASE Filter
      BY <2>3 DEF Filter
    <2>4. CASE ClaimCommitting
      BY <2>4 DEF ClaimCommitting
    <2> QED
      BY <1>2, <2>1, <2>2, <2>3, <2>4 DEF ToCommitPoint
  <1>3. CASE FinishAdjacent
    <2>1. CASE Promote
      BY <2>1 DEF Promote
    <2>2. CASE LinkFinal
      BY <2>2 DEF LinkFinal
    <2>3. CASE ValidateFinal
      BY <2>3 DEF ValidateFinal
    <2>4. CASE JournalCommitted
      BY <2>4 DEF JournalCommitted
    <2>5. CASE PersistOutput
      BY <2>5 DEF PersistOutput, WithResult, NoPath, FinalPath
    <2>6. CASE CompleteOutput
      BY <2>6 DEF CompleteOutput, Completed
    <2>7. CASE AggregateOutput
      BY <2>7 DEF AggregateOutput, Aggregate
    <2>8. CASE JournalCleaned
      BY <2>8 DEF JournalCleaned
    <2>9. CASE UnlinkScratch
      BY <2>9 DEF UnlinkScratch, Without, NoPath, ScratchOf
    <2>10. CASE UnjournalScratch
      BY <2>10 DEF UnjournalScratch, NoPath, ScratchOf
    <2>11. CASE ReleaseOutput
      BY <2>11 DEF ReleaseOutput, TerminalOwnerCanRelease, Released, NoPath
    <2> QED
      BY <1>3, <2>1, <2>2, <2>3, <2>4, <2>5, <2>6, <2>7, <2>8, <2>9, <2>10, <2>11
        DEF FinishAdjacent
  <1>4. CASE FinishOverwrite
    <2>1. CASE Replace
      BY <2>1 DEF Replace
    <2>2. CASE RenameToBackup
      BY <2>2 DEF RenameToBackup
    <2>3. CASE RenameOutput
      BY <2>3 DEF RenameOutput
    <2>4. CASE RenameBack
      BY <2>4 DEF RenameBack, Restored
    <2>5. CASE StatSource
      BY <2>5 DEF StatSource
    <2>6. CASE MarkReplaced
      BY <2>6 DEF MarkReplaced
    <2>7. CASE UnlinkBackup
      BY <2>7 DEF UnlinkBackup, Without, NoPath, BackupOf
    <2>8. CASE ReleaseReplaced
      BY <2>8 DEF ReleaseReplaced, TerminalOwnerCanRelease, Released, NoPath
    <2>9. CASE EraseJournal
      BY <2>9 DEF EraseJournal, NoPath, BackupOf
    <2> QED
      BY <1>4, <2>1, <2>2, <2>3, <2>4, <2>5, <2>6, <2>7, <2>8, <2>9 DEF FinishOverwrite
  <1>5. CASE FinishRejected
    <2>1. CASE ValidateRejected
      BY <2>1 DEF ValidateRejected
    <2>2. CASE DeleteRejected
      BY <2>2 DEF DeleteRejected, Without, ScratchOf
    <2>3. CASE PersistRejected
      BY <2>3 DEF PersistRejected, WithResult, NoPath, ScratchOf
    <2>4. CASE CompleteRejected
      BY <2>4 DEF CompleteRejected, Completed
    <2>5. CASE AggregateRejected
      BY <2>5 DEF AggregateRejected, Aggregate
    <2>6. CASE UnjournalRejected
      BY <2>6 DEF UnjournalRejected
    <2>7. CASE ReleaseRejected
      BY <2>7 DEF ReleaseRejected, TerminalOwnerCanRelease, Released, NoPath
    <2> QED
      BY <1>5, <2>1, <2>2, <2>3, <2>4, <2>5, <2>6, <2>7 DEF FinishRejected
  <1>6. CASE FinishStopped
    <2>1. CASE StopClean
      BY <2>1 DEF StopClean, Without, NoPath, ScratchOf
    <2>2. CASE StopWrite
      BY <2>2 DEF StopWrite, NoPath
    <2>3. CASE StopComplete
      BY <2>3 DEF StopComplete, Completed
    <2>4. CASE StopRelease
      BY <2>4 DEF StopRelease, Released, NoPath
    <2> QED
      BY <1>6, <2>1, <2>2, <2>3, <2>4 DEF FinishStopped
  <1>7. CASE FinishFailure
    <2>1. CASE FailClaim
      <3>1. UNCHANGED <<mode, file.journal, file.result>>
        BY <2>1 DEF FailClaim
      <3> QED
        BY <3>1
    <2>2. CASE FailClean
      BY <2>2 DEF FailClean, Without, NoPath, ScratchOf
    <2>3. CASE FailPersist
      BY <2>3 DEF FailPersist, WithResult, NoPath
    <2>4. CASE FailJob
      BY <2>4 DEF FailJob, Failed
    <2>5. CASE FailAggregate
      BY <2>5 DEF FailAggregate, Aggregate
    <2>6. CASE FailRelease
      BY <2>6 DEF FailRelease, FailedOwnerCanRelease, NoPath, Released
    <2> QED
      BY <1>7, <2>1, <2>2, <2>3, <2>4, <2>5, <2>6 DEF FinishFailure
  <1>8. CASE RollBack
    <2>1. CASE HandleError
      BY <2>1 DEF HandleError
    <2>2. CASE UndoFinal
      BY <2>2 DEF UndoFinal, OwnFinal
    <2>3. CASE RestoreBackup
      BY <2>3 DEF RestoreBackup, Restored
    <2>4. CASE UndoScratch
      BY <2>4 DEF UndoScratch, Without, ScratchOf, FailureFinalizing
    <2>5. CASE UndoFailed
      BY <2>5 DEF UndoFailed
    <2>6. CASE FailUndone
      BY <2>6 DEF FailUndone, Failed
    <2> QED
      BY <1>8, <2>1, <2>2, <2>3, <2>4, <2>5, <2>6 DEF RollBack
  <1>9. CASE RecoverJournal
    <2>1. CASE Boot
      BY <2>1 DEF Boot, NoCtx, CrashedTask, RolledForward, FailureFinalizing
    <2>2. CASE StatOutput
      BY <2>2 DEF StatOutput
    <2>3. CASE RecoverFailure
      BY <2>3 DEF RecoverFailure, WithResult, NoPath
    <2>4. CASE FailInterrupted
      BY <2>4 DEF FailInterrupted, Failed
    <2>5. CASE UnjournalUndone
      BY <2>5 DEF UnjournalUndone, NoPath
    <2>6. CASE ReleaseUndone
      BY <2>6 DEF ReleaseUndone, Released, NoPath
    <2>7. CASE AggregateUndone
      BY <2>7 DEF AggregateUndone, Aggregate
    <2>8. CASE BootError
      BY <2>8 DEF BootError, BackupOf, ScratchOf
    <2> QED
      BY <1>9, <2>1, <2>2, <2>3, <2>4, <2>5, <2>6, <2>7, <2>8 DEF RecoverJournal
  <1>10. CASE RecoverStuckFile
    <2>1. CASE ReadStuck
      BY <2>1 DEF ReadStuck, NoCtx, CommittingResidue
    <2>2. CASE RemoveResidue
      BY <2>2 DEF RemoveResidue, NoPath, Without
    <2>3. CASE ForgetResidue
      BY <2>3 DEF ForgetResidue, NoPath
    <2>4. CASE FailResidue
      BY <2>4 DEF FailResidue, Failed
    <2>5. CASE AggregateResidue
      BY <2>5 DEF AggregateResidue, Aggregate
    <2>6. CASE ReleaseResidue
      BY <2>6 DEF ReleaseResidue, ResidueCanRelease, FailedOwnerCanRelease, NoPath,
        TerminalOwnerCanRelease, Released
    <2>7. CASE ReadInterrupted
      BY <2>7 DEF ReadInterrupted, Without, NoPath
    <2>8. CASE RequeueUnowned
      BY <2>8 DEF RequeueUnowned, NoPath
    <2>9. CASE AggregateUnowned
      BY <2>9 DEF AggregateUnowned, Aggregate
    <2>10. CASE FailOwner
      BY <2>10 DEF FailOwner, Failed
    <2>11. CASE ReleaseOwner
      BY <2>11 DEF ReleaseOwner, Released, NoPath
    <2>12. CASE SettleOwner
      BY <2>12 DEF SettleOwner, Aggregate
    <2> QED
      BY <1>10, <2>1, <2>2, <2>3, <2>4, <2>5, <2>6, <2>7, <2>8, <2>9, <2>10, <2>11, <2>12
        DEF RecoverStuckFile
  <1>11. CASE RecoverJobs
    <2>1. ASSUME NEW j \in Attempts, RecoverInterruptedJob(j) PROVE OutcomeStep
      BY <2>1 DEF RecoverInterruptedJob, CompletedBeforeCrash, Completed, Failed
    <2>2. CASE Ready
      BY <2>2 DEF Ready, NoCtx
    <2> QED
      BY <1>11, <2>1, <2>2 DEF RecoverJobs
  <1>12. CASE User
    <2>1. CASE StopOwned
      BY <2>1 DEF StopOwned
    <2>2. CASE StopQueued
      BY <2>2 DEF StopQueued
    <2>3. CASE StopJobs
      BY <2>3 DEF StopJobs, Active
    <2>4. CASE UserCreatesFinal
      BY <2>4 DEF UserCreatesFinal
    <2> QED
      BY <1>12, <2>1, <2>2, <2>3, <2>4 DEF User
  <1>13. ASSUME NEW j \in Attempts, Enqueue(j) PROVE OutcomeStep
    BY <1>13 DEF Enqueue, Active
  <1>14. CASE Crash
    BY <1>14 DEF Crash, NoCtx
  <1>15. CASE UNCHANGED vars
    BY <1>15 DEF vars
  <1> QED
    BY <1>1, <1>2, <1>3, <1>4, <1>5, <1>6, <1>7, <1>8, <1>9, <1>10, <1>11, <1>12, <1>13,
      <1>14, <1>15 DEF Next, Finalize, Startup

-----------------------------------------------------------------------------
\* No step discards the original before an output is published.
LEMMA OriginalDiscardedLast == ASSUME Decided, [Next]_vars PROVE OriginalStep
  <1> USE CommitAssumption DEF Decided, Safe, Typed, Placed, TypeOK, FileType, Journals,
    NoJournal, OriginalStep, originalOf, outcomeOf, Published, BackupAt, SourceAt, OriginalAt,
    AdjacentAt, OverwriteAt, ResultAt, ReplacedAt, DiskType, JournalAt, NoJournalAt,
    Committed, Write, Settle, Call, TryUnlink, Branch, Claim, Steady, me, StopWon
  <1>1. CASE Attempt
    <2>1. ASSUME NEW j \in Attempts, ClaimJob(j) PROVE OriginalStep
      BY <2>1 DEF ClaimJob, NoCtx
    <2>2. CASE PrepareCollision
      BY <2>2 DEF PrepareCollision, Preparable, Collision, WithResult, NoPath
    <2>3. CASE FailCollided
      BY <2>3 DEF FailCollided, Failed
    <2>4. CASE RecountCollided
      BY <2>4 DEF RecountCollided, Aggregate
    <2>5. CASE PrepareClaim
      BY <2>5 DEF PrepareClaim, Preparable, Collision, ScratchOf
    <2>6. CASE PrepareDefer
      BY <2>6 DEF PrepareDefer, Preparable
    <2>7. CASE RunnerWrites
      BY <2>7 DEF RunnerWrites
    <2>8. CASE ResultCancelled
      BY <2>8 DEF ResultCancelled
    <2>9. CASE ResultError
      BY <2>9 DEF ResultError
    <2>10. CASE ResultOk
      BY <2>10 DEF ResultOk
    <2> QED
      BY <1>1, <2>1, <2>2, <2>3, <2>4, <2>5, <2>6, <2>7, <2>8, <2>9, <2>10 DEF Attempt
  <1>2. CASE ToCommitPoint
    <2>1. CASE ClaimFinalizing
      BY <2>1 DEF ClaimFinalizing
    <2>2. CASE Validate
      BY <2>2 DEF Validate
    <2>3. CASE Filter
      BY <2>3 DEF Filter
    <2>4. CASE ClaimCommitting
      BY <2>4 DEF ClaimCommitting
    <2> QED
      BY <1>2, <2>1, <2>2, <2>3, <2>4 DEF ToCommitPoint
  <1>3. CASE FinishAdjacent
    <2>1. CASE Promote
      BY <2>1 DEF Promote
    <2>2. CASE LinkFinal
      BY <2>2 DEF LinkFinal
    <2>3. CASE ValidateFinal
      BY <2>3 DEF ValidateFinal
    <2>4. CASE JournalCommitted
      BY <2>4 DEF JournalCommitted
    <2>5. CASE PersistOutput
      BY <2>5 DEF PersistOutput, WithResult, NoPath, FinalPath
    <2>6. CASE CompleteOutput
      BY <2>6 DEF CompleteOutput, Completed
    <2>7. CASE AggregateOutput
      BY <2>7 DEF AggregateOutput, Aggregate
    <2>8. CASE JournalCleaned
      BY <2>8 DEF JournalCleaned
    <2>9. CASE UnlinkScratch
      BY <2>9 DEF UnlinkScratch, Without, NoPath, ScratchOf
    <2>10. CASE UnjournalScratch
      BY <2>10 DEF UnjournalScratch, NoPath, ScratchOf
    <2>11. CASE ReleaseOutput
      BY <2>11 DEF ReleaseOutput, TerminalOwnerCanRelease, Released, NoPath
    <2> QED
      BY <1>3, <2>1, <2>2, <2>3, <2>4, <2>5, <2>6, <2>7, <2>8, <2>9, <2>10, <2>11
        DEF FinishAdjacent
  <1>4. CASE FinishOverwrite
    <2>1. CASE Replace
      BY <2>1 DEF Replace
    <2>2. CASE RenameToBackup
      <3>1. disk.source = "original"
        BY <2>2 DEF RenameToBackup
      <3>2. CASE UNCHANGED disk
        BY <3>2
      <3>3. CASE disk' = [disk EXCEPT !.source = "none", !.backup = disk.backup \union {me}]
        <4>1. me \in disk'.backup
          BY <3>3
        <4> QED
          BY <3>1, <4>1
      <3>4. \/ UNCHANGED disk
            \/ disk' = [disk EXCEPT !.source = "none", !.backup = disk.backup \union {me}]
        BY <2>2 DEF RenameToBackup
      <3> QED
        BY <3>2, <3>3, <3>4
    <2>3. CASE RenameOutput
      BY <2>3 DEF RenameOutput
    <2>4. CASE RenameBack
      BY <2>4 DEF RenameBack, Restored
    <2>5. CASE StatSource
      BY <2>5 DEF StatSource
    <2>6. CASE MarkReplaced
      BY <2>6 DEF MarkReplaced
    <2>7. CASE UnlinkBackup
      BY <2>7 DEF UnlinkBackup, Without, NoPath, BackupOf
    <2>8. CASE ReleaseReplaced
      BY <2>8 DEF ReleaseReplaced, TerminalOwnerCanRelease, Released, NoPath
    <2>9. CASE EraseJournal
      BY <2>9 DEF EraseJournal, NoPath, BackupOf
    <2> QED
      BY <1>4, <2>1, <2>2, <2>3, <2>4, <2>5, <2>6, <2>7, <2>8, <2>9 DEF FinishOverwrite
  <1>5. CASE FinishRejected
    <2>1. CASE ValidateRejected
      BY <2>1 DEF ValidateRejected
    <2>2. CASE DeleteRejected
      BY <2>2 DEF DeleteRejected, Without, ScratchOf
    <2>3. CASE PersistRejected
      BY <2>3 DEF PersistRejected, WithResult, NoPath, ScratchOf
    <2>4. CASE CompleteRejected
      BY <2>4 DEF CompleteRejected, Completed
    <2>5. CASE AggregateRejected
      BY <2>5 DEF AggregateRejected, Aggregate
    <2>6. CASE UnjournalRejected
      BY <2>6 DEF UnjournalRejected
    <2>7. CASE ReleaseRejected
      BY <2>7 DEF ReleaseRejected, TerminalOwnerCanRelease, Released, NoPath
    <2> QED
      BY <1>5, <2>1, <2>2, <2>3, <2>4, <2>5, <2>6, <2>7 DEF FinishRejected
  <1>6. CASE FinishStopped
    <2>1. CASE StopClean
      BY <2>1 DEF StopClean, Without, NoPath, ScratchOf
    <2>2. CASE StopWrite
      BY <2>2 DEF StopWrite, NoPath
    <2>3. CASE StopComplete
      BY <2>3 DEF StopComplete, Completed
    <2>4. CASE StopRelease
      BY <2>4 DEF StopRelease, Released, NoPath
    <2> QED
      BY <1>6, <2>1, <2>2, <2>3, <2>4 DEF FinishStopped
  <1>7. CASE FinishFailure
    <2>1. CASE FailClaim
      BY <2>1 DEF FailClaim
    <2>2. CASE FailClean
      BY <2>2 DEF FailClean, Without, NoPath, ScratchOf
    <2>3. CASE FailPersist
      BY <2>3 DEF FailPersist, WithResult, NoPath
    <2>4. CASE FailJob
      BY <2>4 DEF FailJob, Failed
    <2>5. CASE FailAggregate
      BY <2>5 DEF FailAggregate, Aggregate
    <2>6. CASE FailRelease
      BY <2>6 DEF FailRelease, FailedOwnerCanRelease, NoPath, Released
    <2> QED
      BY <1>7, <2>1, <2>2, <2>3, <2>4, <2>5, <2>6 DEF FinishFailure
  <1>8. CASE RollBack
    <2>1. CASE HandleError
      BY <2>1 DEF HandleError
    <2>2. CASE UndoFinal
      BY <2>2 DEF UndoFinal, OwnFinal
    <2>3. CASE RestoreBackup
      BY <2>3 DEF RestoreBackup, Restored
    <2>4. CASE UndoScratch
      BY <2>4 DEF UndoScratch, Without, ScratchOf, FailureFinalizing
    <2>5. CASE UndoFailed
      BY <2>5 DEF UndoFailed
    <2>6. CASE FailUndone
      BY <2>6 DEF FailUndone, Failed
    <2> QED
      BY <1>8, <2>1, <2>2, <2>3, <2>4, <2>5, <2>6 DEF RollBack
  <1>9. CASE RecoverJournal
    <2>1. CASE Boot
      BY <2>1 DEF Boot, NoCtx, CrashedTask, RolledForward, FailureFinalizing
    <2>2. CASE StatOutput
      BY <2>2 DEF StatOutput
    <2>3. CASE RecoverFailure
      BY <2>3 DEF RecoverFailure, WithResult, NoPath
    <2>4. CASE FailInterrupted
      BY <2>4 DEF FailInterrupted, Failed
    <2>5. CASE UnjournalUndone
      BY <2>5 DEF UnjournalUndone, NoPath
    <2>6. CASE ReleaseUndone
      BY <2>6 DEF ReleaseUndone, Released, NoPath
    <2>7. CASE AggregateUndone
      BY <2>7 DEF AggregateUndone, Aggregate
    <2>8. CASE BootError
      BY <2>8 DEF BootError, BackupOf, ScratchOf
    <2> QED
      BY <1>9, <2>1, <2>2, <2>3, <2>4, <2>5, <2>6, <2>7, <2>8 DEF RecoverJournal
  <1>10. CASE RecoverStuckFile
    <2>1. CASE ReadStuck
      BY <2>1 DEF ReadStuck, NoCtx, CommittingResidue
    <2>2. CASE RemoveResidue
      BY <2>2 DEF RemoveResidue, NoPath, Without
    <2>3. CASE ForgetResidue
      BY <2>3 DEF ForgetResidue, NoPath
    <2>4. CASE FailResidue
      BY <2>4 DEF FailResidue, Failed
    <2>5. CASE AggregateResidue
      BY <2>5 DEF AggregateResidue, Aggregate
    <2>6. CASE ReleaseResidue
      BY <2>6 DEF ReleaseResidue, ResidueCanRelease, FailedOwnerCanRelease, NoPath,
        TerminalOwnerCanRelease, Released
    <2>7. CASE ReadInterrupted
      BY <2>7 DEF ReadInterrupted, Without, NoPath
    <2>8. CASE RequeueUnowned
      BY <2>8 DEF RequeueUnowned, NoPath
    <2>9. CASE AggregateUnowned
      BY <2>9 DEF AggregateUnowned, Aggregate
    <2>10. CASE FailOwner
      BY <2>10 DEF FailOwner, Failed
    <2>11. CASE ReleaseOwner
      BY <2>11 DEF ReleaseOwner, Released, NoPath
    <2>12. CASE SettleOwner
      BY <2>12 DEF SettleOwner, Aggregate
    <2> QED
      BY <1>10, <2>1, <2>2, <2>3, <2>4, <2>5, <2>6, <2>7, <2>8, <2>9, <2>10, <2>11, <2>12
        DEF RecoverStuckFile
  <1>11. CASE RecoverJobs
    <2>1. ASSUME NEW j \in Attempts, RecoverInterruptedJob(j) PROVE OriginalStep
      BY <2>1 DEF RecoverInterruptedJob, CompletedBeforeCrash, Completed, Failed
    <2>2. CASE Ready
      BY <2>2 DEF Ready, NoCtx
    <2> QED
      BY <1>11, <2>1, <2>2 DEF RecoverJobs
  <1>12. CASE User
    <2>1. CASE StopOwned
      BY <2>1 DEF StopOwned
    <2>2. CASE StopQueued
      BY <2>2 DEF StopQueued
    <2>3. CASE StopJobs
      BY <2>3 DEF StopJobs, Active
    <2>4. CASE UserCreatesFinal
      BY <2>4 DEF UserCreatesFinal
    <2> QED
      BY <1>12, <2>1, <2>2, <2>3, <2>4 DEF User
  <1>13. ASSUME NEW j \in Attempts, Enqueue(j) PROVE OriginalStep
    BY <1>13 DEF Enqueue, Active
  <1>14. CASE Crash
    BY <1>14 DEF Crash, NoCtx
  <1>15. CASE UNCHANGED vars
    BY <1>15 DEF vars
  <1> QED
    BY <1>1, <1>2, <1>3, <1>4, <1>5, <1>6, <1>7, <1>8, <1>9, <1>10, <1>11, <1>12, <1>13,
      <1>14, <1>15 DEF Next, Finalize, Startup

-----------------------------------------------------------------------------
\* Initially no result is recorded and no path is kept.
LEMMA InitDecided == Init => Decided
  <1> SUFFICES ASSUME Init PROVE OutcomeAt /\ BackupAt /\ GateAt
    BY InitSafe DEF Decided
  <1> USE DEF Init, FreshFile, NoResult, NoJournal, NoPath
  <1>1. OutcomeAt
    BY DEF OutcomeAt, UndecidedAt, UncommittedAt, DecidedAt, Committed
  <1>2. BackupAt /\ GateAt
    BY DEF BackupAt, RejectedAt, GateAt, ClaimedAt, PublishingAt, PublishedAt
  <1> QED
    BY <1>1, <1>2

\* A step is a decision, a discard, or nothing of either.
LEMMA StepPromised ==
    ASSUME Decided, [Next]_vars
    PROVE  [Promise!Next]_<<outcomeOf, originalOf>>
  <1>1. outcomeOf' = outcomeOf \/ (outcomeOf = "open" /\ UNCHANGED disk)
    BY OutcomeDecidedOnce DEF OutcomeStep
  <1>2. \/ UNCHANGED originalOf
        \/ originalOf /\ originalOf' = FALSE /\ outcomeOf = "published"
    BY OriginalDiscardedLast DEF OriginalStep
  <1>3. outcomeOf' \in {"open", "published", "refused"}
    BY DEF outcomeOf
  <1>4. UNCHANGED disk => UNCHANGED originalOf
    BY DEF originalOf
  <1>5. CASE outcomeOf = "open" /\ UNCHANGED disk
    BY <1>3, <1>4, <1>5 DEF Promise!Next, Promise!Decide
  <1>6. CASE UNCHANGED outcomeOf
    BY <1>2, <1>6 DEF Promise!Next, Promise!Discard
  <1> QED
    BY <1>1, <1>5, <1>6

(***************************************************************************)
(* The theorems.                                                           *)
(***************************************************************************)
\* The inductive invariant holds in every reachable state.
THEOREM DecidedHolds == Spec => []Decided
  <1>1. Decided /\ [Next]_vars => Decided'
    <2> SUFFICES ASSUME Decided, [Next]_vars PROVE Decided'
      OBVIOUS
    <2>1. Safe'
      BY TypedKept, JournalAtKept, SourceAtKept, ResultAtKept, OneActiveKept DEF Decided, Safe
    <2> QED
      BY <2>1, OutcomeAtKept, BackupAtKept, GateAtKept DEF Decided
  <1> QED
    BY InitDecided, <1>1, PTL DEF Spec

\* Finalization, its failures, its crashes and its recoveries implement the
\* promise: one decision per file, and the original outlives it unless the
\* output is published in its place.
THEOREM CommitKeepsPromise == Spec => PromiseSpec
  <1>1. Init => Promise!Init
    BY DEF Init, FreshFile, FreshDisk, NoResult, NoJournal, Promise!Init, outcomeOf, originalOf,
           Published, Refused
  <1>2. Decided /\ [Next]_vars => [Promise!Next]_<<outcomeOf, originalOf>>
    BY StepPromised
  <1> QED
    BY DecidedHolds, <1>1, <1>2, PTL DEF Spec, PromiseSpec, Promise!Spec
=============================================================================
