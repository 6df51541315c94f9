------------------------- MODULE OutputCommitResting -------------------------
(***************************************************************************)
(* What OutputCommit leaves behind, for any number of attempts, crashes    *)
(* and failing filesystem calls: whatever is left in the directory is      *)
(* named by the document, a file at rest says what is on disk, and no      *)
(* owner is left that a startup could not tell.                            *)
(*                                                                         *)
(* To Decided this adds what the final name holds (FinalAt), which         *)
(* leftovers the document names (LeftAt), what the status says (StatusAt), *)
(* whose the file and the jobs are (OwnerAt) and what an owner without a   *)
(* journal has come to (ResidueAt).                                        *)
(***************************************************************************)
EXTENDS OutputCommitProofs

\* What the final name holds.
ScratchAt    == {"finalize", "validate", "filter", "commit", "promote", "link"}
UndoneAt     == {"undoScratch", "failClaim", "failClean", "failPersist", "stopClean",
                 "stopWrite", "recoverFailure", "failInterrupted", "unjournalUndone"}
OwnJournalAt == {"error", "undo", "undoScratch", "undoFailed", "stopClean", "stopWrite",
                 "failClaim", "failClean", "failPersist", "recoverFailure", "failInterrupted",
                 "unjournalUndone", "unlinkScratch", "unjournalScratch", "unlinkBackup",
                 "releaseReplaced", "eraseJournal", "completeRejected", "aggregateRejected",
                 "unjournalRejected"}

FinalAt ==
    /\ disk.final \in Attempts =>
          /\ mode = "adjacent" /\ file.journal.phase # "prepared"
          /\ \/ file.result.path = FinalPath
             \/ /\ file.journal.job = disk.final
                /\ file.journal.phase \in {"promoting", "committed"}
          /\ file.journal.phase = "promoting" => disk.final \in disk.scratch
    /\ file.result.path = FinalPath =>
          disk.final \in Attempts /\ file.journal.phase \notin {"prepared", "promoting"}
    /\ Committed(file.journal) /\ mode = "adjacent" =>
          /\ disk.final \in Attempts
          /\ file.journal.phase = "cleaned" => file.result.path = FinalPath
    /\ pc \in ScratchAt => me \in disk.scratch
    /\ pc \in {"linked", "journalCommitted"} /\ mode = "adjacent" => disk.final = me
    /\ pc \in DecidedAt \union {"releaseOutput"} /\ mode = "adjacent" =>
          file.result.path = FinalPath
    /\ pc \in OwnJournalAt => file.journal.job = me
    /\ pc \in UndoneAt => disk.final \notin Attempts

\* Which leftovers there are, and what names them.
KeptAt    == {"unjournalScratch", "releaseOutput", "stopWrite", "stopComplete", "stopRelease",
              "failPersist", "failJob", "failAggregate", "failRelease"}
CleanAt   == {"recoverFailure", "failInterrupted", "unjournalUndone", "releaseUndone",
              "aggregateUndone"}
KeepingAt == {"completeRejected", "aggregateRejected", "unjournalRejected", "releaseRejected"}
ForgotAt  == {"failResidue", "aggregateResidue", "releaseResidue", "releaseUndone",
              "aggregateUndone"}
RemovedAt == {"forgetResidue", "requeueUnowned", "failOwner", "releaseOwner"}
RunTimeAt == {"prepare", "transcode", "finalize", "validate", "filter", "commit", "promote",
              "link", "linked", "replace", "renameToBackup", "renameOutput", "renameBack",
              "statSource", "journalCommitted", "reject", "deleteRejected", "persistRejected",
              "completeRejected", "aggregateRejected", "unjournalRejected", "releaseRejected",
              "error", "failClaim", "failClean", "failPersist"}
BootAt    == {"statOutput", "recoverFailure", "failInterrupted", "unjournalUndone",
              "releaseUndone", "aggregateUndone", "bootError", "stuck", "removeResidue",
              "forgetResidue", "failResidue", "aggregateResidue", "releaseResidue",
              "readInterrupted", "requeueUnowned", "aggregateUnowned", "failOwner",
              "releaseOwner", "settleOwner", "jobs"}

LeftAt ==
    /\ LeftoversNamed
    /\ file.result.status = "none" =>
          /\ file.result.path = NoPath
          /\ file.journal = NoJournal => file.path = NoPath
    /\ disk.backup # {} => disk.source # "original" /\ mode = "overwrite"
    /\ disk.source \in Attempts => disk.scratch = {}
    /\ file.journal # NoJournal =>
          disk.scratch \subseteq {file.journal.job} /\ disk.backup \subseteq {file.journal.job}
    /\ pc \in KeptAt /\ ctx.cleaned => disk.scratch = {}
    /\ pc \in {"failJob", "failAggregate", "failRelease"} /\ life = "boot" => disk.scratch = {}
    /\ pc \in KeptAt => disk.backup = {}
    /\ pc \in CleanAt => disk.scratch = {}
    /\ pc \in {"releaseReplaced", "eraseJournal"} /\ ctx.cleaned => disk.backup = {}
    /\ pc \in {"unlinkScratch", "unjournalScratch", "releaseOutput"} => file.result.status # "none"
    /\ pc \in KeepingAt => file.result.status = "rejected"
    /\ pc = "bootError" /\ file.journal = NoJournal => file.result.status # "none"
    /\ pc \in {"releaseOutput", "bootError"} =>
          disk.scratch \subseteq {me} /\ disk.backup \subseteq {me}
    /\ pc \in RejectedAt \union {"releaseRejected"} => file.path = ScratchOf(me)
    /\ pc = "persistRejected" /\ ctx.verdict = "delete" => disk.scratch = {}
    /\ pc \in KeepingAt =>
          disk.scratch = {} \/ (file.result.path = ScratchOf(me) /\ disk.scratch \subseteq {me})
    /\ pc \in ForgotAt => file.path = NoPath
    /\ pc \in RunTimeAt => life = "up"
    /\ pc \in BootAt => life = "boot"
    /\ pc \in RemovedAt /\ ctx.cleaned => \A j \in Attempts :
          /\ file.path = ScratchOf(j) => j \notin disk.scratch
          /\ file.path = BackupOf(j) => j \notin disk.backup

\* What the status says of the result.
Agreed      == /\ file.result.status = "done" => file.status = "transcoded"
               /\ file.result.status = "replaced" => file.status = "replaced"
Unpublished == file.result.status \notin {"done", "replaced"}

\* The owner of a published output whose job a startup has failed.
HalfDone == /\ file.result.path = FinalPath /\ file.owner # NoJob /\ file.status = "failed"
            /\ job[file.owner] = "failed"

StuckAt     == {"removeResidue", "forgetResidue", "failResidue", "aggregateResidue",
                "releaseResidue", "readInterrupted"}
RequeuedAt  == {"requeueUnowned", "aggregateUnowned", "failOwner", "releaseOwner", "settleOwner"}
FailedAt    == {"failJob", "failAggregate", "failRelease", "collided", "recountCollided"}
StoppedAt   == {"stopClean", "stopWrite", "stopComplete", "stopRelease"}

StatusAt ==
    /\ file.status = "transcoded" => file.result.status = "done"
    /\ file.status = "replaced" => file.result.status = "replaced"
    /\ file.journal = NoJournal => Agreed \/ HalfDone
    /\ file.phase = "committing" => ~StopWon
    /\ file.failing => Unpublished
    /\ Committed(file.journal) \/ pc \in PublishedAt =>
          ~StopWon /\ (file.owner = NoJob \/ file.phase = "committing")
    /\ pc \in PromotingAt => file.phase = "committing"
    /\ pc \in PublishedAt /\ mode = "adjacent" => Agreed /\ file.status # "processing"
    /\ pc \in {"complete", "journalCleaned", "unlinkBackup", "releaseReplaced", "eraseJournal"}
          /\ mode = "overwrite" => file.status = "replaced"
    /\ pc \in StuckAt /\ file.journal = NoJournal /\ ctx.seen \in {"processing", "stopped"} =>
          Unpublished
    /\ pc \in RequeuedAt \union StoppedAt \union {"releaseUndone", "aggregateUndone"} => Unpublished
    /\ pc \in FailedAt => file.result.status = "failed"
    /\ pc \in {"unjournalRejected", "releaseRejected"} => file.status # "processing"
    /\ pc \in StoppedAt => file.phase # "committing"
    /\ pc = "bootError" /\ file.journal = NoJournal =>
          /\ file.owner = me /\ file.phase = "committing" /\ job[me] = "failed"
          /\ file.result.path = FinalPath

\* Whose the file is, and what its job has come to.
RunningAt == {"prepare", "transcode", "finalize", "validate", "filter", "commit", "promote",
              "link", "linked", "journalCommitted", "persist", "complete", "replace",
              "renameToBackup", "renameOutput", "renameBack", "statSource", "markReplaced",
              "error", "undo", "undoScratch", "undoFailed", "failUndone", "failClaim",
              "failClean", "failPersist", "failJob", "stopClean", "stopWrite", "stopComplete",
              "reject", "deleteRejected", "persistRejected", "completeRejected"}
SettledAt == {"recountCollided", "aggregate", "journalCleaned", "unlinkScratch", "unjournalScratch",
              "releaseOutput", "unlinkBackup", "releaseReplaced", "eraseJournal", "stopRelease",
              "aggregateRejected", "unjournalRejected", "releaseRejected"}
FreeAt    == {"collided", "recountCollided", "stopJobs", "requeueUnowned", "aggregateUnowned",
              "settleOwner", "aggregateUndone", "eraseJournal"}
OwnedAt   == (RunningAt \ {"prepare"}) \union (SettledAt \ {"recountCollided", "eraseJournal"})
             \union {"failAggregate", "failRelease"}
RejectingAt == {"reject", "deleteRejected", "persistRejected", "completeRejected",
                "aggregateRejected", "unjournalRejected", "releaseRejected"}
FailingAt == {"failClean", "failPersist", "recoverFailure", "failJob", "failAggregate",
              "failRelease"}
UndoingAt == {"failInterrupted", "unjournalUndone", "releaseUndone", "aggregateUndone"}

OwnerAt ==
    /\ file.journal # NoJournal =>
          /\ job[file.journal.job] \notin {"none", "pending"}
          /\ file.owner \in {NoJob, file.journal.job}
    /\ file.owner # NoJob =>
          /\ job[file.owner] \notin {"none", "pending"}
          /\ file.failing => job[file.owner] # "done" /\ file.phase = "committing"
          /\ file.journal # NoJournal /\ job[file.owner] = "done" =>
                \/ file.phase = "committing" /\ file.result.status # "none"
                \/ file.status = "stopped"
    /\ file.owner = NoJob <=> file.phase = "none"
    /\ file.owner = NoJob => ~file.failing
    /\ life = "up" /\ pc \in RunningAt => job[me] = "running"
    /\ pc \in SettledAt => job[me] # "running"
    /\ life = "up" /\ pc \in OwnedAt => file.owner = me
    /\ pc \in RejectingAt => file.phase = "committing"
    /\ pc \in {"stopComplete", "stopRelease"} => file.status = "stopped"
    /\ pc \in {"unlinkScratch", "unjournalScratch"} => file.journal.phase = "cleaned"
    /\ pc \in FreeAt => file.owner = NoJob
    /\ pc \in UndoingAt => ~file.failing /\ file.owner \in {NoJob, me}
    /\ pc = "releaseOutput" => file.journal.phase \in {"none", "cleaned"}
    /\ pc = "unjournalUndone" => job[me] \in {"done", "failed"}
    /\ pc \in FailingAt => file.failing /\ file.owner = me
    /\ pc = "failUndone" => life = "up" /\ file.journal.job = me
    /\ pc \in {"aggregateRejected", "unjournalRejected", "releaseRejected"} => job[me] = "done"
    /\ pc \in StuckAt => file.owner = me
    /\ pc \in StuckAt \ {"readInterrupted"} => file.phase = "committing"
    /\ pc \in {"failOwner", "releaseOwner"} => file.owner = me

\* What the owner of a file without a journal has come to.
Failing  == file.failing /\ file.result.status = "failed"
Finished == /\ file.result.status # "none" /\ job[file.owner] = "done" /\ ~file.failing
            /\ file.status # "processing"
Lost     == /\ job[file.owner] = "failed" /\ ~file.failing
            /\ file.status = "queued" \/ file.result.path = FinalPath

ResidueAt ==
    /\ file.owner # NoJob /\ file.journal = NoJournal =>
          IF file.phase = "committing" THEN Failing \/ Finished \/ Lost
          ELSE file.status = "stopped" \/ (file.status = "queued" /\ job[file.owner] = "failed")
    /\ file.owner # NoJob /\ file.status = "queued" =>
          file.journal = NoJournal /\ file.path = NoPath
    /\ pc = "forgetResidue" => file.path # NoPath
    /\ pc \in {"failResidue", "aggregateResidue"} => Failing
    /\ pc = "aggregateResidue" => job[me] = "failed"
    /\ pc = "releaseResidue" /\ file.failing => job[me] = "failed" /\ file.status # "processing"
    /\ pc = "readInterrupted" /\ file.owner # NoJob /\ file.journal = NoJournal
          /\ ctx.seen \notin {"processing", "stopped"} => file.path # NoPath \/ Stranded
    /\ pc \in {"idle", "jobs"} /\ life # "down" /\ file.owner # NoJob => KeptForStartup \/ Stranded
    /\ pc = "prepare" \/ (\E j \in Attempts : job[j] = "pending") =>
          file.owner = NoJob \/ Stranded
    /\ life = "up" /\ pc \in {"idle", "stopJobs"} =>
          Stranded \/ \A j \in Attempts : job[j] # "running"

Kept == Decided /\ FinalAt /\ LeftAt /\ StatusAt /\ OwnerAt /\ ResidueAt

-----------------------------------------------------------------------------
(***************************************************************************)
(* Paths and what an unlink removes.                                       *)
(***************************************************************************)
\* The names the monitor gives are different ones, and none is the null path or
\* the final name.
LEMMA PathsApart ==
    /\ NoPath # FinalPath
    /\ \A i \in Attempts :
          /\ ScratchOf(i) \notin {NoPath, FinalPath} /\ BackupOf(i) \notin {NoPath, FinalPath}
          /\ \A j \in Attempts : /\ ScratchOf(i) # BackupOf(j)
                                 /\ ScratchOf(i) = ScratchOf(j) => i = j
                                 /\ BackupOf(i) = BackupOf(j) => i = j
  BY DEF NoPath, FinalPath, ScratchOf, BackupOf

\* A path is null, the final name, or one of an attempt.
LEMMA PathKinds ==
    \A p \in Paths : \/ p \in {NoPath, FinalPath}
                     \/ \E j \in Attempts : p \in {ScratchOf(j), BackupOf(j)}
  BY DEF Paths, NoPath, FinalPath, ScratchOf, BackupOf

\* An unlink removes what its path names, and nothing else.
LEMMA UnlinkRemoves ==
    ASSUME TypeOK
    PROVE  /\ Without(NoPath) = disk /\ Without(FinalPath) = disk
           /\ \A j \in Attempts :
                /\ Without(ScratchOf(j)) = [disk EXCEPT !.scratch = @ \ {j}]
                /\ Without(BackupOf(j)) = [disk EXCEPT !.backup = @ \ {j}]
  BY DEF Without, NoPath, FinalPath, ScratchOf, BackupOf

\* A release forgets the owner, and the path unless it is kept.
LEMMA ReleasedFields ==
    ASSUME TypeOK, NEW keepPath \in BOOLEAN
    PROVE  LET f == Released(file, keepPath) IN
           /\ f.owner = NoJob /\ f.phase = "none" /\ ~f.failing /\ ~f.cancelled
           /\ f.status = file.status /\ f.journal = file.journal /\ f.result = file.result
           /\ f.path = IF keepPath THEN file.path ELSE NoPath
  BY DEF TypeOK, FileType, Released

\* What the claim of a failure leaves of the document.
LEMMA FailClaimWrites ==
    ASSUME TypeOK, FailClaim
    PROVE  /\ UNCHANGED <<mode, life, disk, ctx, job>> /\ pc = "failClaim"
           /\ file'.journal = file.journal /\ file'.result = file.result
           /\ file'.path = file.path /\ file'.status = file.status /\ file'.owner = file.owner
           /\ file'.cancelled = file.cancelled
           /\ \/ pc' = "failClean" /\ ~StopWon /\ file'.phase = "committing" /\ file'.failing
              \/ pc' = "stopClean" /\ StopWon /\ UNCHANGED file
  <1>1. CASE StopWon
    BY <1>1 DEF TypeOK, FileType, FailClaim, Claim, Write, Branch, Steady
  <1>2. CASE ~StopWon
    BY <1>2 DEF TypeOK, FileType, FailClaim, Claim, Write, Branch, Steady
  <1> QED
    BY <1>1, <1>2

\* What the claim of a promotion or of a replacement leaves of the document.
LEMMA CommitClaimWrites ==
    ASSUME TypeOK, Promote \/ Replace, ~StopWon
    PROVE  /\ UNCHANGED <<mode, life, disk, ctx, job>>
           /\ \/ pc = "promote" /\ pc' = "link"
              \/ pc = "replace" /\ pc' = "renameToBackup"
           /\ file'.result = file.result /\ file'.path = file.path
           /\ file'.status = file.status /\ file'.owner = file.owner
           /\ file'.cancelled = file.cancelled /\ file'.failing = file.failing
           /\ file'.phase = "committing" /\ file'.journal.phase = "promoting"
           /\ file'.journal.job = file.journal.job
  <1>1. CASE Promote
    <2>1. pc = "promote" /\ pc' = "link" /\ UNCHANGED <<mode, life, disk, ctx, job>>
      BY <1>1 DEF Promote, Claim, Write, Branch, Steady
    <2>2. /\ file'.status = file.status /\ file'.owner = file.owner
          /\ file'.cancelled = file.cancelled /\ file'.phase = "committing"
      BY <1>1 DEF TypeOK, FileType, Promote, Claim, Write, Branch, Steady
    <2> QED
      BY <1>1, <2>1, <2>2, PromoteWrites
  <1>2. CASE Replace
    <2>1. pc = "replace" /\ pc' = "renameToBackup" /\ UNCHANGED <<mode, life, disk, ctx, job>>
      BY <1>2 DEF Replace, Claim, Write, Branch, Steady
    <2>2. /\ file'.status = file.status /\ file'.owner = file.owner
          /\ file'.cancelled = file.cancelled /\ file'.phase = "committing"
      BY <1>2 DEF TypeOK, FileType, Replace, Claim, Write, Branch, Steady
    <2> QED
      BY <1>2, <2>1, <2>2, ReplaceWrites
  <1> QED
    BY <1>1, <1>2

\* What the recount says: a publication only if the result is that publication, a
\* stop only if there was one, and the result itself when nobody works on the file.
LEMMA AggregateSays ==
    ASSUME TypeOK, NEW j
    PROVE  /\ Aggregate(j) = "transcoded" => file.result.status = "done"
           /\ Aggregate(j) = "replaced" => file.result.status = "replaced"
           /\ Aggregate(j) = "stopped" <=> file.status = "stopped"
           /\ Aggregate(j) = "processing" =>
                 file.status # "stopped" /\ file.owner \notin {NoJob, j}
           /\ /\ file.status # "stopped" /\ file.owner \in {NoJob, j}
              /\ \A k \in Attempts : Active(k) => k = j
              => Aggregate(j) = CASE file.result.status = "done" -> "transcoded"
                                  [] file.result.status = "none" -> "queued"
                                  [] OTHER -> file.result.status
  BY DEF TypeOK, FileType, Results, Aggregate, Active

-----------------------------------------------------------------------------
\* The final name holds an output only once a journal was about to link it, and
\* what a journal could not commit is unlinked before it is forgotten.
LEMMA FinalAtKept == ASSUME Kept, [Next]_vars PROVE FinalAt'
  <1> USE CommitAssumption DEF Kept, Decided, Safe, Typed, Placed, TypeOK, FileType,
    DiskType, CtxType, Results, Journals, NoJournal, FinalAt, ScratchAt, UndoneAt,
    OwnJournalAt, DecidedAt, JournalAt, PreparedAt, PromotingAt, CommittedAt, Committed,
    NoJournalAt, OutcomeAt, UndecidedAt, UncommittedAt, SourceAt, AdjacentAt, OverwriteAt,
    FinalPath, NoPath, ScratchOf, Detached, Journaling, Write, Settle, Call, TryUnlink,
    Branch, Claim, Steady, me, StopWon
  <1>1. CASE Attempt
    <2>1. ASSUME NEW j \in Attempts, ClaimJob(j) PROVE FinalAt'
      BY <2>1 DEF ClaimJob, NoCtx
    <2>2. CASE PrepareCollision
      BY <2>2 DEF PrepareCollision, WithResult, LeftAt, ResultAt
    <2>3. CASE FailCollided
      BY <2>3 DEF FailCollided, Failed
    <2>4. CASE RecountCollided
      BY <2>4 DEF RecountCollided, Aggregate
    <2>5. CASE PrepareClaim
      BY <2>5 DEF PrepareClaim, Preparable, Collision, ScratchOf
    <2>6. CASE PrepareDefer
      BY <2>6 DEF PrepareDefer, Preparable
    <2>7. CASE RunnerWrites
      BY <2>7 DEF RunnerWrites
    <2>8. CASE ResultCancelled
      BY <2>8 DEF ResultCancelled
    <2>9. CASE ResultError
      BY <2>9 DEF ResultError
    <2>10. CASE ResultOk
      BY <2>10 DEF ResultOk
    <2> QED
      BY <1>1, <2>1, <2>2, <2>3, <2>4, <2>5, <2>6, <2>7, <2>8, <2>9, <2>10 DEF Attempt
  <1>2. CASE ToCommitPoint
    <2>1. CASE ClaimFinalizing
      BY <2>1 DEF ClaimFinalizing
    <2>2. CASE Validate
      BY <2>2 DEF Validate
    <2>3. CASE Filter
      BY <2>3 DEF Filter
    <2>4. CASE ClaimCommitting
      BY <2>4 DEF ClaimCommitting
    <2> QED
      BY <1>2, <2>1, <2>2, <2>3, <2>4 DEF ToCommitPoint
  <1>3. CASE FinishAdjacent
    <2>1. CASE Promote
      <3>1. CASE StopWon
        BY <2>1, <3>1 DEF Promote
      <3>2. CASE ~StopWon
        BY <2>1, <3>2, PromoteWrites
      <3> QED
        BY <3>1, <3>2
    <2>2. CASE LinkFinal
      BY <2>2 DEF LinkFinal
    <2>3. CASE ValidateFinal
      BY <2>3 DEF ValidateFinal
    <2>4. CASE JournalCommitted
      BY <2>4 DEF JournalCommitted
    <2>5. CASE PersistOutput
      BY <2>5 DEF PersistOutput, WithResult, NoPath, FinalPath
    <2>6. CASE CompleteOutput
      BY <2>6 DEF CompleteOutput, Completed
    <2>7. CASE AggregateOutput
      BY <2>7 DEF AggregateOutput, Aggregate
    <2>8. CASE JournalCleaned
      BY <2>8 DEF JournalCleaned
    <2>9. CASE UnlinkScratch
      BY <2>9 DEF UnlinkScratch, Without, NoPath, ScratchOf
    <2>10. CASE UnjournalScratch
      BY <2>10 DEF UnjournalScratch, NoPath, ScratchOf
    <2>11. CASE ReleaseOutput
      <3>1. /\ UNCHANGED <<mode, disk, ctx, file.journal, file.result>>
            /\ pc = "releaseOutput" /\ mode = "adjacent"
            /\ pc' \in {"stuck", "idle", "bootError"} \/ (pc' = "error" /\ life # "boot")
        BY <2>11 DEF ReleaseOutput, Released
      <3>2. pc' # "error"
        BY <2>11, <3>1 DEF ReleaseOutput, TerminalOwnerCanRelease, GateAt, PublishedAt
      <3> QED
        BY <3>1, <3>2
    <2> QED
      BY <1>3, <2>1, <2>2, <2>3, <2>4, <2>5, <2>6, <2>7, <2>8, <2>9, <2>10, <2>11 DEF
        FinishAdjacent
  <1>4. CASE FinishOverwrite
    <2>1. CASE Replace
      BY <2>1 DEF Replace
    <2>2. CASE RenameToBackup
      BY <2>2 DEF RenameToBackup
    <2>3. CASE RenameOutput
      BY <2>3 DEF RenameOutput
    <2>4. CASE RenameBack
      BY <2>4 DEF RenameBack, Restored
    <2>5. CASE StatSource
      BY <2>5 DEF StatSource
    <2>6. CASE MarkReplaced
      BY <2>6 DEF MarkReplaced
    <2>7. CASE UnlinkBackup
      BY <2>7 DEF UnlinkBackup, Without, NoPath, BackupOf
    <2>8. CASE ReleaseReplaced
      BY <2>8 DEF ReleaseReplaced, TerminalOwnerCanRelease, Released, NoPath
    <2>9. CASE EraseJournal
      BY <2>9 DEF EraseJournal, NoPath, BackupOf
    <2> QED
      BY <1>4, <2>1, <2>2, <2>3, <2>4, <2>5, <2>6, <2>7, <2>8, <2>9 DEF FinishOverwrite
  <1>5. CASE FinishRejected
    <2>1. CASE ValidateRejected
      BY <2>1 DEF ValidateRejected
    <2>2. CASE DeleteRejected
      BY <2>2 DEF DeleteRejected, Without, ScratchOf
    <2>3. CASE PersistRejected
      BY <2>3 DEF PersistRejected, WithResult, NoPath, ScratchOf
    <2>4. CASE CompleteRejected
      BY <2>4 DEF CompleteRejected, Completed
    <2>5. CASE AggregateRejected
      BY <2>5 DEF AggregateRejected, Aggregate
    <2>6. CASE UnjournalRejected
      BY <2>6 DEF UnjournalRejected
    <2>7. CASE ReleaseRejected
      BY <2>7 DEF ReleaseRejected, TerminalOwnerCanRelease, Released, NoPath
    <2> QED
      BY <1>5, <2>1, <2>2, <2>3, <2>4, <2>5, <2>6, <2>7 DEF FinishRejected
  <1>6. CASE FinishStopped
    <2>1. CASE StopClean
      BY <2>1 DEF StopClean, Without, NoPath, ScratchOf
    <2>2. CASE StopWrite
      BY <2>2 DEF StopWrite, NoPath
    <2>3. CASE StopComplete
      BY <2>3 DEF StopComplete, Completed
    <2>4. CASE StopRelease
      BY <2>4 DEF StopRelease, Released, NoPath
    <2> QED
      BY <1>6, <2>1, <2>2, <2>3, <2>4 DEF FinishStopped
  <1>7. CASE FinishFailure
    <2>1. CASE FailClaim
      BY <2>1 DEF FailClaim
    <2>2. CASE FailClean
      BY <2>2 DEF FailClean, Without, NoPath, ScratchOf
    <2>3. CASE FailPersist
      BY <2>3 DEF FailPersist, WithResult, NoPath
    <2>4. CASE FailJob
      BY <2>4 DEF FailJob, Failed
    <2>5. CASE FailAggregate
      BY <2>5 DEF FailAggregate, Aggregate
    <2>6. CASE FailRelease
      BY <2>6 DEF FailRelease, FailedOwnerCanRelease, NoPath, Released
    <2> QED
      BY <1>7, <2>1, <2>2, <2>3, <2>4, <2>5, <2>6 DEF FinishFailure
  <1>8. CASE RollBack
    <2>1. CASE HandleError
      BY <2>1 DEF HandleError
    <2>2. CASE UndoFinal
      BY <2>2 DEF UndoFinal, OwnFinal
    <2>3. CASE RestoreBackup
      BY <2>3 DEF RestoreBackup, Restored
    <2>4. CASE UndoScratch
      BY <2>4 DEF UndoScratch, Without, ScratchOf, FailureFinalizing
    <2>5. CASE UndoFailed
      BY <2>5 DEF UndoFailed
    <2>6. CASE FailUndone
      BY <2>6 DEF FailUndone, Failed
    <2> QED
      BY <1>8, <2>1, <2>2, <2>3, <2>4, <2>5, <2>6 DEF RollBack
  <1>9. CASE RecoverJournal
    <2>1. CASE Boot
      BY <2>1 DEF Boot, NoCtx, CrashedTask, RolledForward, FailureFinalizing
    <2>2. CASE StatOutput
      BY <2>2 DEF StatOutput
    <2>3. CASE RecoverFailure
      BY <2>3 DEF RecoverFailure, WithResult, NoPath
    <2>4. CASE FailInterrupted
      BY <2>4 DEF FailInterrupted, Failed
    <2>5. CASE UnjournalUndone
      BY <2>5 DEF UnjournalUndone, NoPath
    <2>6. CASE ReleaseUndone
      BY <2>6 DEF ReleaseUndone, Released, NoPath
    <2>7. CASE AggregateUndone
      BY <2>7 DEF AggregateUndone, Aggregate
    <2>8. CASE BootError
      BY <2>8 DEF BootError, BackupOf, ScratchOf
    <2> QED
      BY <1>9, <2>1, <2>2, <2>3, <2>4, <2>5, <2>6, <2>7, <2>8 DEF RecoverJournal
  <1>10. CASE RecoverStuckFile
    <2>1. CASE ReadStuck
      BY <2>1 DEF ReadStuck, NoCtx, CommittingResidue
    <2>2. CASE RemoveResidue
      BY <2>2 DEF RemoveResidue, NoPath, Without
    <2>3. CASE ForgetResidue
      BY <2>3 DEF ForgetResidue, NoPath
    <2>4. CASE FailResidue
      BY <2>4 DEF FailResidue, Failed
    <2>5. CASE AggregateResidue
      BY <2>5 DEF AggregateResidue, Aggregate
    <2>6. CASE ReleaseResidue
      BY <2>6 DEF ReleaseResidue, ResidueCanRelease, FailedOwnerCanRelease,
        TerminalOwnerCanRelease, Released, NoPath
    <2>7. CASE ReadInterrupted
      BY <2>7 DEF ReadInterrupted, Without, NoPath
    <2>8. CASE RequeueUnowned
      BY <2>8 DEF RequeueUnowned, NoPath
    <2>9. CASE AggregateUnowned
      BY <2>9 DEF AggregateUnowned, Aggregate
    <2>10. CASE FailOwner
      BY <2>10 DEF FailOwner, Failed
    <2>11. CASE ReleaseOwner
      BY <2>11 DEF ReleaseOwner, Released, NoPath
    <2>12. CASE SettleOwner
      BY <2>12 DEF SettleOwner, Aggregate
    <2> QED
      BY <1>10, <2>1, <2>2, <2>3, <2>4, <2>5, <2>6, <2>7, <2>8, <2>9, <2>10, <2>11, <2>12
        DEF RecoverStuckFile
  <1>11. CASE RecoverJobs
    <2>1. ASSUME NEW j \in Attempts, RecoverInterruptedJob(j) PROVE FinalAt'
      BY <2>1 DEF RecoverInterruptedJob, CompletedBeforeCrash, Completed, Failed
    <2>2. CASE Ready
      BY <2>2 DEF Ready, NoCtx
    <2> QED
      BY <1>11, <2>1, <2>2 DEF RecoverJobs
  <1>12. CASE User
    <2>1. CASE StopOwned
      BY <2>1 DEF StopOwned
    <2>2. CASE StopQueued
      BY <2>2 DEF StopQueued
    <2>3. CASE StopJobs
      BY <2>3 DEF StopJobs, Active
    <2>4. CASE UserCreatesFinal
      BY <2>4 DEF UserCreatesFinal
    <2> QED
      BY <1>12, <2>1, <2>2, <2>3, <2>4 DEF User
  <1>13. ASSUME NEW j \in Attempts, Enqueue(j) PROVE FinalAt'
    BY <1>13 DEF Enqueue, Active
  <1>14. CASE Crash
    BY <1>14 DEF Crash, NoCtx
  <1>15. CASE UNCHANGED vars
    BY <1>15 DEF vars
  <1> QED
    BY <1>1, <1>2, <1>3, <1>4, <1>5, <1>6, <1>7, <1>8, <1>9, <1>10, <1>11, <1>12, <1>13,
      <1>14, <1>15 DEF Next, Finalize, Startup
-----------------------------------------------------------------------------
\* Every step leaves a scratch or a backup only where the document names it.
LEMMA LeftAtKept == ASSUME Kept, [Next]_vars PROVE LeftAt'
  <1> USE CommitAssumption, PathsApart DEF Kept, Decided, Safe, Typed, Placed, TypeOK,
    FileType, DiskType, CtxType, Results, Journals, NoJournal, NoResult, LeftAt,
    LeftoversNamed, KeptAt, RejectedAt, RunTimeAt, BootAt, CleanAt, KeepingAt, ForgotAt,
    RemovedAt, JournalAt, PreparedAt, PromotingAt, CommittedAt, Committed, NoJournalAt,
    OutcomeAt, UndecidedAt, UncommittedAt, DecidedAt, SourceAt, AdjacentAt, OverwriteAt,
    OriginalAt, ResultAt, RecordedAt, Detached, Journaling, Write, Settle, Call, TryUnlink,
    Branch, Claim, Steady, me, StopWon
  <1>0. /\ pc \in OwnJournalAt => file.journal.job = me
        /\ life = "down" => pc = "idle"
    BY DEF FinalAt, GateAt
  <1> USE <1>0 DEF OwnJournalAt
  <1>1. CASE Attempt
    <2>1. ASSUME NEW j \in Attempts, ClaimJob(j) PROVE LeftAt'
      BY <2>1 DEF ClaimJob, NoCtx
    <2>2. CASE PrepareCollision
      BY <2>2 DEF PrepareCollision, Preparable, Collision, WithResult
    <2>3. CASE FailCollided
      BY <2>3 DEF FailCollided, Failed
    <2>4. CASE RecountCollided
      BY <2>4 DEF RecountCollided, Aggregate
    <2>5. CASE PrepareClaim
      BY <2>5 DEF PrepareClaim, Preparable, Collision
    <2>6. CASE PrepareDefer
      BY <2>6 DEF PrepareDefer, Preparable
    <2>7. CASE RunnerWrites
      BY <2>7 DEF RunnerWrites
    <2>8. CASE ResultCancelled
      BY <2>8 DEF ResultCancelled
    <2>9. CASE ResultError
      BY <2>9 DEF ResultError
    <2>10. CASE ResultOk
      BY <2>10 DEF ResultOk
    <2> QED
      BY <1>1, <2>1, <2>2, <2>3, <2>4, <2>5, <2>6, <2>7, <2>8, <2>9, <2>10 DEF Attempt
  <1>2. CASE ToCommitPoint
    <2>1. CASE ClaimFinalizing
      BY <2>1 DEF ClaimFinalizing
    <2>2. CASE Validate
      BY <2>2 DEF Validate
    <2>3. CASE Filter
      BY <2>3 DEF Filter
    <2>4. CASE ClaimCommitting
      BY <2>4 DEF ClaimCommitting
    <2> QED
      BY <1>2, <2>1, <2>2, <2>3, <2>4 DEF ToCommitPoint
  <1>3. CASE FinishAdjacent
    <2>1. CASE Promote
      <3>1. CASE StopWon
        BY <2>1, <3>1 DEF Promote
      <3>2. CASE ~StopWon
        <4>1. pc = "promote" /\ life' = life
          BY <2>1 DEF Promote
        <4> QED
          BY <2>1, <3>2, <4>1, PromoteWrites
      <3> QED
        BY <3>1, <3>2
    <2>2. CASE LinkFinal
      BY <2>2 DEF LinkFinal
    <2>3. CASE ValidateFinal
      BY <2>3 DEF ValidateFinal
    <2>4. CASE JournalCommitted
      BY <2>4 DEF JournalCommitted
    <2>5. CASE PersistOutput
      BY <2>5 DEF PersistOutput, WithResult
    <2>6. CASE CompleteOutput
      BY <2>6 DEF CompleteOutput, Completed
    <2>7. CASE AggregateOutput
      BY <2>7 DEF AggregateOutput, Aggregate
    <2>8. CASE JournalCleaned
      BY <2>8 DEF JournalCleaned
    <2>9. CASE UnlinkScratch
      BY <2>9, UnlinkRemoves, PathKinds DEF UnlinkScratch
    <2>10. CASE UnjournalScratch
      BY <2>10 DEF UnjournalScratch
    <2>11. CASE ReleaseOutput
      <3>1. /\ UNCHANGED <<mode, life, disk, ctx, file.journal, file.result>>
            /\ pc = "releaseOutput" /\ mode = "adjacent"
            /\ pc' \in {"stuck", "idle", "bootError", "error"}
            /\ file'.path = file.path \/ (ctx.cleaned /\ file'.path = NoPath)
        BY <2>11, ReleasedFields DEF ReleaseOutput
      <3>2. /\ pc' = "error" => life = "up"
            /\ pc' \in {"stuck", "bootError"} => life = "boot"
        BY <2>11 DEF ReleaseOutput, GateAt
      <3> QED
        BY <3>1, <3>2
    <2> QED
      BY <1>3, <2>1, <2>2, <2>3, <2>4, <2>5, <2>6, <2>7, <2>8, <2>9, <2>10, <2>11 DEF
        FinishAdjacent
  <1>4. CASE FinishOverwrite
    <2>1. CASE Replace
      <3>1. CASE StopWon
        BY <2>1, <3>1 DEF Replace
      <3>2. CASE ~StopWon
        <4>1. pc = "replace" /\ life' = life
          BY <2>1 DEF Replace
        <4> QED
          BY <2>1, <3>2, <4>1, ReplaceWrites
      <3> QED
        BY <3>1, <3>2
    <2>2. CASE RenameToBackup
      <3>1. /\ pc = "renameToBackup" /\ UNCHANGED <<mode, life, file, ctx>> /\ pc' \in {"renameOutput", "error"}
            /\ disk'.scratch = disk.scratch /\ disk'.backup \subseteq disk.backup \union {me}
            /\ disk'.source = "none" \/ UNCHANGED disk
        BY <2>2 DEF RenameToBackup
      <3>2. mode = "overwrite" /\ file.journal.job = me /\ me \in Attempts /\ "none" \notin Attempts
        BY <2>2 DEF RenameToBackup
      <3> QED
        BY <3>1, <3>2
    <2>3. CASE RenameOutput
      <3>1. /\ pc = "renameOutput" /\ UNCHANGED <<mode, life, file, ctx>> /\ pc' \in {"statSource", "renameBack"}
            /\ disk'.backup = disk.backup
            /\ \/ UNCHANGED disk
               \/ disk'.source = me /\ disk'.scratch = disk.scratch \ {me}
        BY <2>3 DEF RenameOutput
      <3>2. mode = "overwrite" /\ file.journal.job = me /\ me \in Attempts
            /\ disk.scratch \subseteq {me}
        BY <2>3 DEF RenameOutput
      <3>3. "original" \notin Attempts
        OBVIOUS
      <3> QED
        BY <3>1, <3>2, <3>3
    <2>4. CASE RenameBack
      <3>1. /\ pc = "renameBack" /\ UNCHANGED <<mode, life, file, ctx>> /\ pc' = "error"
            /\ disk'.scratch = disk.scratch
            /\ UNCHANGED disk \/ (disk'.source = "original" /\ disk'.backup = disk.backup \ {me})
        BY <2>4 DEF RenameBack, Restored
      <3>2. mode = "overwrite" /\ file.journal.job = me /\ disk.backup \subseteq {me}
        BY <2>4 DEF RenameBack
      <3>3. "original" \notin Attempts
        OBVIOUS
      <3> QED
        BY <3>1, <3>2, <3>3
    <2>5. CASE StatSource
      BY <2>5 DEF StatSource
    <2>6. CASE MarkReplaced
      BY <2>6 DEF MarkReplaced
    <2>7. CASE UnlinkBackup
      BY <2>7, UnlinkRemoves, PathKinds DEF UnlinkBackup
    <2>8. CASE ReleaseReplaced
      BY <2>8 DEF ReleaseReplaced, TerminalOwnerCanRelease, Released
    <2>9. CASE EraseJournal
      BY <2>9 DEF EraseJournal
    <2> QED
      BY <1>4, <2>1, <2>2, <2>3, <2>4, <2>5, <2>6, <2>7, <2>8, <2>9 DEF FinishOverwrite
  <1>5. CASE FinishRejected
    <2>1. CASE ValidateRejected
      BY <2>1 DEF ValidateRejected
    <2>2. CASE DeleteRejected
      BY <2>2, UnlinkRemoves, PathKinds DEF DeleteRejected
    <2>3. CASE PersistRejected
      BY <2>3 DEF PersistRejected, WithResult
    <2>4. CASE CompleteRejected
      BY <2>4 DEF CompleteRejected, Completed
    <2>5. CASE AggregateRejected
      BY <2>5 DEF AggregateRejected, Aggregate
    <2>6. CASE UnjournalRejected
      BY <2>6 DEF UnjournalRejected
    <2>7. CASE ReleaseRejected
      BY <2>7 DEF ReleaseRejected, TerminalOwnerCanRelease, Released
    <2> QED
      BY <1>5, <2>1, <2>2, <2>3, <2>4, <2>5, <2>6, <2>7 DEF FinishRejected
  <1>6. CASE FinishStopped
    <2>1. CASE StopClean
      BY <2>1, UnlinkRemoves, PathKinds DEF StopClean
    <2>2. CASE StopWrite
      BY <2>2 DEF StopWrite
    <2>3. CASE StopComplete
      BY <2>3 DEF StopComplete, Completed
    <2>4. CASE StopRelease
      BY <2>4 DEF StopRelease, Released
    <2> QED
      BY <1>6, <2>1, <2>2, <2>3, <2>4 DEF FinishStopped
  <1>7. CASE FinishFailure
    <2>1. CASE FailClaim
      <3>1. /\ pc = "failClaim" /\ UNCHANGED <<mode, life, disk, ctx, file.journal, file.result, file.path>>
            /\ pc' \in {"failClean", "stopClean"}
        BY <2>1, FailClaimWrites
      <3> QED
        BY <3>1
    <2>2. CASE FailClean
      BY <2>2, UnlinkRemoves, PathKinds DEF FailClean
    <2>3. CASE FailPersist
      <3>1. /\ UNCHANGED <<mode, life, disk, ctx>> /\ pc = "failPersist" /\ pc' = "failJob"
            /\ file'.result = [status |-> "failed", path |-> NoPath]
            /\ ctx.cleaned \/ UNCHANGED <<file.journal, file.path>>
        BY <2>3 DEF FailPersist, WithResult
      <3>2. file.journal # NoJournal
        BY <3>1
      <3>3. CASE ctx.cleaned
        BY <3>1, <3>2, <3>3
      <3>4. CASE ~ctx.cleaned
        BY <3>1, <3>2, <3>4
      <3> QED
        BY <3>3, <3>4
    <2>4. CASE FailJob
      BY <2>4 DEF FailJob, Failed
    <2>5. CASE FailAggregate
      BY <2>5 DEF FailAggregate, Aggregate
    <2>6. CASE FailRelease
      BY <2>6 DEF FailRelease, FailedOwnerCanRelease, Released
    <2> QED
      BY <1>7, <2>1, <2>2, <2>3, <2>4, <2>5, <2>6 DEF FinishFailure
  <1>8. CASE RollBack
    <2>1. CASE HandleError
      BY <2>1 DEF HandleError
    <2>2. CASE UndoFinal
      BY <2>2 DEF UndoFinal, OwnFinal
    <2>3. CASE RestoreBackup
      <3>1. /\ UNCHANGED <<mode, life, file, ctx>> /\ pc' \in {"undoScratch", "undoFailed"}
            /\ disk'.scratch = disk.scratch
            /\ UNCHANGED disk \/ (disk'.source = "original" /\ disk'.backup = disk.backup \ {me})
        BY <2>3 DEF RestoreBackup, Restored
      <3>2. file.journal.job = me /\ me \in Attempts /\ disk.backup \subseteq {me}
        BY <2>3 DEF RestoreBackup
      <3>3. "original" \notin Attempts
        OBVIOUS
      <3> QED
        BY <3>1, <3>2, <3>3
    <2>4. CASE UndoScratch
      BY <2>4, UnlinkRemoves, PathKinds DEF UndoScratch, FailureFinalizing
    <2>5. CASE UndoFailed
      BY <2>5 DEF UndoFailed
    <2>6. CASE FailUndone
      BY <2>6 DEF FailUndone, Failed
    <2> QED
      BY <1>8, <2>1, <2>2, <2>3, <2>4, <2>5, <2>6 DEF RollBack
  <1>9. CASE RecoverJournal
    <2>1. CASE Boot
      BY <2>1 DEF Boot, NoCtx, CrashedTask, RolledForward, FailureFinalizing
    <2>2. CASE StatOutput
      BY <2>2 DEF StatOutput
    <2>3. CASE RecoverFailure
      BY <2>3 DEF RecoverFailure, WithResult
    <2>4. CASE FailInterrupted
      BY <2>4 DEF FailInterrupted, Failed
    <2>5. CASE UnjournalUndone
      BY <2>5 DEF UnjournalUndone
    <2>6. CASE ReleaseUndone
      BY <2>6 DEF ReleaseUndone, Released
    <2>7. CASE AggregateUndone
      BY <2>7 DEF AggregateUndone, Aggregate
    <2>8. CASE BootError
      BY <2>8 DEF BootError
    <2> QED
      BY <1>9, <2>1, <2>2, <2>3, <2>4, <2>5, <2>6, <2>7, <2>8 DEF RecoverJournal
  <1>10. CASE RecoverStuckFile
    <2>1. CASE ReadStuck
      BY <2>1 DEF ReadStuck, NoCtx, CommittingResidue
    <2>2. CASE RemoveResidue
      BY <2>2, UnlinkRemoves, PathKinds DEF RemoveResidue
    <2>3. CASE ForgetResidue
      BY <2>3 DEF ForgetResidue
    <2>4. CASE FailResidue
      BY <2>4 DEF FailResidue, Failed
    <2>5. CASE AggregateResidue
      BY <2>5 DEF AggregateResidue, Aggregate
    <2>6. CASE ReleaseResidue
      <3>1. /\ UNCHANGED <<mode, life, disk, ctx, file.journal, file.result>>
            /\ pc = "releaseResidue" /\ pc' \in {"jobs", "readInterrupted"}
        BY <2>6, ReleasedFields DEF ReleaseResidue
      <3>2. file'.path = NoPath /\ file.path = NoPath
        BY <2>6, ReleasedFields DEF ReleaseResidue
      <3> QED
        BY <3>1, <3>2
    <2>7. CASE ReadInterrupted
      BY <2>7, UnlinkRemoves, PathKinds DEF ReadInterrupted
    <2>8. CASE RequeueUnowned
      BY <2>8 DEF RequeueUnowned
    <2>9. CASE AggregateUnowned
      BY <2>9 DEF AggregateUnowned, Aggregate
    <2>10. CASE FailOwner
      BY <2>10 DEF FailOwner, Failed
    <2>11. CASE ReleaseOwner
      BY <2>11 DEF ReleaseOwner, Released
    <2>12. CASE SettleOwner
      BY <2>12 DEF SettleOwner, Aggregate
    <2> QED
      BY <1>10, <2>1, <2>2, <2>3, <2>4, <2>5, <2>6, <2>7, <2>8, <2>9, <2>10, <2>11, <2>12
        DEF RecoverStuckFile
  <1>11. CASE RecoverJobs
    <2>1. ASSUME NEW j \in Attempts, RecoverInterruptedJob(j) PROVE LeftAt'
      BY <2>1 DEF RecoverInterruptedJob, CompletedBeforeCrash, Completed, Failed
    <2>2. CASE Ready
      BY <2>2 DEF Ready, NoCtx
    <2> QED
      BY <1>11, <2>1, <2>2 DEF RecoverJobs
  <1>12. CASE User
    <2>1. CASE StopOwned
      BY <2>1 DEF StopOwned
    <2>2. CASE StopQueued
      BY <2>2 DEF StopQueued
    <2>3. CASE StopJobs
      BY <2>3 DEF StopJobs, Active
    <2>4. CASE UserCreatesFinal
      BY <2>4 DEF UserCreatesFinal
    <2> QED
      BY <1>12, <2>1, <2>2, <2>3, <2>4 DEF User
  <1>13. ASSUME NEW j \in Attempts, Enqueue(j) PROVE LeftAt'
    BY <1>13 DEF Enqueue, Active
  <1>14. CASE Crash
    BY <1>14 DEF Crash, NoCtx
  <1>15. CASE UNCHANGED vars
    BY <1>15 DEF vars
  <1> QED
    BY <1>1, <1>2, <1>3, <1>4, <1>5, <1>6, <1>7, <1>8, <1>9, <1>10, <1>11, <1>12, <1>13,
      <1>14, <1>15 DEF Next, Finalize, Startup
-----------------------------------------------------------------------------
\* Every step leaves a status that a recorded publication does not contradict.
LEMMA StatusAtKept == ASSUME Kept, [Next]_vars PROVE StatusAt'
  <1> USE CommitAssumption, PathsApart DEF Kept, Decided, Safe, Typed, Placed, TypeOK,
    FileType, DiskType, CtxType, Results, Journals, NoJournal, NoResult, StatusAt, Agreed,
    HalfDone, Unpublished, StuckAt, RequeuedAt, FailedAt, StoppedAt, PublishedAt, JournalAt,
    PreparedAt, PromotingAt, CommittedAt, Committed, NoJournalAt, OutcomeAt, UndecidedAt,
    UncommittedAt, DecidedAt, Admitted, SourceAt, AdjacentAt, OverwriteAt, OriginalAt,
    ResultAt, RecordedAt, ReplacedAt, Detached, Journaling, Write, Settle, Call, TryUnlink,
    Branch, Claim, Steady, me, StopWon
  <1>0. /\ pc \in OwnJournalAt => file.journal.job = me
        /\ pc \in KeepingAt => file.result.status = "rejected"
        /\ pc \in RunTimeAt => life = "up"
    BY DEF FinalAt, LeftAt
  <1> USE <1>0 DEF OwnJournalAt, KeepingAt, RunTimeAt
  <1>1. CASE Attempt
    <2>1. ASSUME NEW j \in Attempts, ClaimJob(j) PROVE StatusAt'
      BY <2>1 DEF ClaimJob, NoCtx
    <2>2. CASE PrepareCollision
      BY <2>2 DEF PrepareCollision, Preparable, Collision, WithResult
    <2>3. CASE FailCollided
      BY <2>3 DEF FailCollided, Failed
    <2>4. CASE RecountCollided
      BY <2>4 DEF RecountCollided, Aggregate
    <2>5. CASE PrepareClaim
      BY <2>5 DEF PrepareClaim, Preparable, Collision
    <2>6. CASE PrepareDefer
      BY <2>6 DEF PrepareDefer, Preparable
    <2>7. CASE RunnerWrites
      BY <2>7 DEF RunnerWrites
    <2>8. CASE ResultCancelled
      BY <2>8 DEF ResultCancelled
    <2>9. CASE ResultError
      BY <2>9 DEF ResultError
    <2>10. CASE ResultOk
      BY <2>10 DEF ResultOk
    <2> QED
      BY <1>1, <2>1, <2>2, <2>3, <2>4, <2>5, <2>6, <2>7, <2>8, <2>9, <2>10 DEF Attempt
  <1>2. CASE ToCommitPoint
    <2>1. CASE ClaimFinalizing
      BY <2>1 DEF ClaimFinalizing
    <2>2. CASE Validate
      BY <2>2 DEF Validate
    <2>3. CASE Filter
      BY <2>3 DEF Filter
    <2>4. CASE ClaimCommitting
      BY <2>4 DEF ClaimCommitting
    <2> QED
      BY <1>2, <2>1, <2>2, <2>3, <2>4 DEF ToCommitPoint
  <1>3. CASE FinishAdjacent
    <2>1. CASE Promote
      <3>1. CASE StopWon
        BY <2>1, <3>1 DEF Promote
      <3>2. CASE ~StopWon
        BY <2>1, <3>2, CommitClaimWrites
      <3> QED
        BY <3>1, <3>2
    <2>2. CASE LinkFinal
      BY <2>2 DEF LinkFinal
    <2>3. CASE ValidateFinal
      BY <2>3 DEF ValidateFinal
    <2>4. CASE JournalCommitted
      BY <2>4 DEF JournalCommitted
    <2>5. CASE PersistOutput
      BY <2>5 DEF PersistOutput, WithResult
    <2>6. CASE CompleteOutput
      BY <2>6 DEF CompleteOutput, Completed
    <2>7. CASE AggregateOutput
      <3>1. /\ UNCHANGED <<mode, life, disk, ctx, job>>
            /\ pc = "aggregate" /\ pc' = "journalCleaned" /\ mode = "adjacent"
            /\ file' = [file EXCEPT !.status = Aggregate(me)]
        BY <2>7 DEF AggregateOutput
      <3>2. /\ file.status # "stopped" /\ file.owner \in {NoJob, me}
            /\ file.result.status \in {"done", "rejected"}
        BY <3>1 DEF OwnerAt
      <3>3. \A k \in Attempts : Active(k) => k = me
        BY <3>1 DEF OneActive
      <3>4. Aggregate(me) = IF file.result.status = "done" THEN "transcoded" ELSE "rejected"
        BY <3>2, <3>3, AggregateSays
      <3> QED
        BY <3>1, <3>2, <3>4
    <2>8. CASE JournalCleaned
      BY <2>8 DEF JournalCleaned
    <2>9. CASE UnlinkScratch
      BY <2>9, UnlinkRemoves, PathKinds DEF UnlinkScratch
    <2>10. CASE UnjournalScratch
      BY <2>10 DEF UnjournalScratch
    <2>11. CASE ReleaseOutput
      <3>1. pc = "releaseOutput" /\ mode = "adjacent" /\ UNCHANGED <<mode, life, disk, ctx, job>>
        BY <2>11 DEF ReleaseOutput
      <3>2. CASE TerminalOwnerCanRelease(me) /\ file' = Released(file, ~ctx.cleaned)
        <4>1. pc' \in {"stuck", "idle"}
          BY <2>11, <3>1, <3>2 DEF ReleaseOutput
        <4> QED
          BY <3>1, <3>2, <4>1, ReleasedFields DEF TerminalOwnerCanRelease
      <3>3. CASE file' = file /\ pc' = "stuck"
        BY <3>1, <3>3
      <3>4. CASE file' = file /\ file.owner = me /\ ~TerminalOwnerCanRelease(me)
        <4>1. pc' \in {"bootError", "error"}
          BY <2>11, <3>1, <3>4 DEF ReleaseOutput
        <4>2. me \in Attempts /\ me # NoJob
          BY <3>1
        <4>3. /\ file.phase = "committing" /\ file.status \notin {"processing", "stopped"}
              /\ file.result.status # "none" /\ file.journal.phase \in {"none", "cleaned"}
              /\ job[me] \notin {"none", "pending", "running"}
              /\ file.result.path = FinalPath
          BY <3>1, <3>4, <4>2 DEF OwnerAt, SettledAt, LeftAt, FinalAt
        <4>4. job[me] = "failed"
          BY <3>4, <4>2, <4>3 DEF TerminalOwnerCanRelease, JobType
        <4> QED
          BY <3>1, <3>4, <4>1, <4>2, <4>3, <4>4
      <3> QED
        BY <2>11, <3>2, <3>3, <3>4 DEF ReleaseOutput
    <2> QED
      BY <1>3, <2>1, <2>2, <2>3, <2>4, <2>5, <2>6, <2>7, <2>8, <2>9, <2>10, <2>11 DEF
        FinishAdjacent
  <1>4. CASE FinishOverwrite
    <2>1. CASE Replace
      <3>1. CASE StopWon
        BY <2>1, <3>1 DEF Replace
      <3>2. CASE ~StopWon
        BY <2>1, <3>2, CommitClaimWrites
      <3> QED
        BY <3>1, <3>2
    <2>2. CASE RenameToBackup
      BY <2>2 DEF RenameToBackup
    <2>3. CASE RenameOutput
      BY <2>3 DEF RenameOutput
    <2>4. CASE RenameBack
      BY <2>4 DEF RenameBack, Restored
    <2>5. CASE StatSource
      BY <2>5 DEF StatSource
    <2>6. CASE MarkReplaced
      BY <2>6 DEF MarkReplaced
    <2>7. CASE UnlinkBackup
      BY <2>7, UnlinkRemoves, PathKinds DEF UnlinkBackup
    <2>8. CASE ReleaseReplaced
      BY <2>8 DEF ReleaseReplaced, TerminalOwnerCanRelease, Released
    <2>9. CASE EraseJournal
      BY <2>9 DEF EraseJournal
    <2> QED
      BY <1>4, <2>1, <2>2, <2>3, <2>4, <2>5, <2>6, <2>7, <2>8, <2>9 DEF FinishOverwrite
  <1>5. CASE FinishRejected
    <2>1. CASE ValidateRejected
      BY <2>1 DEF ValidateRejected
    <2>2. CASE DeleteRejected
      BY <2>2, UnlinkRemoves, PathKinds DEF DeleteRejected
    <2>3. CASE PersistRejected
      BY <2>3 DEF PersistRejected, WithResult
    <2>4. CASE CompleteRejected
      BY <2>4 DEF CompleteRejected, Completed
    <2>5. CASE AggregateRejected
      <3>1. /\ UNCHANGED <<mode, life, disk, ctx, job>>
            /\ pc = "aggregateRejected" /\ pc' = "unjournalRejected"
            /\ file' = [file EXCEPT !.status = Aggregate(me)]
        BY <2>5 DEF AggregateRejected
      <3>2. file.owner \in {NoJob, me} /\ Aggregate(me) \in Statuses
        BY <3>1, AggregateTypes DEF OwnerAt
      <3> QED
        BY <3>1, <3>2, AggregateSays DEF Statuses
    <2>6. CASE UnjournalRejected
      BY <2>6 DEF UnjournalRejected
    <2>7. CASE ReleaseRejected
      BY <2>7 DEF ReleaseRejected, TerminalOwnerCanRelease, Released
    <2> QED
      BY <1>5, <2>1, <2>2, <2>3, <2>4, <2>5, <2>6, <2>7 DEF FinishRejected
  <1>6. CASE FinishStopped
    <2>1. CASE StopClean
      BY <2>1, UnlinkRemoves, PathKinds DEF StopClean
    <2>2. CASE StopWrite
      BY <2>2 DEF StopWrite
    <2>3. CASE StopComplete
      BY <2>3 DEF StopComplete, Completed
    <2>4. CASE StopRelease
      BY <2>4 DEF StopRelease, Released
    <2> QED
      BY <1>6, <2>1, <2>2, <2>3, <2>4 DEF FinishStopped
  <1>7. CASE FinishFailure
    <2>1. CASE FailClaim
      BY <2>1 DEF FailClaim
    <2>2. CASE FailClean
      BY <2>2, UnlinkRemoves, PathKinds DEF FailClean
    <2>3. CASE FailPersist
      BY <2>3 DEF FailPersist, WithResult
    <2>4. CASE FailJob
      BY <2>4 DEF FailJob, Failed
    <2>5. CASE FailAggregate
      BY <2>5 DEF FailAggregate, Aggregate
    <2>6. CASE FailRelease
      BY <2>6 DEF FailRelease, FailedOwnerCanRelease, Released
    <2> QED
      BY <1>7, <2>1, <2>2, <2>3, <2>4, <2>5, <2>6 DEF FinishFailure
  <1>8. CASE RollBack
    <2>1. CASE HandleError
      BY <2>1 DEF HandleError
    <2>2. CASE UndoFinal
      BY <2>2 DEF UndoFinal, OwnFinal
    <2>3. CASE RestoreBackup
      BY <2>3 DEF RestoreBackup, Restored
    <2>4. CASE UndoScratch
      BY <2>4, UnlinkRemoves, PathKinds DEF UndoScratch, FailureFinalizing
    <2>5. CASE UndoFailed
      BY <2>5 DEF UndoFailed
    <2>6. CASE FailUndone
      BY <2>6 DEF FailUndone, Failed
    <2> QED
      BY <1>8, <2>1, <2>2, <2>3, <2>4, <2>5, <2>6 DEF RollBack
  <1>9. CASE RecoverJournal
    <2>1. CASE Boot
      BY <2>1 DEF Boot, NoCtx, CrashedTask, RolledForward, FailureFinalizing
    <2>2. CASE StatOutput
      BY <2>2 DEF StatOutput
    <2>3. CASE RecoverFailure
      BY <2>3 DEF RecoverFailure, WithResult
    <2>4. CASE FailInterrupted
      BY <2>4 DEF FailInterrupted, Failed
    <2>5. CASE UnjournalUndone
      BY <2>5 DEF UnjournalUndone
    <2>6. CASE ReleaseUndone
      BY <2>6 DEF ReleaseUndone, Released
    <2>7. CASE AggregateUndone
      BY <2>7 DEF AggregateUndone, Aggregate
    <2>8. CASE BootError
      BY <2>8 DEF BootError
    <2> QED
      BY <1>9, <2>1, <2>2, <2>3, <2>4, <2>5, <2>6, <2>7, <2>8 DEF RecoverJournal
  <1>10. CASE RecoverStuckFile
    <2>1. CASE ReadStuck
      BY <2>1 DEF ReadStuck, NoCtx, CommittingResidue
    <2>2. CASE RemoveResidue
      BY <2>2, UnlinkRemoves, PathKinds DEF RemoveResidue
    <2>3. CASE ForgetResidue
      BY <2>3 DEF ForgetResidue
    <2>4. CASE FailResidue
      BY <2>4 DEF FailResidue, Failed
    <2>5. CASE AggregateResidue
      <3>1. /\ UNCHANGED <<mode, life, disk, ctx, job>>
            /\ pc = "aggregateResidue" /\ pc' = "releaseResidue"
            /\ file' = [file EXCEPT !.status = Aggregate(me)]
        BY <2>5 DEF AggregateResidue
      <3>2. file.result.status = "failed" /\ Aggregate(me) \in Statuses
        BY <3>1, AggregateTypes DEF ResidueAt, Failing
      <3> QED
        BY <3>1, <3>2, AggregateSays DEF Statuses
    <2>6. CASE ReleaseResidue
      <3>1. /\ pc = "releaseResidue" /\ pc' \in {"jobs", "readInterrupted"}
            /\ UNCHANGED <<mode, life, disk, ctx, job>>
        BY <2>6 DEF ReleaseResidue
      <3>2. CASE ResidueCanRelease /\ file' = Released(file, FALSE)
        BY <3>1, <3>2, ReleasedFields
          DEF ResidueCanRelease, FailedOwnerCanRelease, TerminalOwnerCanRelease
      <3>3. CASE file' = file
        BY <3>1, <3>3
      <3> QED
        BY <2>6, <3>2, <3>3 DEF ReleaseResidue
    <2>7. CASE ReadInterrupted
      BY <2>7, UnlinkRemoves, PathKinds DEF ReadInterrupted
    <2>8. CASE RequeueUnowned
      BY <2>8 DEF RequeueUnowned
    <2>9. CASE AggregateUnowned
      BY <2>9 DEF AggregateUnowned, Aggregate
    <2>10. CASE FailOwner
      BY <2>10 DEF FailOwner, Failed
    <2>11. CASE ReleaseOwner
      BY <2>11 DEF ReleaseOwner, Released
    <2>12. CASE SettleOwner
      <3>1. /\ UNCHANGED <<mode, life, disk, ctx, job>> /\ pc = "settleOwner" /\ pc' = "jobs"
            /\ \/ file' = [file EXCEPT !.status = "stopped", !.cancelled = FALSE]
               \/ file' = [file EXCEPT !.status = Aggregate(NoJob)]
        BY <2>12 DEF SettleOwner
      <3>2. Aggregate(NoJob) \in Statuses
        BY AggregateTypes
      <3>3. Unpublished /\ file.journal = NoJournal /\ file.phase = "none" /\ Agreed
        BY <3>1 DEF OwnerAt, FreeAt
      <3>4. CASE file' = [file EXCEPT !.status = "stopped", !.cancelled = FALSE]
        BY <3>1, <3>3, <3>4
      <3>5. CASE file' = [file EXCEPT !.status = Aggregate(NoJob)]
        BY <3>1, <3>2, <3>3, <3>5, AggregateSays DEF Statuses
      <3> QED
        BY <3>1, <3>4, <3>5
    <2> QED
      BY <1>10, <2>1, <2>2, <2>3, <2>4, <2>5, <2>6, <2>7, <2>8, <2>9, <2>10, <2>11, <2>12
        DEF RecoverStuckFile
  <1>11. CASE RecoverJobs
    <2>1. ASSUME NEW j \in Attempts, RecoverInterruptedJob(j) PROVE StatusAt'
      BY <2>1 DEF RecoverInterruptedJob, CompletedBeforeCrash, Completed, Failed
    <2>2. CASE Ready
      BY <2>2 DEF Ready, NoCtx
    <2> QED
      BY <1>11, <2>1, <2>2 DEF RecoverJobs
  <1>12. CASE User
    <2>1. CASE StopOwned
      BY <2>1 DEF StopOwned
    <2>2. CASE StopQueued
      BY <2>2 DEF StopQueued, OwnerAt
    <2>3. CASE StopJobs
      BY <2>3 DEF StopJobs, Active, JobType, Holders
    <2>4. CASE UserCreatesFinal
      BY <2>4 DEF UserCreatesFinal
    <2> QED
      BY <1>12, <2>1, <2>2, <2>3, <2>4 DEF User
  <1>13. ASSUME NEW j \in Attempts, Enqueue(j) PROVE StatusAt'
    BY <1>13 DEF Enqueue, Active
  <1>14. CASE Crash
    BY <1>14 DEF Crash, NoCtx
  <1>15. CASE UNCHANGED vars
    BY <1>15 DEF vars
  <1> QED
    BY <1>1, <1>2, <1>3, <1>4, <1>5, <1>6, <1>7, <1>8, <1>9, <1>10, <1>11, <1>12, <1>13,
      <1>14, <1>15 DEF Next, Finalize, Startup
-----------------------------------------------------------------------------
\* Every step leaves the owner, the journal and the job of an attempt in accord.
LEMMA OwnerAtKept == ASSUME Kept, [Next]_vars PROVE OwnerAt'
  <1> USE CommitAssumption DEF Kept, Decided, Safe, Typed, Placed, TypeOK, FileType,
    DiskType, CtxType, Results, Journals, NoJournal, Holders, JobType, OwnerAt, RunningAt,
    SettledAt, FreeAt, FailingAt, UndoingAt, OwnedAt, RejectingAt, StuckAt, JournalAt,
    PreparedAt, PromotingAt, CommittedAt, Committed, NoJournalAt, OneActive, Active, ResultAt,
    RecordedAt, Detached, Journaling, Write, Settle, Call, TryUnlink, Branch, Claim, Steady,
    me, StopWon
  <1>0. /\ pc \in OwnJournalAt => file.journal.job = me
        /\ pc \in RunTimeAt => life = "up"
        /\ pc \in BootAt => life = "boot"
        /\ life = "down" => pc = "idle"
        /\ file.failing => ~Committed(file.journal)
        /\ pc \in StoppedAt => file.phase # "committing"
        /\ Committed(file.journal) \/ pc \in PublishedAt =>
              ~StopWon /\ (file.owner = NoJob \/ file.phase = "committing")
        /\ file.phase = "committing" => ~StopWon
        /\ pc \in PromotingAt => file.phase = "committing"
    BY DEF FinalAt, LeftAt, StatusAt, GateAt, OutcomeAt
  <1> USE <1>0 DEF OwnJournalAt, RunTimeAt, BootAt, StoppedAt, PublishedAt
  <1>1. CASE Attempt
    <2>1. ASSUME NEW j \in Attempts, ClaimJob(j) PROVE OwnerAt'
      BY <2>1 DEF ClaimJob, NoCtx
    <2>2. CASE PrepareCollision
      BY <2>2 DEF PrepareCollision, Preparable, Collision, WithResult
    <2>3. CASE FailCollided
      BY <2>3 DEF FailCollided, Failed
    <2>4. CASE RecountCollided
      BY <2>4 DEF RecountCollided, Aggregate
    <2>5. CASE PrepareClaim
      BY <2>5 DEF PrepareClaim, Preparable, Collision
    <2>6. CASE PrepareDefer
      BY <2>6 DEF PrepareDefer, Preparable
    <2>7. CASE RunnerWrites
      BY <2>7 DEF RunnerWrites
    <2>8. CASE ResultCancelled
      BY <2>8 DEF ResultCancelled
    <2>9. CASE ResultError
      BY <2>9 DEF ResultError
    <2>10. CASE ResultOk
      BY <2>10 DEF ResultOk
    <2> QED
      BY <1>1, <2>1, <2>2, <2>3, <2>4, <2>5, <2>6, <2>7, <2>8, <2>9, <2>10 DEF Attempt
  <1>2. CASE ToCommitPoint
    <2>1. CASE ClaimFinalizing
      BY <2>1 DEF ClaimFinalizing
    <2>2. CASE Validate
      BY <2>2 DEF Validate
    <2>3. CASE Filter
      BY <2>3 DEF Filter
    <2>4. CASE ClaimCommitting
      BY <2>4 DEF ClaimCommitting
    <2> QED
      BY <1>2, <2>1, <2>2, <2>3, <2>4 DEF ToCommitPoint
  <1>3. CASE FinishAdjacent
    <2>1. CASE Promote
      <3>1. CASE StopWon
        BY <2>1, <3>1 DEF Promote
      <3>2. CASE ~StopWon
        BY <2>1, <3>2, CommitClaimWrites
      <3> QED
        BY <3>1, <3>2
    <2>2. CASE LinkFinal
      BY <2>2 DEF LinkFinal
    <2>3. CASE ValidateFinal
      BY <2>3 DEF ValidateFinal
    <2>4. CASE JournalCommitted
      BY <2>4 DEF JournalCommitted
    <2>5. CASE PersistOutput
      BY <2>5 DEF PersistOutput, WithResult
    <2>6. CASE CompleteOutput
      BY <2>6 DEF CompleteOutput, Completed
    <2>7. CASE AggregateOutput
      BY <2>7 DEF AggregateOutput, Aggregate
    <2>8. CASE JournalCleaned
      BY <2>8 DEF JournalCleaned
    <2>9. CASE UnlinkScratch
      BY <2>9 DEF UnlinkScratch
    <2>10. CASE UnjournalScratch
      BY <2>10 DEF UnjournalScratch
    <2>11. CASE ReleaseOutput
      <3>1. pc = "releaseOutput" /\ mode = "adjacent" /\ UNCHANGED <<mode, life, disk, ctx, job>>
        BY <2>11 DEF ReleaseOutput, SourceAt, AdjacentAt
      <3>2. CASE TerminalOwnerCanRelease(me) /\ file' = Released(file, ~ctx.cleaned)
        <4>1. pc' \in {"stuck", "idle"}
          BY <2>11, <3>1, <3>2 DEF ReleaseOutput
        <4> QED
          BY <3>1, <3>2, <4>1, ReleasedFields DEF TerminalOwnerCanRelease
      <3>3. CASE file' = file /\ pc' = "stuck"
        BY <3>1, <3>3
      <3>4. CASE file' = file /\ file.owner = me /\ ~TerminalOwnerCanRelease(me)
        <4>1. pc' \in {"bootError", "error"} /\ (pc' = "error" => life = "up")
          BY <2>11, <3>1, <3>4 DEF ReleaseOutput
        <4>2. life # "up"
          BY <3>1, <3>4 DEF TerminalOwnerCanRelease, GateAt, JobType
        <4> QED
          BY <3>1, <3>4, <4>1, <4>2
      <3> QED
        BY <2>11, <3>2, <3>3, <3>4 DEF ReleaseOutput
    <2> QED
      BY <1>3, <2>1, <2>2, <2>3, <2>4, <2>5, <2>6, <2>7, <2>8, <2>9, <2>10, <2>11 DEF
        FinishAdjacent
  <1>4. CASE FinishOverwrite
    <2>1. CASE Replace
      <3>1. CASE StopWon
        BY <2>1, <3>1 DEF Replace
      <3>2. CASE ~StopWon
        BY <2>1, <3>2, CommitClaimWrites
      <3> QED
        BY <3>1, <3>2
    <2>2. CASE RenameToBackup
      BY <2>2 DEF RenameToBackup
    <2>3. CASE RenameOutput
      BY <2>3 DEF RenameOutput
    <2>4. CASE RenameBack
      BY <2>4 DEF RenameBack, Restored
    <2>5. CASE StatSource
      BY <2>5 DEF StatSource
    <2>6. CASE MarkReplaced
      BY <2>6 DEF MarkReplaced
    <2>7. CASE UnlinkBackup
      BY <2>7 DEF UnlinkBackup
    <2>8. CASE ReleaseReplaced
      BY <2>8 DEF ReleaseReplaced, TerminalOwnerCanRelease, Released
    <2>9. CASE EraseJournal
      BY <2>9 DEF EraseJournal
    <2> QED
      BY <1>4, <2>1, <2>2, <2>3, <2>4, <2>5, <2>6, <2>7, <2>8, <2>9 DEF FinishOverwrite
  <1>5. CASE FinishRejected
    <2>1. CASE ValidateRejected
      BY <2>1 DEF ValidateRejected
    <2>2. CASE DeleteRejected
      BY <2>2 DEF DeleteRejected
    <2>3. CASE PersistRejected
      BY <2>3 DEF PersistRejected, WithResult
    <2>4. CASE CompleteRejected
      BY <2>4 DEF CompleteRejected, Completed
    <2>5. CASE AggregateRejected
      BY <2>5 DEF AggregateRejected, Aggregate
    <2>6. CASE UnjournalRejected
      BY <2>6 DEF UnjournalRejected
    <2>7. CASE ReleaseRejected
      BY <2>7 DEF ReleaseRejected, TerminalOwnerCanRelease, Released
    <2> QED
      BY <1>5, <2>1, <2>2, <2>3, <2>4, <2>5, <2>6, <2>7 DEF FinishRejected
  <1>6. CASE FinishStopped
    <2>1. CASE StopClean
      BY <2>1 DEF StopClean
    <2>2. CASE StopWrite
      BY <2>2 DEF StopWrite
    <2>3. CASE StopComplete
      BY <2>3 DEF StopComplete, Completed
    <2>4. CASE StopRelease
      BY <2>4 DEF StopRelease, Released
    <2> QED
      BY <1>6, <2>1, <2>2, <2>3, <2>4 DEF FinishStopped
  <1>7. CASE FinishFailure
    <2>1. CASE FailClaim
      BY <2>1, FailClaimWrites
    <2>2. CASE FailClean
      BY <2>2 DEF FailClean
    <2>3. CASE FailPersist
      BY <2>3 DEF FailPersist, WithResult
    <2>4. CASE FailJob
      BY <2>4 DEF FailJob, Failed
    <2>5. CASE FailAggregate
      BY <2>5 DEF FailAggregate, Aggregate
    <2>6. CASE FailRelease
      BY <2>6 DEF FailRelease, FailedOwnerCanRelease, Released
    <2> QED
      BY <1>7, <2>1, <2>2, <2>3, <2>4, <2>5, <2>6 DEF FinishFailure
  <1>8. CASE RollBack
    <2>1. CASE HandleError
      BY <2>1 DEF HandleError
    <2>2. CASE UndoFinal
      BY <2>2 DEF UndoFinal, OwnFinal
    <2>3. CASE RestoreBackup
      BY <2>3 DEF RestoreBackup, Restored
    <2>4. CASE UndoScratch
      BY <2>4 DEF UndoScratch, FailureFinalizing
    <2>5. CASE UndoFailed
      BY <2>5 DEF UndoFailed
    <2>6. CASE FailUndone
      BY <2>6 DEF FailUndone, Failed
    <2> QED
      BY <1>8, <2>1, <2>2, <2>3, <2>4, <2>5, <2>6 DEF RollBack
  <1>9. CASE RecoverJournal
    <2>1. CASE Boot
      BY <2>1 DEF Boot, NoCtx, CrashedTask, RolledForward, FailureFinalizing
    <2>2. CASE StatOutput
      BY <2>2 DEF StatOutput
    <2>3. CASE RecoverFailure
      BY <2>3 DEF RecoverFailure, WithResult
    <2>4. CASE FailInterrupted
      BY <2>4 DEF FailInterrupted, Failed
    <2>5. CASE UnjournalUndone
      BY <2>5 DEF UnjournalUndone
    <2>6. CASE ReleaseUndone
      BY <2>6 DEF ReleaseUndone, Released
    <2>7. CASE AggregateUndone
      BY <2>7 DEF AggregateUndone, Aggregate
    <2>8. CASE BootError
      BY <2>8 DEF BootError
    <2> QED
      BY <1>9, <2>1, <2>2, <2>3, <2>4, <2>5, <2>6, <2>7, <2>8 DEF RecoverJournal
  <1>10. CASE RecoverStuckFile
    <2>1. CASE ReadStuck
      BY <2>1 DEF ReadStuck, NoCtx, CommittingResidue
    <2>2. CASE RemoveResidue
      BY <2>2 DEF RemoveResidue
    <2>3. CASE ForgetResidue
      BY <2>3 DEF ForgetResidue
    <2>4. CASE FailResidue
      BY <2>4 DEF FailResidue, Failed
    <2>5. CASE AggregateResidue
      BY <2>5 DEF AggregateResidue, Aggregate
    <2>6. CASE ReleaseResidue
      BY <2>6 DEF ReleaseResidue, ResidueCanRelease, FailedOwnerCanRelease,
        TerminalOwnerCanRelease, Released
    <2>7. CASE ReadInterrupted
      BY <2>7 DEF ReadInterrupted
    <2>8. CASE RequeueUnowned
      BY <2>8 DEF RequeueUnowned
    <2>9. CASE AggregateUnowned
      BY <2>9 DEF AggregateUnowned, Aggregate
    <2>10. CASE FailOwner
      BY <2>10 DEF FailOwner, Failed
    <2>11. CASE ReleaseOwner
      BY <2>11 DEF ReleaseOwner, Released
    <2>12. CASE SettleOwner
      BY <2>12 DEF SettleOwner, Aggregate
    <2> QED
      BY <1>10, <2>1, <2>2, <2>3, <2>4, <2>5, <2>6, <2>7, <2>8, <2>9, <2>10, <2>11, <2>12
        DEF RecoverStuckFile
  <1>11. CASE RecoverJobs
    <2>1. ASSUME NEW j \in Attempts, RecoverInterruptedJob(j) PROVE OwnerAt'
      BY <2>1 DEF RecoverInterruptedJob, CompletedBeforeCrash, Completed, Failed
    <2>2. CASE Ready
      BY <2>2 DEF Ready, NoCtx
    <2> QED
      BY <1>11, <2>1, <2>2 DEF RecoverJobs
  <1>12. CASE User
    <2>1. CASE StopOwned
      BY <2>1 DEF StopOwned
    <2>2. CASE StopQueued
      BY <2>2 DEF StopQueued
    <2>3. CASE StopJobs
      BY <2>3 DEF StopJobs, Active
    <2>4. CASE UserCreatesFinal
      BY <2>4 DEF UserCreatesFinal
    <2> QED
      BY <1>12, <2>1, <2>2, <2>3, <2>4 DEF User
  <1>13. ASSUME NEW j \in Attempts, Enqueue(j) PROVE OwnerAt'
    BY <1>13 DEF Enqueue, Active
  <1>14. CASE Crash
    BY <1>14 DEF Crash, NoCtx
  <1>15. CASE UNCHANGED vars
    BY <1>15 DEF vars
  <1> QED
    BY <1>1, <1>2, <1>3, <1>4, <1>5, <1>6, <1>7, <1>8, <1>9, <1>10, <1>11, <1>12, <1>13,
      <1>14, <1>15 DEF Next, Finalize, Startup
-----------------------------------------------------------------------------
\* Every step leaves an owner without a journal to what becomes of one, and no job
\* running that nobody works on.
LEMMA ResidueAtKept == ASSUME Kept, [Next]_vars PROVE ResidueAt'
  <1> USE CommitAssumption, PathsApart DEF Kept, Decided, Safe, Typed, Placed, TypeOK,
    FileType, DiskType, CtxType, Results, Journals, NoJournal, Holders, JobType, ResidueAt,
    Failing, Finished, Lost, Stranded, KeptForStartup, OwnerAt, RunningAt, SettledAt, FreeAt,
    FailingAt, UndoingAt, OwnedAt, RejectingAt, StuckAt, JournalAt, PreparedAt, PromotingAt,
    CommittedAt, Committed, NoJournalAt, OneActive, Active, ResultAt, RecordedAt, Detached,
    Journaling, Write, Settle, Call, TryUnlink, Branch, Claim, Steady, me, StopWon
  <1>0. /\ pc \in OwnJournalAt => file.journal.job = me
        /\ pc \in RunTimeAt => life = "up"
        /\ pc \in BootAt => life = "boot"
        /\ life = "down" => pc = "idle"
        /\ file.failing => ~Committed(file.journal)
        /\ pc \in StoppedAt => file.phase # "committing"
        /\ pc \in FailedAt => file.result.status = "failed"
        /\ file.status = "queued" => file.journal = NoJournal
        /\ file.result.status = "none" /\ file.journal = NoJournal => file.path = NoPath
        /\ pc \in ForgotAt => file.path = NoPath
        /\ file.phase = "committing" => ~StopWon
        /\ pc \in PromotingAt => file.phase = "committing"
    BY DEF FinalAt, LeftAt, StatusAt, GateAt, OutcomeAt, JournalAt
  <1> USE <1>0 DEF OwnJournalAt, RunTimeAt, BootAt, StoppedAt, FailedAt, ForgotAt, PublishedAt
  <1>1. CASE Attempt
    <2>1. ASSUME NEW j \in Attempts, ClaimJob(j) PROVE ResidueAt'
      BY <2>1 DEF ClaimJob, NoCtx
    <2>2. CASE PrepareCollision
      BY <2>2 DEF PrepareCollision, Preparable, Collision, WithResult
    <2>3. CASE FailCollided
      BY <2>3 DEF FailCollided, Failed
    <2>4. CASE RecountCollided
      BY <2>4 DEF RecountCollided, Aggregate
    <2>5. CASE PrepareClaim
      BY <2>5 DEF PrepareClaim, Preparable, Collision
    <2>6. CASE PrepareDefer
      BY <2>6 DEF PrepareDefer, Preparable
    <2>7. CASE RunnerWrites
      BY <2>7 DEF RunnerWrites
    <2>8. CASE ResultCancelled
      BY <2>8 DEF ResultCancelled
    <2>9. CASE ResultError
      BY <2>9 DEF ResultError
    <2>10. CASE ResultOk
      BY <2>10 DEF ResultOk
    <2> QED
      BY <1>1, <2>1, <2>2, <2>3, <2>4, <2>5, <2>6, <2>7, <2>8, <2>9, <2>10 DEF Attempt
  <1>2. CASE ToCommitPoint
    <2>1. CASE ClaimFinalizing
      BY <2>1 DEF ClaimFinalizing
    <2>2. CASE Validate
      BY <2>2 DEF Validate
    <2>3. CASE Filter
      BY <2>3 DEF Filter
    <2>4. CASE ClaimCommitting
      BY <2>4 DEF ClaimCommitting
    <2> QED
      BY <1>2, <2>1, <2>2, <2>3, <2>4 DEF ToCommitPoint
  <1>3. CASE FinishAdjacent
    <2>1. CASE Promote
      <3>1. CASE StopWon
        BY <2>1, <3>1 DEF Promote
      <3>2. CASE ~StopWon
        BY <2>1, <3>2, CommitClaimWrites
      <3> QED
        BY <3>1, <3>2
    <2>2. CASE LinkFinal
      BY <2>2 DEF LinkFinal
    <2>3. CASE ValidateFinal
      BY <2>3 DEF ValidateFinal
    <2>4. CASE JournalCommitted
      BY <2>4 DEF JournalCommitted
    <2>5. CASE PersistOutput
      BY <2>5 DEF PersistOutput, WithResult
    <2>6. CASE CompleteOutput
      BY <2>6 DEF CompleteOutput, Completed
    <2>7. CASE AggregateOutput
      BY <2>7 DEF AggregateOutput, Aggregate
    <2>8. CASE JournalCleaned
      BY <2>8 DEF JournalCleaned
    <2>9. CASE UnlinkScratch
      BY <2>9 DEF UnlinkScratch
    <2>10. CASE UnjournalScratch
      <3>1. /\ pc = "unjournalScratch" /\ pc' = "releaseOutput" /\ mode = "adjacent"
            /\ UNCHANGED <<mode, life, disk, ctx, job>>
            /\ file'.owner = file.owner /\ file'.phase = file.phase /\ file'.failing = file.failing
            /\ file'.status = file.status /\ file'.result = file.result
        BY <2>10 DEF UnjournalScratch, SourceAt, AdjacentAt
      <3>2. /\ ~file.failing /\ file.status \notin {"queued", "processing"}
            /\ file.result.path = FinalPath /\ file.result.status # "none"
            /\ file.owner # NoJob => file.owner = me /\ file.phase = "committing"
            /\ job[me] \in {"done", "failed"}
        BY <3>1 DEF StatusAt, FinalAt, LeftAt, DecidedAt
      <3> QED
        BY <3>1, <3>2
    <2>11. CASE ReleaseOutput
      <3>1. pc = "releaseOutput" /\ mode = "adjacent" /\ UNCHANGED <<mode, life, disk, ctx, job>>
        BY <2>11 DEF ReleaseOutput, SourceAt, AdjacentAt
      <3>2. CASE TerminalOwnerCanRelease(me) /\ file' = Released(file, ~ctx.cleaned)
        <4>1. pc' \in {"stuck", "idle"}
          BY <2>11, <3>1, <3>2 DEF ReleaseOutput
        <4> QED
          BY <3>1, <3>2, <4>1, ReleasedFields DEF TerminalOwnerCanRelease
      <3>3. CASE file' = file /\ pc' = "stuck"
        BY <3>1, <3>3
      <3>4. CASE file' = file /\ file.owner = me /\ ~TerminalOwnerCanRelease(me)
        <4>1. pc' \in {"bootError", "error"}
          BY <2>11, <3>1, <3>4 DEF ReleaseOutput
        <4> QED
          BY <3>1, <3>4, <4>1
      <3> QED
        BY <2>11, <3>2, <3>3, <3>4 DEF ReleaseOutput
    <2> QED
      BY <1>3, <2>1, <2>2, <2>3, <2>4, <2>5, <2>6, <2>7, <2>8, <2>9, <2>10, <2>11 DEF
        FinishAdjacent
  <1>4. CASE FinishOverwrite
    <2>1. CASE Replace
      <3>1. CASE StopWon
        BY <2>1, <3>1 DEF Replace
      <3>2. CASE ~StopWon
        BY <2>1, <3>2, CommitClaimWrites
      <3> QED
        BY <3>1, <3>2
    <2>2. CASE RenameToBackup
      BY <2>2 DEF RenameToBackup
    <2>3. CASE RenameOutput
      BY <2>3 DEF RenameOutput
    <2>4. CASE RenameBack
      BY <2>4 DEF RenameBack, Restored
    <2>5. CASE StatSource
      BY <2>5 DEF StatSource
    <2>6. CASE MarkReplaced
      BY <2>6 DEF MarkReplaced
    <2>7. CASE UnlinkBackup
      BY <2>7 DEF UnlinkBackup
    <2>8. CASE ReleaseReplaced
      BY <2>8 DEF ReleaseReplaced, TerminalOwnerCanRelease, Released
    <2>9. CASE EraseJournal
      BY <2>9 DEF EraseJournal
    <2> QED
      BY <1>4, <2>1, <2>2, <2>3, <2>4, <2>5, <2>6, <2>7, <2>8, <2>9 DEF FinishOverwrite
  <1>5. CASE FinishRejected
    <2>1. CASE ValidateRejected
      BY <2>1 DEF ValidateRejected
    <2>2. CASE DeleteRejected
      BY <2>2 DEF DeleteRejected
    <2>3. CASE PersistRejected
      BY <2>3 DEF PersistRejected, WithResult
    <2>4. CASE CompleteRejected
      BY <2>4 DEF CompleteRejected, Completed
    <2>5. CASE AggregateRejected
      BY <2>5 DEF AggregateRejected, Aggregate
    <2>6. CASE UnjournalRejected
      <3>1. /\ pc = "unjournalRejected" /\ pc' = "releaseRejected"
            /\ UNCHANGED <<mode, life, disk, ctx, job>>
            /\ file'.owner = file.owner /\ file'.phase = file.phase /\ file'.failing = file.failing
            /\ file'.status = file.status /\ file'.result = file.result
            /\ file'.journal = NoJournal /\ file'.path = file.path
        BY <2>6 DEF UnjournalRejected
      <3>2. /\ file.status \notin {"queued", "processing"} /\ file.result.status = "rejected"
            /\ file.owner # NoJob => file.owner = me /\ file.phase = "committing"
            /\ job[me] = "done" /\ (file.owner # NoJob => ~file.failing)
        BY <3>1 DEF StatusAt, LeftAt, KeepingAt
      <3> QED
        BY <3>1, <3>2
    <2>7. CASE ReleaseRejected
      BY <2>7 DEF ReleaseRejected, TerminalOwnerCanRelease, Released
    <2> QED
      BY <1>5, <2>1, <2>2, <2>3, <2>4, <2>5, <2>6, <2>7 DEF FinishRejected
  <1>6. CASE FinishStopped
    <2>1. CASE StopClean
      BY <2>1 DEF StopClean
    <2>2. CASE StopWrite
      BY <2>2 DEF StopWrite
    <2>3. CASE StopComplete
      BY <2>3 DEF StopComplete, Completed
    <2>4. CASE StopRelease
      BY <2>4 DEF StopRelease, Released
    <2> QED
      BY <1>6, <2>1, <2>2, <2>3, <2>4 DEF FinishStopped
  <1>7. CASE FinishFailure
    <2>1. CASE FailClaim
      BY <2>1, FailClaimWrites
    <2>2. CASE FailClean
      BY <2>2 DEF FailClean
    <2>3. CASE FailPersist
      <3>1. /\ pc = "failPersist" /\ pc' = "failJob" /\ UNCHANGED <<mode, life, disk, ctx, job>>
            /\ file'.result.status = "failed"
            /\ file'.owner = file.owner /\ file'.phase = file.phase /\ file'.failing = file.failing
            /\ file'.status = file.status
        BY <2>3 DEF FailPersist, WithResult
      <3>2. file.failing /\ file.owner = me /\ file.phase = "committing" /\ file.journal # NoJournal
        BY <3>1
      <3> QED
        BY <3>1, <3>2
    <2>4. CASE FailJob
      BY <2>4 DEF FailJob, Failed
    <2>5. CASE FailAggregate
      <3>1. /\ pc = "failAggregate" /\ pc' = "failRelease" /\ UNCHANGED <<mode, life, disk, ctx, job>>
            /\ file' = [file EXCEPT !.status = Aggregate(me)]
        BY <2>5 DEF FailAggregate
      <3>2. /\ file.result.status = "failed" /\ file.owner = me
            /\ file.status # "stopped" /\ file.failing /\ file.phase = "committing"
        BY <3>1
      <3>3. \A k \in Attempts : Active(k) => k = me
        BY <3>1
      <3>4. Aggregate(me) = "failed"
        BY <3>2, <3>3, AggregateSays
      <3> QED
        BY <3>1, <3>2, <3>4
    <2>6. CASE FailRelease
      BY <2>6 DEF FailRelease, FailedOwnerCanRelease, Released
    <2> QED
      BY <1>7, <2>1, <2>2, <2>3, <2>4, <2>5, <2>6 DEF FinishFailure
  <1>8. CASE RollBack
    <2>1. CASE HandleError
      BY <2>1 DEF HandleError
    <2>2. CASE UndoFinal
      BY <2>2 DEF UndoFinal, OwnFinal
    <2>3. CASE RestoreBackup
      BY <2>3 DEF RestoreBackup, Restored
    <2>4. CASE UndoScratch
      BY <2>4 DEF UndoScratch, FailureFinalizing
    <2>5. CASE UndoFailed
      BY <2>5 DEF UndoFailed
    <2>6. CASE FailUndone
      <3>1. /\ pc = "failUndone" /\ pc' = "idle" /\ UNCHANGED <<mode, life, disk, ctx, file>>
            /\ job' = Failed(me)
        BY <2>6 DEF FailUndone
      <3>2. file.journal.job = me /\ file.journal # NoJournal /\ me # NoJob
        BY <3>1
      <3>3. \A k \in Attempts : ~(job'[k] \in {"pending", "running"})
        BY <3>1 DEF Failed
      <3> QED
        BY <3>1, <3>2, <3>3
    <2> QED
      BY <1>8, <2>1, <2>2, <2>3, <2>4, <2>5, <2>6 DEF RollBack
  <1>9. CASE RecoverJournal
    <2>1. CASE Boot
      BY <2>1 DEF Boot, NoCtx, CrashedTask, RolledForward, FailureFinalizing
    <2>2. CASE StatOutput
      BY <2>2 DEF StatOutput
    <2>3. CASE RecoverFailure
      BY <2>3 DEF RecoverFailure, WithResult
    <2>4. CASE FailInterrupted
      BY <2>4 DEF FailInterrupted, Failed
    <2>5. CASE UnjournalUndone
      <3>1. /\ pc = "unjournalUndone" /\ pc' = "releaseUndone"
            /\ UNCHANGED <<mode, life, disk, ctx, job>>
            /\ file'.owner = file.owner /\ file'.phase = file.phase /\ file'.failing = file.failing
            /\ file'.status = IF StopWon THEN "stopped" ELSE "queued"
            /\ file'.result = file.result /\ file'.journal = NoJournal /\ file'.path = NoPath
        BY <2>5 DEF UnjournalUndone
      <3>2. /\ ~file.failing /\ file.journal # NoJournal /\ job[me] \in {"done", "failed"}
            /\ file.owner # NoJob => file.owner = me
        BY <3>1
      <3> QED
        BY <3>1, <3>2
    <2>6. CASE ReleaseUndone
      BY <2>6 DEF ReleaseUndone, Released
    <2>7. CASE AggregateUndone
      BY <2>7 DEF AggregateUndone, Aggregate
    <2>8. CASE BootError
      <3>1. /\ pc = "bootError" /\ pc' = "stuck" /\ UNCHANGED <<mode, life, disk, ctx, job>>
            /\ file'.owner = file.owner /\ file'.phase = file.phase /\ file'.failing = file.failing
            /\ file'.status \in {"stopped", "failed"}
            /\ ~StopWon => file'.status = "failed"
            /\ file'.result = file.result /\ file'.journal = file.journal
        BY <2>8 DEF BootError
      <3>2. file.journal = NoJournal =>
              /\ file.owner = me /\ file.phase = "committing" /\ job[me] = "failed"
              /\ file.result.path = FinalPath
        BY <3>1 DEF StatusAt
      <3> QED
        BY <3>1, <3>2
    <2> QED
      BY <1>9, <2>1, <2>2, <2>3, <2>4, <2>5, <2>6, <2>7, <2>8 DEF RecoverJournal
  <1>10. CASE RecoverStuckFile
    <2>1. CASE ReadStuck
      BY <2>1 DEF ReadStuck, NoCtx, CommittingResidue
    <2>2. CASE RemoveResidue
      BY <2>2 DEF RemoveResidue
    <2>3. CASE ForgetResidue
      <3>1. /\ pc = "forgetResidue" /\ UNCHANGED <<mode, life, disk, ctx, job>>
            /\ file'.owner = file.owner /\ file'.phase = file.phase /\ file'.failing = file.failing
            /\ file'.status = file.status /\ file'.journal = file.journal
            /\ file'.result = file.result
            /\ \/ /\ file'.path = NoPath
                  /\ pc' = IF file.failing THEN "failResidue" ELSE "releaseResidue"
               \/ pc' = "readInterrupted" /\ file'.path = file.path
        BY <2>3 DEF ForgetResidue
      <3>2. /\ file.owner = me /\ file.phase = "committing" /\ file.journal = NoJournal
            /\ file.path # NoPath /\ me # NoJob
        BY <3>1
      <3> QED
        BY <3>1, <3>2
    <2>4. CASE FailResidue
      BY <2>4 DEF FailResidue, Failed
    <2>5. CASE AggregateResidue
      <3>1. /\ pc = "aggregateResidue" /\ pc' = "releaseResidue"
            /\ UNCHANGED <<mode, life, disk, ctx, job>>
            /\ file' = [file EXCEPT !.status = Aggregate(me)]
        BY <2>5 DEF AggregateResidue
      <3>2. /\ Failing /\ job[me] = "failed" /\ file.owner = me /\ file.phase = "committing"
            /\ file.journal = NoJournal /\ file.path = NoPath /\ life = "boot"
        BY <3>1
      <3>3. Aggregate(me) # "processing" /\ Aggregate(me) \in Statuses
        BY <3>2, AggregateSays, AggregateTypes
      <3>4. /\ file'.owner = me /\ file'.phase = "committing" /\ file'.failing
            /\ file'.result = file.result /\ file'.journal = NoJournal /\ file'.path = NoPath
            /\ file'.status = Aggregate(me)
        BY <3>1, <3>2, <3>3
      <3> QED
        BY <3>1, <3>2, <3>3, <3>4
    <2>6. CASE ReleaseResidue
      <3>1. /\ pc = "releaseResidue" /\ UNCHANGED <<mode, life, disk, ctx, job>>
        BY <2>6 DEF ReleaseResidue
      <3>2. CASE file' = Released(file, FALSE) /\ pc' = "jobs"
        BY <3>1, <3>2, ReleasedFields
      <3>3. CASE ~ResidueCanRelease /\ file' = file /\ pc' = "readInterrupted"
        <4>1. /\ file.owner = me /\ file.phase = "committing" /\ file.journal = NoJournal
              /\ file.path = NoPath /\ me # NoJob /\ ~StopWon
          BY <3>1
        <4>2. ~Failing
          BY <3>1, <3>3, <4>1 DEF ResidueCanRelease, FailedOwnerCanRelease
        <4>3. ~Finished
          <5>1. Finished => TerminalOwnerCanRelease(me)
            BY <4>1 DEF TerminalOwnerCanRelease
          <5> QED
            BY <3>3, <5>1 DEF ResidueCanRelease
        <4>4. Stranded
          BY <4>1, <4>2, <4>3
        <4> QED
          BY <3>1, <3>3, <4>1, <4>4
      <3> QED
        BY <2>6, <3>2, <3>3 DEF ReleaseResidue
    <2>7. CASE ReadInterrupted
      BY <2>7 DEF ReadInterrupted
    <2>8. CASE RequeueUnowned
      BY <2>8 DEF RequeueUnowned
    <2>9. CASE AggregateUnowned
      BY <2>9 DEF AggregateUnowned, Aggregate
    <2>10. CASE FailOwner
      BY <2>10 DEF FailOwner, Failed
    <2>11. CASE ReleaseOwner
      BY <2>11 DEF ReleaseOwner, Released
    <2>12. CASE SettleOwner
      BY <2>12 DEF SettleOwner, Aggregate
    <2> QED
      BY <1>10, <2>1, <2>2, <2>3, <2>4, <2>5, <2>6, <2>7, <2>8, <2>9, <2>10, <2>11, <2>12
        DEF RecoverStuckFile
  <1>11. CASE RecoverJobs
    <2>1. ASSUME NEW j \in Attempts, RecoverInterruptedJob(j) PROVE ResidueAt'
      BY <2>1 DEF RecoverInterruptedJob, CompletedBeforeCrash, Completed, Failed
    <2>2. CASE Ready
      BY <2>2 DEF Ready, NoCtx
    <2> QED
      BY <1>11, <2>1, <2>2 DEF RecoverJobs
  <1>12. CASE User
    <2>1. CASE StopOwned
      BY <2>1 DEF StopOwned
    <2>2. CASE StopQueued
      BY <2>2 DEF StopQueued
    <2>3. CASE StopJobs
      BY <2>3 DEF StopJobs, Active
    <2>4. CASE UserCreatesFinal
      BY <2>4 DEF UserCreatesFinal
    <2> QED
      BY <1>12, <2>1, <2>2, <2>3, <2>4 DEF User
  <1>13. ASSUME NEW j \in Attempts, Enqueue(j) PROVE ResidueAt'
    BY <1>13 DEF Enqueue, Active
  <1>14. CASE Crash
    BY <1>14 DEF Crash, NoCtx
  <1>15. CASE UNCHANGED vars
    BY <1>15 DEF vars
  <1> QED
    BY <1>1, <1>2, <1>3, <1>4, <1>5, <1>6, <1>7, <1>8, <1>9, <1>10, <1>11, <1>12, <1>13,
      <1>14, <1>15 DEF Next, Finalize, Startup
-----------------------------------------------------------------------------
\* Initially nothing is on disk but the source, and nobody owns the file.
LEMMA InitKept == Init => Kept
  <1> SUFFICES ASSUME Init PROVE FinalAt /\ LeftAt /\ StatusAt /\ OwnerAt /\ ResidueAt
    BY InitDecided DEF Kept
  <1> USE CommitAssumption DEF Init, FreshFile, FreshDisk, NoResult, NoJournal, NoPath, FinalPath,
    NoCtx
  <1>1. FinalAt
    BY DEF FinalAt, ScratchAt, UndoneAt, OwnJournalAt, DecidedAt, Committed
  <1>2. LeftAt
    BY DEF LeftAt, LeftoversNamed, KeptAt, CleanAt, KeepingAt, ForgotAt, RemovedAt, RunTimeAt,
      BootAt, RejectedAt
  <1>3. StatusAt
    BY DEF StatusAt, Agreed, Unpublished, StuckAt, RequeuedAt, FailedAt, StoppedAt, PromotingAt,
      PublishedAt, Committed
  <1>4. OwnerAt
    BY DEF OwnerAt, RunningAt, SettledAt, FreeAt, OwnedAt, RejectingAt, FailingAt, UndoingAt,
      StuckAt
  <1>5. ResidueAt
    BY DEF ResidueAt
  <1> QED
    BY <1>1, <1>2, <1>3, <1>4, <1>5

(***************************************************************************)
(* The theorems.                                                           *)
(***************************************************************************)
\* The inductive invariant holds in every reachable state.
THEOREM KeptHolds == Spec => []Kept
  <1>1. Kept /\ [Next]_vars => Kept'
    <2> SUFFICES ASSUME Kept, [Next]_vars PROVE Kept'
      OBVIOUS
    <2>1. Decided'
      <3>1. Decided /\ Safe /\ Typed
        BY DEF Kept, Decided, Safe
      <3>2. Safe'
        BY <3>1, TypedKept, JournalAtKept, SourceAtKept, ResultAtKept, OneActiveKept DEF Safe
      <3> QED
        BY <3>1, <3>2, OutcomeAtKept, BackupAtKept, GateAtKept DEF Decided
    <2> QED
      BY <2>1, FinalAtKept, LeftAtKept, StatusAtKept, OwnerAtKept, ResidueAtKept DEF Kept
  <1> QED
    BY InitKept, <1>1, PTL DEF Spec

\* Whatever the monitor left in the directory is named by the document, at every
\* step of every procedure, startup and crash: a scan that skips what documents name
\* never ingests a scratch or a backup (processing.js:637).
THEOREM LeftoversAreNamed == Spec => []LeftoversNamed
  <1>1. Kept => LeftoversNamed
    BY DEF Kept, LeftAt
  <1> QED
    BY KeptHolds, <1>1, PTL

\* When nothing runs and nobody owns the file, result and status say what the
\* source and the final name hold, whichever crashes and failed calls came before.
THEOREM RestingAgrees == Spec => []RestingDiskAgrees
  <1>1. Kept => RestingDiskAgrees
    <2> SUFFICES ASSUME Kept, Resting, Unowned
                 PROVE  /\ disk.source = "original" <=> file.result.status # "replaced"
                        /\ file.result.path = FinalPath => disk.final \in Attempts
                        /\ disk.final \in Attempts => file.result.path = FinalPath
                        /\ file.status = "transcoded" <=> file.result.status = "done"
                        /\ file.status = "replaced" <=> file.result.status = "replaced"
      BY DEF RestingDiskAgrees
    <2>1. file.journal.phase = "none" /\ file.journal = NoJournal /\ file.owner = NoJob
      BY DEF Unowned, NoJournal
    <2>2. disk.source = "original" <=> file.result.status # "replaced"
      BY <2>1, CommitAssumption DEF Kept, Decided, Safe, SourceAt
    <2>3. disk.final \in Attempts <=> file.result.path = FinalPath
      BY <2>1 DEF Kept, FinalAt
    <2>4. Agreed
      BY <2>1 DEF Kept, StatusAt, HalfDone
    <2>5. /\ file.status = "transcoded" <=> file.result.status = "done"
          /\ file.status = "replaced" <=> file.result.status = "replaced"
      BY <2>4 DEF Kept, StatusAt, Agreed
    <2> QED
      BY <2>2, <2>3, <2>5
  <1> QED
    BY KeptHolds, <1>1, PTL

\* When nothing runs, no job is left running and an owner that is left keeps what
\* a startup releases it by, unless it is stranded.
THEOREM NoneHalfOwned == Spec => []NothingHalfOwned
  <1>1. Kept => NothingHalfOwned
    BY DEF Kept, ResidueAt, NothingHalfOwned
  <1> QED
    BY KeptHolds, <1>1, PTL
=============================================================================
