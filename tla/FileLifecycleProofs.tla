------------------------ MODULE FileLifecycleProofs ------------------------
(***************************************************************************)
(* Theorems about FileLifecycle for any settings, generations and losses.  *)
(*                                                                         *)
(* The inductive invariant says what every procedure knows at each of its  *)
(* steps: where the queue loop and the tasks are, who owns the file there, *)
(* what the journal, the results and the status then are, and what a stop  *)
(* or a requeue in progress has left to fail.  Its parts come first; then  *)
(* one lemma per part says that every step keeps it, given the parts it    *)
(* rests on; the theorems are at the end.                                  *)
(*                                                                         *)
(* A lemma that goes through all the steps has one step per action that    *)
(* its formula looks at, and one for those that leave it alone.            *)
(***************************************************************************)
EXTENDS FileLifecycle, TLAPS

-----------------------------------------------------------------------------
(***************************************************************************)
(* The parts of the invariant.                                             *)
(***************************************************************************)
\* Where the queue loop is, and what it holds there.
ProbeAt    == {"probe-claim", "probe-media", "probe-nomatch", "probe-check", "probe-enqueue",
               "probe-publish", "probe-fence", "probe-done"}
UnownedAt  == {"read", "collide", "claim", "complete", "reset-error", "fail", "recount",
               "aggregate"}
ClaimedAt  == {"patch", "rollback", "validate", "assign"}
DispatchAt == UnownedAt \union ClaimedAt \union {"reset"}
EnqueueAt  == {"probe-check", "probe-enqueue", "probe-publish", "probe-fence"}

LoopKnown ==
    /\ loop.at = "idle" => loop.job = NoJob
    /\ loop.at \in ProbeAt => \E g \in Gens : loop.job = ProbeJob(g)
    /\ loop.at \in DispatchAt => loop.job \in Transcodes
    /\ loop.at = "probe-enqueue" => loop.next \in Settings

\* A section of several steps is one procedure's, which is inside of it.
LockKnown ==
    /\ lock = "stop" <=> stop.at = "write"
    /\ lock = "requeue" <=> requeue.at \in {"fail", "create"}
    /\ loop.at = "aggregate" => lock = "loop"
    /\ \A j \in Transcodes : task[j].at = "aggregate" => lock = "task"

\* A job is created, queued, handed out and ended in this order, once.
ToBeProbed(g) == job[ProbeJob(g)] \in {"none", "pending"}
Unqueued(g)   == \A s \in Settings : job[<<g, s>>] = "none"

LaterJobs ==
    /\ \A j \in Jobs : Gen(j) > gen => job[j] = "none"
    /\ requeue.at = "create" => \A j \in Jobs : Gen(j) = gen => job[j] = "none"

ProbesFirst == \A g \in Gens : ToBeProbed(g) => Unqueued(g)

LoopsJob ==
    /\ loop.at # "idle" => job[loop.job] \notin {"none", "pending"}
    /\ loop.at \in {"probe-claim", "probe-media", "probe-nomatch"} => Unqueued(Gen(loop.job))
    /\ loop.at \in {"probe-check", "probe-enqueue"} =>
          \A s \in loop.left : job[<<Gen(loop.job), s>>] = "none"
    /\ loop.at = "probe-enqueue" =>
          loop.next \notin loop.left /\ job[<<Gen(loop.job), loop.next>>] = "none"

HandedOver ==
    /\ loop.at \in DispatchAt => task[loop.job].at = "none"
    /\ \A j \in Transcodes : task[j].at # "none" => job[j] \notin {"none", "pending"}

\* The document's probe is the latest generation's, and a pending file has one.
ProbeKnown ==
    /\ file.probe \in {0, gen}
    /\ file.status = "pending" => file.probe = gen
    /\ requeue.at \in {"fail", "create"} => file.owner = NoJob /\ file.journal = NoJournal
    /\ requeue.at = "fail" => gen < MaxGens /\ file.probe = 0

\* A generation that is past its probe is not pending.
ProbedAt == EnqueueAt \union {"probe-nomatch"}
Probed   == loop.at \in ProbedAt /\ Gen(loop.job) = gen => file.status # "pending"

\* Who owns the file where.
FinishAt == {"promote", "link", "committed", "persist", "mark", "complete", "recount",
             "aggregate", "clean", "unlink", "unjournal", "release", "fail-write", "fail-job"}
FreeAt   == {"none", "settle", "erase", "requeue", "lost-job"}

OwnerKnown ==
    /\ loop.at \in UnownedAt => file.owner = NoJob
    /\ loop.at \in ClaimedAt => file.owner = loop.job /\ file.phase = "processing"
    /\ loop.at = "reset" => file.owner \in {NoJob, loop.job}
    /\ \A j \in Transcodes :
          /\ task[j].at \notin FreeAt => file.owner = j
          /\ task[j].at \in {"exec", "finalize"} => file.phase = "processing"
          /\ task[j].at \in FinishAt => file.phase = "committing"
          /\ task[j].at \in {"stop-check", "stop-clean"} => file.phase # "committing"

\* From the point of no return on the file is not stopped.
NoReturn ==
    /\ file.phase = "committing" => ~Stopped(file) /\ lock # "stop"
    /\ file.status = "missing" => file.owner = NoJob

\* A cancelled file is a stopped one while somebody works on it.
CancelKnown ==
    file.cancelled /\ (loop.at \in ClaimedAt \/ \E j \in Transcodes : task[j].at \notin FreeAt) =>
       file.status = "stopped"

\* What a task has in hand: its outcome, and which journal the file has.
JournaledAt == {"begin", "validate", "check", "filter", "commit", "promote", "link", "committed"}

TaskKnown(j) ==
    /\ task[j].at = "commit" => task[j].res \in {"done", "rejected", "replaced"}
    /\ task[j].at = "promote" => task[j].res \in {"done", "rejected"}
    /\ task[j].at \in {"link", "committed", "persist"} =>
          task[j].res \in {"done", "rejected", "replaced"}
    /\ task[j].at \in JournaledAt \union {"exec", "finalize"} => file.journal.job = j
    /\ task[j].at = "mark" => task[j].res = "replaced"
    /\ task[j].at = "fail-job" => task[j].res = "failed"
    /\ task[j].at \in {"persist", "mark", "complete"} /\ task[j].res = "replaced" =>
          file.journal = [job |-> j, phase |-> "committed"]
    /\ task[j].at \in {"recount", "aggregate", "unjournal"} => task[j].res # "replaced"
    /\ task[j].at = "clean" => file.journal.phase = "committed"
    /\ task[j].at = "clean" /\ task[j].res = "replaced" => file.journal.job = j
    /\ task[j].at \in {"unlink", "release"} /\ task[j].res = "replaced" =>
          file.journal = [job |-> j, phase |-> "cleaned"]
    /\ task[j].at \in {"complete", "clean", "unlink", "release"} /\ task[j].res = "replaced" =>
          file.status = "replaced"

JournalKnown ==
    /\ loop.at \in ClaimedAt => file.journal.job = loop.job
    /\ \A j \in Transcodes : TaskKnown(j)

\* After the release of an overwrite its journal is erased without a look at the
\* owner: nothing may have claimed the file in between.
EraseAlone ==
    \A j \in Transcodes : task[j].at = "erase" =>
        /\ file.owner = NoJob /\ file.status = "replaced" /\ lock # "stop"
        /\ file.journal = [job |-> j, phase |-> "cleaned"]
        /\ loop.at \in ProbeAt \union {"idle", "read", "complete"}

\* What a requeue has left to fail, and what outlives it.
Enqueued(j) == loop.job = ProbeJob(Gen(j)) /\ loop.at \in EnqueueAt

\* An older generation has nothing outstanding but what its probe will fence.
OldKnown ==
    /\ \A j \in Outstanding : Gen(j) < gen => j \in Transcodes /\ Enqueued(j)
    /\ requeue.at = "fail" =>
          \A j \in Outstanding : j \in requeue.jobs \/ (j \in Transcodes /\ Enqueued(j))

\* A job whose task is past its end does not run.
EndedAt == {"recount", "aggregate", "clean", "unlink", "unjournal", "release", "erase",
            "stop-release"}

\* An owner that nobody works for any more, and a file nobody may claim.
Orphaned ==
    /\ file.owner # NoJob /\ loop.job # file.owner
    /\ task[file.owner].at \in {"none", "settle"}

Quenched == file.status \in {"stopped", "missing"} \/ Orphaned

\* What runs is held; a task past its end does not run; a reset that finds no
\* owner fails its job, unless the user replaced the file between the claim's
\* read and the reset.
RunningKnown ==
    /\ RunningJobIsHeld
    /\ \A j \in Transcodes : task[j].at \in EndedAt => ~Active(j)
    /\ loop.at \in {"recount", "aggregate"} => ~Active(loop.job)
    /\ loop.at = "claim" => file.status # "replaced" \/ loop.job \in overtaken
    /\ loop.at = "reset" /\ file.owner = NoJob /\ job[loop.job] = "running" =>
          file.status \in {"stopped", "missing"} \/ loop.job \in overtaken

\* A job that a stop is about to fail is not the owner and cannot become it,
\* unless the user replaced the stopped file since.
DoomedKnown ==
    /\ stop.at = "write" => file.owner \notin stop.jobs
    /\ \A j \in stop.jobs \intersect Transcodes : job[j] # "none"
    /\ stop.at = "fail" => \A j \in (stop.jobs \intersect Transcodes) \ overtaken : Active(j) =>
          /\ file.owner # j /\ Quenched
          /\ requeue.at = "fail" => j \in requeue.jobs
    /\ loop.at = "assign" => job[loop.job] = "running" \/ loop.job \in overtaken

\* What is handed out is of the latest generation.
CurrentKnown ==
    /\ loop.at = "assign" => Gen(loop.job) = gen
    /\ \A j \in Transcodes : task[j].at \notin FreeAt => Gen(j) = gen
    /\ loop.at \in DispatchAt /\ Gen(loop.job) < gen => Unqueued(gen)

\* When a setting has a result, and when it has none yet.
ProbingAt == EnqueueAt \union {"probe-media", "probe-nomatch"}
RecordedAt == {"mark", "complete", "fail-job"}
UnrecordedAt == {"exec", "lost", "retire", "retire-failed"}

ResultKnown ==
    /\ file.status = "pending" => file.owner = NoJob /\ file.results = NoResults
    /\ loop.at \in ProbingAt => file.owner = NoJob /\ file.results = NoResults
    /\ \A s \in Settings : file.results[s] # "none" =>
          LET j == <<gen, s>> IN
          \/ ~Active(j)
          \/ task[j].at \in RecordedAt
          \/ loop.job = j /\ loop.at \in {"reset-error", "fail"}
    /\ loop.at = "assign" => file.results[Setting(loop.job)] = "none"
    /\ \A j \in Transcodes :
          task[j].at \in UnrecordedAt => file.results[Setting(j)] = "none"

\* Where the status shows the results.
ShownAt == {"clean", "unlink", "unjournal", "release"}

Shown ==
    \/ file.status \in {"stopped", "ignored", "missing"}
    \/ file.results = NoResults
    \/ file.status = Derive(file, FALSE, FALSE)
    \/ file.status \in {"queued", "failed"} /\ Unattempted

StatusOf(j) ==
    /\ task[j].at = "aggregate" /\ task[j].listed => Unattempted
    /\ task[j].at \in ShownAt => Shown
    /\ task[j].at \in {"stop-complete", "stop-release", "retire-stopped"} =>
          file.status = "stopped"
    /\ task[j].at \in {"mark", "complete"} /\ task[j].res = "replaced" =>
          file.results[Setting(j)] = "replaced"

FailAt == {"reset-error", "fail", "recount", "aggregate"}

StatusKnown ==
    /\ Shown \/ file.owner # NoJob \/ loop.at \in FailAt
    /\ loop.at = "aggregate" /\ loop.listed => Unattempted
    /\ \A j \in Transcodes : StatusOf(j)

-----------------------------------------------------------------------------
(***************************************************************************)
(* Jobs, generations and settings.                                         *)
(***************************************************************************)
\* The absence of a job is none.
LEMMA NoJobApart == NoJob \notin Transcodes
  BY LifecycleAssumption DEF Transcodes, Gens
\* What a job is made of: probes and transcodes are told apart by the profile,
\* and no job is the absence of one.
LEMMA ProbeJobs ==
  \A g \in Gens : ProbeJob(g) \in Jobs /\ ProbeJob(g) \notin Transcodes /\ Gen(ProbeJob(g)) = g
  BY LifecycleAssumption DEF Jobs, Transcodes, ProbeJob, Gens, Gen

\* A transcode has a generation and a setting, and is known by them.
LEMMA TranscodeJobs ==
  \A g \in Gens : \A s \in Settings :
     /\ <<g, s>> \in Transcodes /\ <<g, s>> \in Jobs
     /\ Gen(<<g, s>>) = g /\ Setting(<<g, s>>) = s
  BY DEF Jobs, Transcodes, Gen, Setting

\* No job is no job; each has a generation, and a transcode a setting.
LEMMA JobGens ==
  /\ Transcodes \subseteq Jobs /\ NoJob \notin Jobs
  /\ \A j \in Jobs : Gen(j) \in Gens
  /\ \A j \in Transcodes : Setting(j) \in Settings
  BY LifecycleAssumption DEF Jobs, Transcodes, ProbeJob, Gens, Gen, Setting

\* A transcode is its generation and its setting.
LEMMA TranscodeParts == \A j \in Transcodes : j = <<Gen(j), Setting(j)>>
  BY DEF Transcodes, Gen, Setting

\* A job that is not a transcode is the probe of its generation.
LEMMA ProbeParts == \A j \in Jobs : j \in Transcodes \/ j = ProbeJob(Gen(j))
  BY DEF Jobs, ProbeJob, Gen

-----------------------------------------------------------------------------
(***************************************************************************)
(* What the branching steps do, field by field.                            *)
(***************************************************************************)
\* The claim of the point of no return: it commits, or a stop has won.
LEMMA CommitEffect ==
  ASSUME NEW j \in Transcodes, TypeOK, Commit(j)
  PROVE  /\ task[j].at = "commit" /\ lock = "free"
         /\ job' = job /\ lock' = lock /\ gen' = gen /\ loop' = loop /\ losses' = losses
         /\ stop' = stop /\ requeue' = requeue
         /\ \A i \in Transcodes : i # j => task'[i] = task[i]
         /\ task'[j].res = task[j].res /\ task'[j].listed = task[j].listed
         /\ file'.owner = file.owner /\ file'.status = file.status
         /\ file'.cancelled = file.cancelled /\ file'.probe = file.probe
         /\ file'.results = file.results /\ file'.journal.job = file.journal.job
         /\ \/ /\ task'[j].at = "stop-check" /\ file' = file
               /\ file.owner = j => Stopped(file)
            \/ /\ file.owner = j /\ ~Stopped(file) /\ file'.phase = "committing"
               /\ \/ task'[j].at = "link" /\ task[j].res = "replaced"
                  \/ task'[j].at = "promote" /\ task[j].res \in {"done", "rejected"}
                  \/ task'[j].at = "persist" /\ task[j].res = "rejected"
  <1>1. /\ TaskAt(j, "commit") /\ lock = "free"
        /\ UNCHANGED <<job, lock, notTask>>
    BY DEF Commit
  <1>2. CASE Transitions(j, TRUE)
    <2>1. /\ file' = [file EXCEPT !.phase = "committing",
                                  !.journal.phase = IF task[j].res = "replaced"
                                                    THEN "promoting" ELSE @]
          /\ \/ task[j].res = "replaced" /\ TaskTo(j, "link")
             \/ task[j].res \in {"done", "rejected"} /\ TaskTo(j, "promote")
             \/ task[j].res = "rejected" /\ TaskTo(j, "persist")
      BY <1>2 DEF Commit, CommitUnlessStopped
    <2>2. /\ file'.owner = file.owner /\ file'.phase = "committing"
          /\ file'.status = file.status /\ file'.cancelled = file.cancelled
          /\ file'.probe = file.probe /\ file'.results = file.results
          /\ file'.journal.job = file.journal.job
      BY <2>1 DEF TypeOK, Files, Journals, NoJournal
    <2>3. CASE task[j].res = "replaced" /\ TaskTo(j, "link")
      BY <1>1, <1>2, <2>2, <2>3 DEF TypeOK, TaskAt, TaskTo, Transitions, notTask
    <2>4. CASE task[j].res \in {"done", "rejected"} /\ TaskTo(j, "promote")
      BY <1>1, <1>2, <2>2, <2>4 DEF TypeOK, TaskAt, TaskTo, Transitions, notTask
    <2>5. CASE task[j].res = "rejected" /\ TaskTo(j, "persist")
      BY <1>1, <1>2, <2>2, <2>5 DEF TypeOK, TaskAt, TaskTo, Transitions, notTask
    <2> QED
      BY <2>1, <2>3, <2>4, <2>5
  <1>3. CASE ~Transitions(j, TRUE)
    <2>1. TaskTo(j, "stop-check") /\ UNCHANGED file /\ (file.owner = j => Stopped(file))
      BY <1>3 DEF Commit, CommitUnlessStopped, Transitions
    <2> QED
      BY <1>1, <2>1 DEF TypeOK, TaskAt, TaskTo, notTask
  <1> QED
    BY <1>2, <1>3

\* finishFailure's write, or its fence.
LEMMA FailWriteEffect ==
  ASSUME NEW j \in Transcodes, TypeOK, FailWrite(j)
  PROVE  /\ task[j].at = "fail-write" /\ lock = "free"
         /\ job' = job /\ lock' = lock /\ gen' = gen /\ loop' = loop /\ losses' = losses
         /\ stop' = stop /\ requeue' = requeue
         /\ \A i \in Transcodes : i # j => task'[i] = task[i]
         /\ task'[j].listed = task[j].listed
         /\ file'.owner = file.owner /\ file'.phase = file.phase
         /\ file'.status = file.status /\ file'.cancelled = file.cancelled
         /\ file'.probe = file.probe /\ file'.journal \in {file.journal, NoJournal}
         /\ \/ task'[j].at = "settle" /\ task'[j].res = task[j].res /\ file' = file
            \/ /\ file.owner = j /\ file.phase = "committing"
               /\ task'[j].at = "fail-job" /\ task'[j].res = "failed"
               /\ file'.results = [file.results EXCEPT ![Setting(j)] = "failed"]
  <1>1. /\ TaskAt(j, "fail-write") /\ lock = "free"
        /\ UNCHANGED <<job, lock, notTask>>
    BY DEF FailWrite
  <1>2. CASE file.owner = j /\ file.phase = "committing"
    <2>1. PICK kept \in BOOLEAN :
             /\ file' = [file EXCEPT !.results[Setting(j)] = "failed",
                                     !.journal = IF kept THEN @ ELSE NoJournal]
             /\ task' = [task EXCEPT ![j].at = "fail-job", ![j].res = "failed",
                                     ![j].kept = kept]
      BY <1>2 DEF FailWrite
    <2>2. /\ file'.owner = file.owner /\ file'.phase = file.phase
          /\ file'.status = file.status /\ file'.cancelled = file.cancelled
          /\ file'.probe = file.probe /\ file'.journal \in {file.journal, NoJournal}
          /\ file'.results = [file.results EXCEPT ![Setting(j)] = "failed"]
      BY <2>1 DEF TypeOK, Files
    <2>3. /\ \A i \in Transcodes : i # j => task'[i] = task[i]
          /\ task'[j].at = "fail-job" /\ task'[j].res = "failed"
          /\ task'[j].listed = task[j].listed
      BY <2>1 DEF TypeOK
    <2> QED
      BY <1>1, <1>2, <2>2, <2>3 DEF TaskAt, notTask
  <1>3. CASE ~(file.owner = j /\ file.phase = "committing")
    <2>1. TaskTo(j, "settle") /\ UNCHANGED file
      BY <1>3 DEF FailWrite
    <2> QED
      BY <1>1, <2>1 DEF TypeOK, TaskAt, TaskTo, notTask
  <1> QED
    BY <1>2, <1>3

\* The probe that found media, or was overtaken.
LEMMA ProbeQueuedEffect ==
  ASSUME TypeOK, ProbeQueued
  PROVE  /\ loop.at = "probe-media" /\ lock = "free"
         /\ job' = job /\ lock' = lock /\ gen' = gen /\ task' = task /\ losses' = losses
         /\ stop' = stop /\ requeue' = requeue
         /\ loop'.job = loop.job /\ loop'.next = loop.next /\ loop'.listed = loop.listed
         /\ loop'.left \subseteq Settings
         /\ \/ loop'.at = "probe-done" /\ file' = file
            \/ /\ OwnsProbe /\ file.status = "pending"
               /\ file' = [file EXCEPT !.status = "queued"]
               /\ loop'.at \in {"probe-nomatch", "probe-check"}
  <1>1. CASE OwnsProbe /\ file.status = "pending"
    <2>1. PICK matching \in SUBSET Settings :
             loop' = [loop EXCEPT !.at = IF matching = {} THEN "probe-nomatch"
                                         ELSE "probe-check",
                                  !.left = matching]
      BY <1>1 DEF ProbeQueued
    <2> QED
      BY <1>1, <2>1 DEF ProbeQueued, LoopAt, notLoop, TypeOK
  <1>2. CASE ~(OwnsProbe /\ file.status = "pending")
    BY <1>2 DEF ProbeQueued, LoopAt, LoopTo, notLoop, TypeOK
  <1> QED
    BY <1>1, <1>2

\* The look at the owner before each enqueue.
LEMMA ProbeCheckEffect ==
  ASSUME TypeOK, ProbeCheck
  PROVE  /\ loop.at = "probe-check" /\ file' = file
         /\ job' = job /\ lock' = lock /\ gen' = gen /\ task' = task /\ losses' = losses
         /\ stop' = stop /\ requeue' = requeue
         /\ loop'.job = loop.job /\ loop'.listed = loop.listed
         /\ \/ loop'.at = "probe-publish" /\ loop'.left = {} /\ loop'.next = loop.next
            \/ /\ OwnsProbe /\ file.status = "queued"
               /\ loop'.at = "probe-enqueue" /\ loop'.next \in loop.left
               /\ loop'.left = loop.left \ {loop'.next}
  <1>1. CASE OwnsProbe /\ file.status = "queued"
    <2>1. PICK s \in loop.left :
             loop' = [loop EXCEPT !.at = "probe-enqueue", !.next = s, !.left = loop.left \ {s}]
      BY <1>1 DEF ProbeCheck
    <2> QED
      BY <1>1, <2>1 DEF ProbeCheck, LoopAt, notLoop, TypeOK
  <1>2. CASE ~(OwnsProbe /\ file.status = "queued")
    BY <1>2 DEF ProbeCheck, LoopAt, notLoop, TypeOK
  <1> QED
    BY <1>1, <1>2


-----------------------------------------------------------------------------
(***************************************************************************)
(* Where the loop is, who has the lock and who owns the file.              *)
(***************************************************************************)
\* The loop keeps the job its position calls for.
LEMMA LoopKept == TypeOK /\ LoopKnown /\ [Next]_vars => LoopKnown'
  <1> SUFFICES ASSUME TypeOK, LoopKnown, [Next]_vars PROVE LoopKnown'
    OBVIOUS
  <1> USE DEF TypeOK, LoopKnown, ProbeAt, UnownedAt, ClaimedAt, DispatchAt, LoopIdle
  <1>1. CASE LoopStep
    <2>1. ASSUME NEW g \in Gens, TakeProbe(g) PROVE LoopKnown'
      BY <2>1 DEF TakeProbe, LoopAt, notLoop
    <2>2. CASE ProbeClaim
      BY <2>2 DEF ProbeClaim, LoopAt, LoopTo, notLoop
    <2>3. CASE ProbeQueued
      BY <2>3, ProbeQueuedEffect DEF OwnsProbe
    <2>4. CASE ProbeFailed
      BY <2>4 DEF ProbeFailed, LoopAt, LoopTo, OwnsProbe, notLoop
    <2>5. CASE ProbeNoMatch
      BY <2>5 DEF ProbeNoMatch, LoopAt, LoopTo, OwnsProbe, notLoop
    <2>6. CASE ProbeCheck
      BY <2>6, ProbeCheckEffect DEF OwnsProbe
    <2>7. CASE ProbeEnqueue
      BY <2>7 DEF ProbeEnqueue, LoopAt, notLoop
    <2>8. CASE ProbePublish
      BY <2>8 DEF ProbePublish, LoopAt, LoopTo, OwnsProbe, notLoop
    <2>9. CASE ProbeFence
      BY <2>9 DEF ProbeFence, LoopAt, LoopTo, notLoop
    <2>10. CASE ProbeDone
      BY <2>10 DEF ProbeDone, LoopAt, LoopStops, CompleteIfRunning, notLoop
    <2>11. ASSUME NEW j \in Transcodes, TakeTranscode(j) PROVE LoopKnown'
      BY <2>11 DEF TakeTranscode, LoopAt, notLoop
    <2>12. CASE PrepareRead
      BY <2>12 DEF PrepareRead, LoopAt, LoopTo, Unpreparable, notLoop
    <2>13. CASE RecordCollision
      BY <2>13 DEF RecordCollision, LoopAt, LoopTo, notLoop
    <2>14. CASE ClaimFile
      BY <2>14 DEF ClaimFile, LoopAt, LoopTo, Claimed, Unpreparable, notLoop
    <2>15. CASE PatchJob
      BY <2>15 DEF PatchJob, LoopAt, LoopTo, notLoop
    <2>16. CASE RollBackClaim
      BY <2>16 DEF RollBackClaim, LoopAt, LoopTo, Released, notLoop
    <2>17. CASE ValidatePrepared
      BY <2>17
        DEF ValidatePrepared, LoopAt, LoopTo, PreparedTaskMatches, notLoop
    <2>18. CASE Assign
      BY <2>18 DEF Assign, LoopAt, LoopStops, notLoop
    <2>19. CASE NoRunnerLeft
      BY <2>19 DEF NoRunnerLeft, LoopAt, LoopTo, notLoop
    <2>20. CASE Reset
      BY <2>20 DEF Reset, LoopAt, LoopTo, LoopStops, Released, notLoop
    <2>21. CASE FailJob
      BY <2>21 DEF FailJob, LoopAt, LoopTo, FailIfActive, notLoop
    <2>22. CASE LoopRecount
      BY <2>22 DEF LoopRecount, LoopAt, notLoop
    <2>23. CASE LoopAggregate
      BY <2>23 DEF LoopAggregate, LoopAt, LoopStops, Recomputed, notLoop
    <2>24. CASE CompleteSkipped
      BY <2>24
        DEF CompleteSkipped, LoopAt, LoopStops, CompleteIfRunning, notLoop
    <2> QED
      BY <1>1, <2>1, <2>2, <2>3, <2>4, <2>5, <2>6, <2>7, <2>8, <2>9, <2>10,
         <2>11, <2>12, <2>13, <2>14, <2>15, <2>16, <2>17, <2>18, <2>19, <2>20,
         <2>21, <2>22, <2>23, <2>24
        DEF LoopStep
  <1>2. ASSUME NEW j \in Transcodes, CommitStep(j) PROVE LoopKnown'
    BY <1>2
      DEF CommitStep, FinalizeRead, Begin, ValidateOutput, BeforeFilters,
          RunFilters, Commit, Promote, Link, JournalCommitted, Persist,
          MarkReplaced, Complete, TaskRecount, TaskAggregate, JournalCleaned,
          Unlink, Unjournal, Release, EraseJournal, Settle, Attempt, notTask
  <1>3. ASSUME NEW j \in Transcodes, AbortStep(j) PROVE LoopKnown'
    BY <1>3
      DEF AbortStep, StopCheck, StopClean, StopComplete, StopRelease, FailRead,
          FailClaim, FailWrite, FailTask, Recover, ReportUnrecovered, notTask
  <1>4. ASSUME NEW j \in Transcodes, LostStep(j) PROVE LoopKnown'
    BY <1>4
      DEF LostStep, LostRead, Retire, RequeueLost, RetireStopped, FailLostJob,
          RetireOver, notTask
  <1>5. CASE (\E j \in Transcodes : Report(j)) \/
             (\E j \in Transcodes : LoseRunner(j))
    BY <1>5 DEF Report, LoseRunner, notTask
  <1>6. CASE StopRead \/ StopWrite \/ (\E k \in Jobs : StopFailJob(k)) \/
             RequeueRead \/ (\E k \in Jobs : RequeueFailJob(k)) \/ RequeuePublish \/
             RequeueCreate \/ (\E s \in Settings : Replace(s)) \/ Remove
    BY <1>6
      DEF StopRead, StopWrite, StopFailJob, RequeueRead, RequeueFailJob,
          RequeuePublish, RequeueCreate, Replace, Remove, notUser
  <1>7. CASE UNCHANGED vars
    BY <1>7 DEF vars
  <1> QED
    BY <1>1, <1>2, <1>3, <1>4, <1>5, <1>6, <1>7
      DEF Next, TaskStep, StopStep, RequeueStep

\* The lock is held by the procedure that is inside of a section.
LEMMA LockKept == TypeOK /\ LockKnown /\ [Next]_vars => LockKnown'
  <1> SUFFICES ASSUME TypeOK, LockKnown, [Next]_vars PROVE LockKnown'
    OBVIOUS
  <1> USE DEF TypeOK, LockKnown, NoTask, LoopIdle, UserIdle
  <1>1. CASE LoopStep
    <2>1. ASSUME NEW g \in Gens, TakeProbe(g) PROVE LockKnown'
      BY <2>1 DEF TakeProbe, LoopAt, notLoop
    <2>2. CASE ProbeClaim
      BY <2>2 DEF ProbeClaim, LoopAt, LoopTo, notLoop
    <2>3. CASE ProbeQueued
      BY <2>3, ProbeQueuedEffect DEF OwnsProbe
    <2>4. CASE ProbeFailed
      BY <2>4 DEF ProbeFailed, LoopAt, LoopTo, OwnsProbe, notLoop
    <2>5. CASE ProbeNoMatch
      BY <2>5 DEF ProbeNoMatch, LoopAt, LoopTo, OwnsProbe, notLoop
    <2>6. CASE ProbeCheck
      BY <2>6, ProbeCheckEffect DEF OwnsProbe
    <2>7. CASE ProbeEnqueue
      BY <2>7 DEF ProbeEnqueue, LoopAt, notLoop
    <2>8. CASE ProbePublish
      BY <2>8 DEF ProbePublish, LoopAt, LoopTo, OwnsProbe, notLoop
    <2>9. CASE ProbeFence
      BY <2>9 DEF ProbeFence, LoopAt, LoopTo, notLoop
    <2>10. CASE ProbeDone
      BY <2>10 DEF ProbeDone, LoopAt, LoopStops, CompleteIfRunning, notLoop
    <2>11. ASSUME NEW j \in Transcodes, TakeTranscode(j) PROVE LockKnown'
      BY <2>11 DEF TakeTranscode, LoopAt, notLoop
    <2>12. CASE PrepareRead
      BY <2>12 DEF PrepareRead, LoopAt, LoopTo, Unpreparable, notLoop
    <2>13. CASE RecordCollision
      BY <2>13 DEF RecordCollision, LoopAt, LoopTo, notLoop
    <2>14. CASE ClaimFile
      BY <2>14 DEF ClaimFile, LoopAt, LoopTo, Claimed, Unpreparable, notLoop
    <2>15. CASE PatchJob
      BY <2>15 DEF PatchJob, LoopAt, LoopTo, notLoop
    <2>16. CASE RollBackClaim
      BY <2>16 DEF RollBackClaim, LoopAt, LoopTo, Released, notLoop
    <2>17. CASE ValidatePrepared
      BY <2>17
        DEF ValidatePrepared, LoopAt, LoopTo, PreparedTaskMatches, notLoop
    <2>18. CASE Assign
      BY <2>18 DEF Assign, LoopAt, LoopStops, notLoop
    <2>19. CASE NoRunnerLeft
      BY <2>19 DEF NoRunnerLeft, LoopAt, LoopTo, notLoop
    <2>20. CASE Reset
      BY <2>20 DEF Reset, LoopAt, LoopTo, LoopStops, Released, notLoop
    <2>21. CASE FailJob
      BY <2>21 DEF FailJob, LoopAt, LoopTo, FailIfActive, notLoop
    <2>22. CASE LoopRecount
      BY <2>22 DEF LoopRecount, LoopAt, notLoop
    <2>23. CASE LoopAggregate
      BY <2>23 DEF LoopAggregate, LoopAt, LoopStops, Recomputed, notLoop
    <2>24. CASE CompleteSkipped
      BY <2>24
        DEF CompleteSkipped, LoopAt, LoopStops, CompleteIfRunning, notLoop
    <2> QED
      BY <1>1, <2>1, <2>2, <2>3, <2>4, <2>5, <2>6, <2>7, <2>8, <2>9, <2>10,
         <2>11, <2>12, <2>13, <2>14, <2>15, <2>16, <2>17, <2>18, <2>19, <2>20,
         <2>21, <2>22, <2>23, <2>24
        DEF LoopStep
  <1>2. ASSUME NEW j \in Transcodes, CommitStep(j) PROVE LockKnown'
    <2>1. CASE FinalizeRead(j)
      <3>1. UNCHANGED <<lock, stop, requeue, loop>>
        BY <2>1 DEF FinalizeRead, notTask
      <3>2. \A k \in Transcodes : task'[k].at = "aggregate" => task[k].at = "aggregate"
        <4>1. CASE TaskEnds(j)
          BY <4>1 DEF TaskEnds
        <4>2. CASE ~TaskEnds(j)
          <5>1. \E at \in {"settle", "fail-read", "stop-clean", "begin"} : TaskTo(j, at)
            BY <2>1, <4>2 DEF FinalizeRead
          <5> QED
            BY <5>1 DEF TaskTo
        <4> QED
          BY <4>1, <4>2
      <3> QED
        BY <3>1, <3>2
    <2>2. CASE Begin(j)
      BY <2>2 DEF Begin, TaskAt, TaskTo, Transitions, notTask
    <2>3. CASE ValidateOutput(j)
      BY <2>3 DEF ValidateOutput, TaskAt, TaskTo, Attempt, notTask
    <2>4. CASE BeforeFilters(j)
      BY <2>4 DEF BeforeFilters, TaskAt, TaskTo, TaskEnds, notTask
    <2>5. CASE RunFilters(j)
      BY <2>5 DEF RunFilters, TaskAt, TaskTo, notTask
    <2>6. CASE Commit(j)
      BY <2>6, CommitEffect
    <2>7. CASE Promote(j)
      BY <2>7 DEF Promote, TaskAt, TaskTo, Transitions, notTask
    <2>8. CASE Link(j)
      BY <2>8 DEF Link, TaskAt, TaskTo, Attempt, notTask
    <2>9. CASE JournalCommitted(j)
      BY <2>9 DEF JournalCommitted, TaskAt, TaskTo, Transitions, notTask
    <2>10. CASE Persist(j)
      BY <2>10 DEF Persist, TaskAt, TaskTo, notTask
    <2>11. CASE MarkReplaced(j)
      BY <2>11 DEF MarkReplaced, TaskAt, TaskTo, notTask
    <2>12. CASE Complete(j)
      BY <2>12 DEF Complete, TaskAt, TaskTo, CompleteIfRunning, notTask
    <2>13. CASE TaskRecount(j)
      BY <2>13 DEF TaskRecount, TaskAt, notTask
    <2>14. CASE TaskAggregate(j)
      BY <2>14 DEF TaskAggregate, TaskAt, Recomputed, notTask
    <2>15. CASE JournalCleaned(j)
      BY <2>15 DEF JournalCleaned, TaskAt, TaskTo, notTask
    <2>16. CASE Unlink(j)
      BY <2>16 DEF Unlink, TaskAt, TaskTo, notTask
    <2>17. CASE Unjournal(j)
      BY <2>17 DEF Unjournal, TaskAt, TaskTo, notTask
    <2>18. CASE Release(j)
      BY <2>18 DEF Release, TaskAt, TaskTo, Released, CanRelease, notTask
    <2>19. CASE EraseJournal(j)
      BY <2>19 DEF EraseJournal, TaskAt, TaskEnds, notTask
    <2>20. CASE Settle(j)
      BY <2>20 DEF Settle, TaskAt, TaskEnds, FailIfActive, notTask
    <2> QED
      BY <1>2, <2>1, <2>2, <2>3, <2>4, <2>5, <2>6, <2>7, <2>8, <2>9, <2>10,
         <2>11, <2>12, <2>13, <2>14, <2>15, <2>16, <2>17, <2>18, <2>19, <2>20
        DEF CommitStep
  <1>3. ASSUME NEW j \in Transcodes, AbortStep(j) PROVE LockKnown'
    <2>1. CASE StopCheck(j)
      BY <2>1 DEF StopCheck, TaskAt, TaskTo, TaskEnds, notTask
    <2>2. CASE StopClean(j)
      BY <2>2 DEF StopClean, TaskAt, TaskTo, notTask
    <2>3. CASE StopComplete(j)
      BY <2>3 DEF StopComplete, TaskAt, TaskTo, CompleteIfRunning, notTask
    <2>4. CASE StopRelease(j)
      BY <2>4 DEF StopRelease, TaskAt, TaskEnds, Released, notTask
    <2>5. CASE FailRead(j)
      BY <2>5 DEF FailRead, TaskAt, TaskTo, notTask
    <2>6. CASE FailClaim(j)
      BY <2>6 DEF FailClaim, TaskAt, TaskTo, Transitions, notTask
    <2>7. CASE FailWrite(j)
      BY <2>7, FailWriteEffect
    <2>8. CASE FailTask(j)
      BY <2>8 DEF FailTask, TaskAt, TaskTo, FailIfActive, notTask
    <2>9. CASE Recover(j)
      BY <2>9 DEF Recover, TaskAt, TaskTo, notTask
    <2>10. CASE ReportUnrecovered(j)
      BY <2>10 DEF ReportUnrecovered, TaskAt, TaskTo, notTask
    <2> QED
      BY <1>3, <2>1, <2>2, <2>3, <2>4, <2>5, <2>6, <2>7, <2>8, <2>9, <2>10
        DEF AbortStep
  <1>4. ASSUME NEW j \in Transcodes, LostStep(j) PROVE LockKnown'
    <2>1. CASE LostRead(j)
      BY <2>1 DEF LostRead, TaskAt, TaskTo, TaskEnds, BelongsTo, notTask
    <2>2. CASE Retire(j)
      BY <2>2
        DEF Retire, TaskAt, TaskTo, RetireOver, Transitions, Retired, Released,
            notTask
    <2>3. CASE RequeueLost(j)
      BY <2>3 DEF RequeueLost, TaskAt, TaskEnds, notTask
    <2>4. CASE RetireStopped(j)
      BY <2>4 DEF RetireStopped, TaskAt, TaskTo, Retired, Released, notTask
    <2>5. CASE FailLostJob(j)
      BY <2>5 DEF FailLostJob, TaskAt, TaskEnds, notTask
    <2> QED
      BY <1>4, <2>1, <2>2, <2>3, <2>4, <2>5 DEF LostStep
  <1>5. ASSUME NEW j \in Transcodes, Report(j) PROVE LockKnown'
    BY <1>5 DEF Report, TaskAt, notTask
  <1>6. ASSUME NEW j \in Transcodes, LoseRunner(j) PROVE LockKnown'
    BY <1>6 DEF LoseRunner, TaskAt, TaskTo, notTask
  <1>7. CASE StopRead
    BY <1>7 DEF StopRead, notUser
  <1>8. CASE StopWrite
    BY <1>8 DEF StopWrite, UserIdle, notUser
  <1>9. ASSUME NEW k \in Jobs, StopFailJob(k) PROVE LockKnown'
    BY <1>9 DEF StopFailJob, FailIfActive, UserIdle, notUser
  <1>10. CASE RequeueRead
    BY <1>10 DEF RequeueRead, Unsettled, notUser
  <1>11. ASSUME NEW k \in Jobs, RequeueFailJob(k) PROVE LockKnown'
    BY <1>11 DEF RequeueFailJob, FailIfActive, notUser
  <1>12. CASE RequeuePublish
    BY <1>12 DEF RequeuePublish, notUser
  <1>13. CASE RequeueCreate
    BY <1>13 DEF RequeueCreate, UserIdle, notUser
  <1>14. CASE (\E s \in Settings : Replace(s)) \/ Remove
    BY <1>14 DEF Replace, Remove, notUser
  <1>15. CASE UNCHANGED vars
    BY <1>15 DEF vars
  <1> QED
    BY <1>1, <1>2, <1>3, <1>4, <1>5, <1>6, <1>7, <1>8, <1>9, <1>10, <1>11,
       <1>12, <1>13, <1>14, <1>15
      DEF Next, TaskStep, StopStep, RequeueStep

\* The file has one keeper: the loop that dispatches a job, or one task.
LEMMA Alone ==
  TypeOK /\ LoopKnown /\ HandedOver /\ OwnerKnown =>
    /\ \A j \in Transcodes : task[j].at \notin FreeAt =>
          /\ file.owner = j /\ j # NoJob /\ loop.at \notin DispatchAt
          /\ \A i \in Transcodes : i # j => task[i].at \in FreeAt
    /\ loop.at \in DispatchAt =>
          /\ loop.job \in Transcodes /\ loop.job # NoJob
          /\ file.owner \in {NoJob, loop.job}
          /\ \A j \in Transcodes : task[j].at \in FreeAt
  <1> SUFFICES ASSUME TypeOK, LoopKnown, HandedOver, OwnerKnown
               PROVE  /\ \A j \in Transcodes : task[j].at \notin FreeAt =>
                            /\ file.owner = j /\ j # NoJob /\ loop.at \notin DispatchAt
                            /\ \A i \in Transcodes : i # j => task[i].at \in FreeAt
                      /\ loop.at \in DispatchAt =>
                            /\ loop.job \in Transcodes /\ loop.job # NoJob
                            /\ file.owner \in {NoJob, loop.job}
                            /\ \A j \in Transcodes : task[j].at \in FreeAt
    OBVIOUS
  <1>1. \A j \in Transcodes : task[j].at \notin FreeAt => file.owner = j /\ j # NoJob
    BY NoJobApart DEF OwnerKnown
  <1>2. loop.at \in DispatchAt => loop.job \in Transcodes /\ loop.job # NoJob
    BY NoJobApart DEF LoopKnown
  <1>3. loop.at \in DispatchAt => file.owner \in {NoJob, loop.job} /\ task[loop.job].at \in FreeAt
    BY DEF OwnerKnown, HandedOver, DispatchAt, FreeAt
  <1> QED
    BY <1>1, <1>2, <1>3

\* Each procedure keeps the ownership and the phase its position stands for.
LEMMA OwnerKept ==
  TypeOK /\ LoopKnown /\ LockKnown /\ HandedOver /\ ProbeKnown /\ OwnerKnown /\ NoReturn /\ [Next]_vars
    => OwnerKnown'
  <1> SUFFICES ASSUME TypeOK, LoopKnown, LockKnown, HandedOver, ProbeKnown,
                      OwnerKnown, NoReturn, [Next]_vars
               PROVE  OwnerKnown'
    OBVIOUS
  <1>a. \A j \in Transcodes : task[j].at \notin FreeAt =>
           /\ file.owner = j /\ j # NoJob /\ loop.at \notin DispatchAt
           /\ \A i \in Transcodes : i # j => task[i].at \in FreeAt
    BY Alone
  <1>b. loop.at \in DispatchAt =>
           /\ loop.job \in Transcodes /\ loop.job # NoJob
           /\ file.owner \in {NoJob, loop.job}
           /\ \A j \in Transcodes : task[j].at \in FreeAt
    BY Alone
  <1> USE DEF TypeOK, Files, OwnerKnown, NoTask, LoopIdle, UnownedAt, ClaimedAt,
        FreeAt, FinishAt
  <1>1. CASE LoopStep
    <2>1. ASSUME NEW g \in Gens, TakeProbe(g) PROVE OwnerKnown'
      BY <2>1 DEF TakeProbe, LoopAt, notLoop
    <2>2. CASE ProbeClaim
      BY <2>2 DEF ProbeClaim, LoopAt, LoopTo, notLoop
    <2>3. CASE ProbeQueued
      BY <2>3, ProbeQueuedEffect DEF OwnsProbe
    <2>4. CASE ProbeFailed
      BY <2>4 DEF ProbeFailed, LoopAt, LoopTo, OwnsProbe, notLoop
    <2>5. CASE ProbeNoMatch
      BY <2>5 DEF ProbeNoMatch, LoopAt, LoopTo, OwnsProbe, notLoop
    <2>6. CASE ProbeCheck
      BY <2>6, ProbeCheckEffect DEF OwnsProbe
    <2>7. CASE ProbeEnqueue
      BY <2>7 DEF ProbeEnqueue, LoopAt, notLoop
    <2>8. CASE ProbePublish
      BY <2>8 DEF ProbePublish, LoopAt, LoopTo, OwnsProbe, notLoop
    <2>9. CASE ProbeFence
      BY <2>9 DEF ProbeFence, LoopAt, LoopTo, notLoop
    <2>10. CASE ProbeDone
      BY <2>10 DEF ProbeDone, LoopAt, LoopStops, CompleteIfRunning, notLoop
    <2>11. ASSUME NEW j \in Transcodes, TakeTranscode(j) PROVE OwnerKnown'
      BY <2>11 DEF TakeTranscode, LoopAt, notLoop
    <2>12. CASE PrepareRead
      BY <2>12 DEF PrepareRead, LoopAt, LoopTo, Unpreparable, notLoop
    <2>13. CASE RecordCollision
      BY <2>13 DEF RecordCollision, LoopAt, LoopTo, notLoop
    <2>14. CASE ClaimFile
      <3>1. /\ \A j \in Transcodes : task[j].at \in FreeAt
            /\ task' = task
        BY <2>14, <1>b DEF ClaimFile, LoopAt, DispatchAt, notLoop
      <3>2. CASE file.owner = NoJob /\ file.status \notin Unpreparable
        <4>1. file'.owner = loop.job /\ file'.phase = "processing"
          BY <2>14, <3>2 DEF ClaimFile, Claimed
        <4>2. loop'.at = "patch" /\ loop'.job = loop.job
          BY <2>14, <3>2 DEF ClaimFile, LoopTo
        <4> QED
          BY <3>1, <4>1, <4>2
      <3>3. CASE ~(file.owner = NoJob /\ file.status \notin Unpreparable)
        BY <2>14, <3>1, <3>3, <1>b DEF ClaimFile, LoopAt, LoopTo
      <3> QED
        BY <3>2, <3>3
    <2>15. CASE PatchJob
      BY <2>15 DEF PatchJob, LoopAt, LoopTo, notLoop
    <2>16. CASE RollBackClaim
      BY <2>16, <1>b
        DEF RollBackClaim, LoopAt, LoopTo, Released, notLoop, DispatchAt
    <2>17. CASE ValidatePrepared
      BY <2>17
        DEF ValidatePrepared, LoopAt, LoopTo, PreparedTaskMatches, notLoop
    <2>18. CASE Assign
      BY <2>18 DEF Assign, LoopAt, LoopStops, notLoop
    <2>19. CASE NoRunnerLeft
      BY <2>19 DEF NoRunnerLeft, LoopAt, LoopTo, notLoop
    <2>20. CASE Reset
      BY <2>20, <1>b
        DEF Reset, LoopAt, LoopTo, LoopStops, Released, notLoop, DispatchAt
    <2>21. CASE FailJob
      BY <2>21 DEF FailJob, LoopAt, LoopTo, FailIfActive, notLoop
    <2>22. CASE LoopRecount
      BY <2>22 DEF LoopRecount, LoopAt, notLoop
    <2>23. CASE LoopAggregate
      BY <2>23 DEF LoopAggregate, LoopAt, LoopStops, Recomputed, notLoop
    <2>24. CASE CompleteSkipped
      BY <2>24
        DEF CompleteSkipped, LoopAt, LoopStops, CompleteIfRunning, notLoop
    <2> QED
      BY <1>1, <2>1, <2>2, <2>3, <2>4, <2>5, <2>6, <2>7, <2>8, <2>9, <2>10,
         <2>11, <2>12, <2>13, <2>14, <2>15, <2>16, <2>17, <2>18, <2>19, <2>20,
         <2>21, <2>22, <2>23, <2>24
        DEF LoopStep
  <1>2. ASSUME NEW j \in Transcodes, CommitStep(j) PROVE OwnerKnown'
    <2>1. CASE FinalizeRead(j)
      BY <2>1, <1>a DEF FinalizeRead, TaskAt, TaskTo, TaskEnds, notTask
    <2>2. CASE Begin(j)
      BY <2>2, <1>a
        DEF Begin, TaskAt, TaskTo, Transitions, notTask, DispatchAt, NoReturn,
            Stopped
    <2>3. CASE ValidateOutput(j)
      BY <2>3, <1>a DEF ValidateOutput, TaskAt, TaskTo, Attempt, notTask
    <2>4. CASE BeforeFilters(j)
      BY <2>4, <1>a
        DEF BeforeFilters, TaskAt, TaskTo, TaskEnds, notTask, DispatchAt,
            NoReturn, Stopped
    <2>5. CASE RunFilters(j)
      BY <2>5, <1>a DEF RunFilters, TaskAt, TaskTo, notTask
    <2>6. CASE Commit(j)
      <3>1. /\ loop' = loop /\ file'.owner = file.owner /\ loop.at \notin DispatchAt
            /\ \A i \in Transcodes : i # j => task[i].at \in FreeAt /\ task'[i] = task[i]
            /\ file.owner = j
        BY <2>6, CommitEffect, <1>a
      <3>2. CASE task'[j].at = "stop-check" /\ file' = file
        <4>1. file.phase # "committing"
          BY <2>6, CommitEffect, <3>1, <3>2 DEF NoReturn
        <4> QED
          BY <3>1, <3>2, <4>1 DEF DispatchAt
      <3>3. CASE file'.phase = "committing" /\ task'[j].at \in {"link", "promote", "persist"}
        BY <3>1, <3>3 DEF DispatchAt
      <3> QED
        BY <2>6, <3>2, <3>3, CommitEffect
    <2>7. CASE Promote(j)
      BY <2>7, <1>a
        DEF Promote, TaskAt, TaskTo, Transitions, notTask, DispatchAt,
            NoReturn, Stopped
    <2>8. CASE Link(j)
      BY <2>8, <1>a DEF Link, TaskAt, TaskTo, Attempt, notTask
    <2>9. CASE JournalCommitted(j)
      BY <2>9, <1>a DEF JournalCommitted, TaskAt, TaskTo, Transitions, notTask
    <2>10. CASE Persist(j)
      BY <2>10, <1>a DEF Persist, TaskAt, TaskTo, notTask
    <2>11. CASE MarkReplaced(j)
      BY <2>11, <1>a DEF MarkReplaced, TaskAt, TaskTo, notTask
    <2>12. CASE Complete(j)
      BY <2>12, <1>a DEF Complete, TaskAt, TaskTo, CompleteIfRunning, notTask
    <2>13. CASE TaskRecount(j)
      BY <2>13, <1>a DEF TaskRecount, TaskAt, notTask
    <2>14. CASE TaskAggregate(j)
      BY <2>14, <1>a DEF TaskAggregate, TaskAt, Recomputed, notTask
    <2>15. CASE JournalCleaned(j)
      BY <2>15, <1>a DEF JournalCleaned, TaskAt, TaskTo, notTask
    <2>16. CASE Unlink(j)
      <3>1. UNCHANGED <<file, loop>> /\ task[j].at = "unlink"
        BY <2>16 DEF Unlink, TaskAt, notTask
      <3>2. \E t : task' = [task EXCEPT ![j] = t] /\ t.at \in {"release", "unjournal"}
        BY <2>16 DEF Unlink, TaskTo
      <3> QED
        BY <3>1, <3>2, <1>a
    <2>17. CASE Unjournal(j)
      BY <2>17, <1>a DEF Unjournal, TaskAt, TaskTo, notTask
    <2>18. CASE Release(j)
      BY <2>18, <1>a
        DEF Release, TaskAt, TaskTo, Released, CanRelease, notTask, DispatchAt
    <2>19. CASE EraseJournal(j)
      BY <2>19, <1>a DEF EraseJournal, TaskAt, TaskEnds, notTask
    <2>20. CASE Settle(j)
      BY <2>20, <1>a DEF Settle, TaskAt, TaskEnds, FailIfActive, notTask
    <2> QED
      BY <1>2, <2>1, <2>2, <2>3, <2>4, <2>5, <2>6, <2>7, <2>8, <2>9, <2>10,
         <2>11, <2>12, <2>13, <2>14, <2>15, <2>16, <2>17, <2>18, <2>19, <2>20
        DEF CommitStep
  <1>3. ASSUME NEW j \in Transcodes, AbortStep(j) PROVE OwnerKnown'
    <2>1. CASE StopCheck(j)
      BY <2>1, <1>a DEF StopCheck, TaskAt, TaskTo, TaskEnds, notTask
    <2>2. CASE StopClean(j)
      BY <2>2, <1>a DEF StopClean, TaskAt, TaskTo, notTask
    <2>3. CASE StopComplete(j)
      BY <2>3, <1>a
        DEF StopComplete, TaskAt, TaskTo, CompleteIfRunning, notTask
    <2>4. CASE StopRelease(j)
      BY <2>4, <1>a
        DEF StopRelease, TaskAt, TaskEnds, Released, notTask, DispatchAt
    <2>5. CASE FailRead(j)
      BY <2>5, <1>a
        DEF FailRead, TaskAt, TaskTo, notTask, DispatchAt, NoReturn, Stopped
    <2>6. CASE FailClaim(j)
      BY <2>6, <1>a
        DEF FailClaim, TaskAt, TaskTo, Transitions, notTask, DispatchAt,
            NoReturn, Stopped
    <2>7. CASE FailWrite(j)
      <3>1. /\ loop.at \notin DispatchAt /\ file.owner = j /\ file.phase = "committing"
            /\ \A i \in Transcodes : i # j => task[i].at \in FreeAt
        BY <2>7, FailWriteEffect, <1>a
      <3>2. /\ loop' = loop /\ file'.owner = file.owner /\ file'.phase = file.phase
            /\ \A i \in Transcodes : i # j => task'[i] = task[i]
            /\ task'[j].at \in {"settle", "fail-job"}
        BY <2>7, FailWriteEffect
      <3> QED
        BY <3>1, <3>2 DEF DispatchAt
    <2>8. CASE FailTask(j)
      BY <2>8, <1>a DEF FailTask, TaskAt, TaskTo, FailIfActive, notTask
    <2>9. CASE Recover(j)
      BY <2>9, <1>a DEF Recover, TaskAt, TaskTo, notTask
    <2>10. CASE ReportUnrecovered(j)
      BY <2>10, <1>a DEF ReportUnrecovered, TaskAt, TaskTo, notTask
    <2> QED
      BY <1>3, <2>1, <2>2, <2>3, <2>4, <2>5, <2>6, <2>7, <2>8, <2>9, <2>10
        DEF AbortStep
  <1>4. ASSUME NEW j \in Transcodes, LostStep(j) PROVE OwnerKnown'
    <2>1. CASE LostRead(j)
      BY <2>1, <1>a DEF LostRead, TaskAt, TaskTo, TaskEnds, BelongsTo, notTask
    <2>2. CASE Retire(j)
      BY <2>2, <1>a
        DEF Retire, TaskAt, TaskTo, RetireOver, Transitions, Retired, Released,
            notTask, DispatchAt
    <2>3. CASE RequeueLost(j)
      BY <2>3, <1>a DEF RequeueLost, TaskAt, TaskEnds, notTask
    <2>4. CASE RetireStopped(j)
      BY <2>4, <1>a
        DEF RetireStopped, TaskAt, TaskTo, Retired, Released, notTask,
            DispatchAt
    <2>5. CASE FailLostJob(j)
      BY <2>5, <1>a DEF FailLostJob, TaskAt, TaskEnds, notTask
    <2> QED
      BY <1>4, <2>1, <2>2, <2>3, <2>4, <2>5 DEF LostStep
  <1>5. ASSUME NEW j \in Transcodes, Report(j) PROVE OwnerKnown'
    BY <1>5, <1>a DEF Report, TaskAt, notTask
  <1>6. ASSUME NEW j \in Transcodes, LoseRunner(j) PROVE OwnerKnown'
    BY <1>6, <1>a DEF LoseRunner, TaskAt, TaskTo, notTask
  <1>7. CASE StopWrite
    BY <1>7 DEF StopWrite, UserIdle, notUser
  <1>8. CASE RequeuePublish
    BY <1>8, <1>a, <1>b DEF RequeuePublish, notUser, DispatchAt, ProbeKnown
  <1>9. CASE RequeueCreate
    BY <1>9 DEF RequeueCreate, UserIdle, notUser
  <1>10. ASSUME NEW s \in Settings, Replace(s) PROVE OwnerKnown'
    BY <1>10 DEF Replace, Unsettled, notUser
  <1>11. CASE Remove
    BY <1>11 DEF Remove, Unsettled, notUser
  <1>12. CASE StopRead \/ (\E k \in Jobs : StopFailJob(k)) \/ RequeueRead \/
              (\E k \in Jobs : RequeueFailJob(k))
    BY <1>12 DEF StopRead, StopFailJob, RequeueRead, RequeueFailJob, notUser
  <1>13. CASE UNCHANGED vars
    BY <1>13 DEF vars
  <1> QED
    BY <1>1, <1>2, <1>3, <1>4, <1>5, <1>6, <1>7, <1>8, <1>9, <1>10, <1>11,
       <1>12, <1>13
      DEF Next, TaskStep, StopStep, RequeueStep

-----------------------------------------------------------------------------
\* What a step may do to a job, to the loop and to a task at rest.
JobMoves(j) ==
    \/ job'[j] = job[j]
    \/ Active(j) /\ job'[j] \in {"done", "failed"}
    \/ /\ job[j] = "pending" /\ job'[j] = "running"
       /\ loop.at = "idle" /\ loop'.job = j /\ loop'.at \in {"probe-claim", "read"}
    \/ /\ job[j] = "running" /\ job'[j] = "pending"
       /\ loop.at = "reset" /\ loop.job = j /\ loop' = LoopIdle
    \/ /\ job[j] = "running" /\ job'[j] = "pending"
       /\ j \in Transcodes /\ task[j].at = "requeue" /\ task'[j] = NoTask
    \/ /\ loop.at = "probe-enqueue" /\ j = <<Gen(loop.job), loop.next>>
       /\ job'[j] = "pending" /\ loop'.at \in {"probe-check", "probe-publish"}
       /\ loop'.left = loop.left
    \/ /\ requeue.at = "create" /\ j = ProbeJob(gen)
       /\ job'[j] = "pending" /\ requeue'.at = "idle" /\ loop' = loop

LoopMoves ==
    \/ loop' = loop
    \/ loop' = LoopIdle
    \/ /\ loop.at \in ProbeAt /\ loop'.at \in ProbeAt /\ loop'.job = loop.job
       /\ loop'.at # "probe-claim" /\ loop'.left \subseteq Settings
       /\ loop'.at \in {"probe-media", "probe-nomatch"} =>
             loop.at \in {"probe-claim", "probe-media"}
       /\ loop'.at = "probe-check" =>
             loop.at \in {"probe-media", "probe-enqueue"}
       /\ loop'.at = "probe-enqueue" =>
             /\ loop.at = "probe-check" /\ loop'.next \in loop.left
             /\ loop'.left = loop.left \ {loop'.next}
       /\ loop.at = "probe-enqueue" => loop'.left = loop.left
       /\ loop.at # "probe-enqueue" => job' = job \/ loop.at = "probe-fence"
    \/ /\ loop.at \in DispatchAt /\ loop'.at \in DispatchAt \ {"read"}
       /\ loop'.job = loop.job
    \/ /\ loop.at = "idle" /\ loop'.at \in {"probe-claim", "read"}
       /\ loop'.left = {}
       /\ job[loop'.job] = "pending" /\ job'[loop'.job] = "running"
       /\ loop'.job \in Jobs
       /\ loop'.at = "read" => loop'.job \in Transcodes
       /\ loop'.at = "probe-claim" => \E g \in Gens : loop'.job = ProbeJob(g)

TaskMoves(j) ==
    \/ task'[j] = task[j]
    \/ task[j].at # "none"
    \/ /\ loop.at = "assign" /\ loop.job = j /\ loop' = LoopIdle /\ job' = job
       /\ task'[j].at = "exec"

AssignMoves ==
    loop'.at = "assign" =>
       loop' = loop \/ (loop.at = "validate" /\ loop'.job = loop.job /\ PreparedTaskMatches)

OwnerMoves ==
    \/ file'.owner \in {file.owner, NoJob}
    \/ /\ loop.at = "claim" /\ loop'.at = "patch" /\ file'.owner = loop.job
       /\ file.owner = NoJob /\ file.status \notin Unpreparable
       /\ file' = Claimed(file, loop.job)

PendingMoves ==
    file'.status = "pending" => file.status = "pending" \/ gen' = gen + 1

\* The results of a file are written at its preparation, by its owner, and by
\* the user's replace; a removal and a requeue drop them.
ResultMoves(s) ==
    \/ file'.results[s] \in {file.results[s], "none"}
    \/ /\ loop.at = "collide" /\ Setting(loop.job) = s
       /\ loop'.at = "reset-error" /\ loop'.job = loop.job
       /\ file'.results[s] = "failed" /\ file'.status = "failed" /\ job' = job
    \/ /\ file.owner \in Transcodes /\ Setting(file.owner) = s
       /\ task[file.owner].at \in {"persist", "fail-write"}
       /\ task'[file.owner].at \in {"mark", "complete", "fail-job"}
       /\ file'.results[s] = task'[file.owner].res
    \/ file.owner = NoJob /\ file.results[s] = "done" /\ file'.results[s] = "replaced"

ProbingMoves ==
    loop'.at \in ProbingAt =>
       loop.at \in ProbingAt \/ (loop.at = "probe-claim" /\ file.status = "pending")

FailMoves ==
    loop.at \in {"reset-error", "fail"} =>
       \/ loop'.job = loop.job /\ loop'.at \in {"reset-error", "fail"}
       \/ job'[loop.job] \notin {"pending", "running"}

RecountMoves == loop'.at = "aggregate" => loop' = loop \/ LoopRecount

\* How the loop leaves a job, comes to a claim and to a reset.
LoopEnds ==
    /\ loop.at # "idle" /\ loop'.at = "idle" =>
          \/ job'[loop.job] # "running"
          \/ loop.at \in {"recount", "aggregate"}
          \/ loop.at = "assign" /\ task'[loop.job].at = "exec"
          \/ /\ loop.at = "reset" /\ file.owner = NoJob
             /\ file.status \notin {"stopped", "missing"}
    /\ loop'.at \in {"recount", "aggregate"} =>
          /\ loop'.job = loop.job
          /\ loop.at \in {"recount", "aggregate"} \/ job'[loop.job] \notin {"pending", "running"}

ClaimMoves ==
    loop'.at = "claim" =>
       \/ file'.status # "replaced"
       \/ loop.at = "claim" /\ loop'.job = loop.job /\ file.status = "replaced"
       \/ loop'.job \in overtaken'

ResetMoves ==
    loop'.at = "reset" /\ file'.owner = NoJob =>
       /\ loop'.job = loop.job
       /\ \/ /\ loop.at = "reset" /\ file.owner = NoJob
             /\ \/ requeue.at = "fail" /\ requeue.jobs = {}
                \/ loop.job \in overtaken'
                \/ file.status \in {"stopped", "missing"} =>
                      file'.status \in {"stopped", "missing"}
          \/ /\ loop.at = "claim" /\ file.status \in Unpreparable
             /\ file'.status = file.status

QuenchedMoves == Quenched /\ gen' = gen => Quenched' \/ stop.jobs \subseteq overtaken'

\* How a stop comes by the jobs that it fails.
StopMoves ==
    /\ stop'.at = "write" =>
          stop' = stop \/ (file' = file /\ file.owner \notin stop'.jobs)
    /\ \A j \in stop'.jobs \intersect Transcodes : j \in stop.jobs \/ job[j] # "none"
    /\ stop'.at = "fail" =>
          \/ stop.at = "fail" /\ stop'.jobs \subseteq stop.jobs
          \/ StopWrite /\ stop.at = "write" /\ stop'.jobs = stop.jobs

\* A job moves only in these ways.
LEMMA JobsMove ==
  TypeOK /\ LoopKnown /\ OwnerKnown /\ [Next]_vars
    => (\A i \in Jobs : JobMoves(i))
  <1> SUFFICES ASSUME TypeOK, LoopKnown, OwnerKnown, [Next]_vars
               PROVE  (\A i \in Jobs : JobMoves(i))
    OBVIOUS
  <1> USE DEF TypeOK, JobMoves, Active, NoTask, LoopIdle, UnownedAt
  <1>1. CASE LoopStep
    <2>1. ASSUME NEW g \in Gens, TakeProbe(g) PROVE (\A i \in Jobs : JobMoves(i))
      BY <2>1 DEF TakeProbe, LoopAt, notLoop
    <2>2. CASE ProbeEnqueue
      BY <2>2 DEF ProbeEnqueue, LoopAt, notLoop
    <2>3. CASE ProbeFence
      BY <2>3 DEF ProbeFence, LoopAt, LoopTo, notLoop, ActiveTranscodes
    <2>4. CASE ProbeDone
      BY <2>4 DEF ProbeDone, LoopAt, LoopStops, CompleteIfRunning, notLoop
    <2>5. ASSUME NEW j \in Transcodes, TakeTranscode(j) PROVE (\A i \in Jobs : JobMoves(i))
      BY <2>5 DEF TakeTranscode, LoopAt, notLoop
    <2>6. CASE Reset
      <3>1. CASE loop.at = "reset-error" \/ job[loop.job] # "running" \/ file.owner # loop.job
        <4>1. loop.at = "reset-error" => file.owner # loop.job
          BY NoJobApart DEF UnownedAt, DispatchAt, OwnerKnown, LoopKnown
        <4>2. job'[loop.job] \in {job[loop.job], "failed"} /\ loop.job \in Jobs
              /\ (job'[loop.job] # job[loop.job] => job[loop.job] = "running")
          BY <2>6, <3>1, <4>1, JobGens DEF Reset, LoopKnown, DispatchAt
        <4> QED
          BY <2>6, <4>2 DEF Reset
      <3>2. CASE loop.at = "reset" /\ job[loop.job] = "running" /\ file.owner = loop.job
        <4>1. /\ loop' = LoopIdle /\ loop.job \in Jobs
              /\ job'[loop.job] \in {"pending", "failed"}
          BY <2>6, <3>2, JobGens DEF Reset, LoopKnown, DispatchAt, LoopStops, LoopAt
        <4> QED
          BY <2>6, <3>2, <4>1 DEF Reset
      <3> QED
        BY <2>6, <3>1, <3>2 DEF Reset
    <2>7. CASE FailJob
      BY <2>7 DEF FailJob, LoopAt, LoopTo, FailIfActive, notLoop
    <2>8. CASE CompleteSkipped
      BY <2>8
        DEF CompleteSkipped, LoopAt, LoopStops, CompleteIfRunning, notLoop
    <2>9. CASE ProbeClaim \/ ProbeQueued \/ ProbeFailed \/ ProbeNoMatch \/ ProbeCheck \/
               ProbePublish \/ PrepareRead \/ RecordCollision \/ ClaimFile \/ PatchJob \/
               RollBackClaim \/ ValidatePrepared \/ Assign \/ NoRunnerLeft \/
               LoopRecount \/ LoopAggregate
      BY <2>9
        DEF ProbeClaim, ProbeQueued, ProbeFailed, ProbeNoMatch, ProbeCheck,
            ProbePublish, PrepareRead, RecordCollision, ClaimFile, PatchJob,
            RollBackClaim, ValidatePrepared, Assign, NoRunnerLeft, LoopRecount,
            LoopAggregate, notLoop
    <2> QED
      BY <1>1, <2>1, <2>2, <2>3, <2>4, <2>5, <2>6, <2>7, <2>8, <2>9
        DEF LoopStep
  <1>2. ASSUME NEW j \in Transcodes, CommitStep(j) PROVE (\A i \in Jobs : JobMoves(i))
    <2>1. CASE Complete(j)
      BY <2>1 DEF Complete, TaskAt, TaskTo, CompleteIfRunning, notTask
    <2>2. CASE Settle(j)
      BY <2>2 DEF Settle, TaskAt, TaskEnds, FailIfActive, notTask
    <2>3. CASE FinalizeRead(j) \/ Begin(j) \/ ValidateOutput(j) \/ BeforeFilters(j) \/
               RunFilters(j) \/ Commit(j) \/ Promote(j) \/ Link(j) \/
               JournalCommitted(j) \/ Persist(j) \/ MarkReplaced(j) \/
               TaskRecount(j) \/ TaskAggregate(j) \/ JournalCleaned(j) \/ Unlink(j) \/
               Unjournal(j) \/ Release(j) \/ EraseJournal(j)
      BY <2>3
        DEF FinalizeRead, Begin, ValidateOutput, Attempt, BeforeFilters,
            RunFilters, Commit, Promote, Link, JournalCommitted, Persist,
            MarkReplaced, TaskRecount, TaskAggregate, JournalCleaned, Unlink,
            Unjournal, Release, EraseJournal, notTask
    <2> QED
      BY <1>2, <2>1, <2>2, <2>3 DEF CommitStep
  <1>3. ASSUME NEW j \in Transcodes, AbortStep(j) PROVE (\A i \in Jobs : JobMoves(i))
    <2>1. CASE StopComplete(j)
      BY <2>1 DEF StopComplete, TaskAt, TaskTo, CompleteIfRunning, notTask
    <2>2. CASE FailTask(j)
      BY <2>2 DEF FailTask, TaskAt, TaskTo, FailIfActive, notTask
    <2>3. CASE StopCheck(j) \/ StopClean(j) \/ StopRelease(j) \/ FailRead(j) \/
               FailClaim(j) \/ FailWrite(j) \/ Recover(j) \/ ReportUnrecovered(j)
      BY <2>3
        DEF StopCheck, StopClean, StopRelease, FailRead, FailClaim, FailWrite,
            Recover, ReportUnrecovered, notTask
    <2> QED
      BY <1>3, <2>1, <2>2, <2>3 DEF AbortStep
  <1>4. ASSUME NEW j \in Transcodes, LostStep(j) PROVE (\A i \in Jobs : JobMoves(i))
    <2>1. CASE RequeueLost(j)
      BY <2>1 DEF RequeueLost, TaskAt, TaskEnds, notTask
    <2>2. CASE FailLostJob(j)
      BY <2>2 DEF FailLostJob, TaskAt, TaskEnds, notTask
    <2>3. CASE LostRead(j) \/ Retire(j) \/ RetireStopped(j)
      BY <2>3 DEF LostRead, Retire, RetireOver, RetireStopped, notTask
    <2> QED
      BY <1>4, <2>1, <2>2, <2>3 DEF LostStep
  <1>5. CASE (\E j \in Transcodes : Report(j)) \/
             (\E j \in Transcodes : LoseRunner(j))
    BY <1>5 DEF Report, LoseRunner, notTask
  <1>6. ASSUME NEW k \in Jobs, StopFailJob(k) PROVE (\A i \in Jobs : JobMoves(i))
    BY <1>6 DEF StopFailJob, FailIfActive, UserIdle, notUser
  <1>7. ASSUME NEW k \in Jobs, RequeueFailJob(k) PROVE (\A i \in Jobs : JobMoves(i))
    BY <1>7 DEF RequeueFailJob, FailIfActive, notUser
  <1>8. CASE RequeueCreate
    BY <1>8 DEF RequeueCreate, UserIdle, notUser
  <1>9. CASE StopRead \/ StopWrite \/ RequeueRead \/ RequeuePublish \/
             (\E s \in Settings : Replace(s)) \/ Remove
    BY <1>9
      DEF StopRead, StopWrite, RequeueRead, RequeuePublish, Replace, Remove,
          notUser
  <1>10. CASE UNCHANGED vars
    BY <1>10 DEF vars
  <1> QED
    BY <1>1, <1>2, <1>3, <1>4, <1>5, <1>6, <1>7, <1>8, <1>9, <1>10
      DEF Next, TaskStep, StopStep, RequeueStep

\* The loop moves only in these ways.
LEMMA LoopMove == TypeOK /\ LoopKnown /\ [Next]_vars => LoopMoves
  <1> SUFFICES ASSUME TypeOK, LoopKnown, [Next]_vars PROVE LoopMoves
    OBVIOUS
  <1> USE DEF TypeOK, LoopMoves, LoopIdle, ProbeAt, DispatchAt, UnownedAt, ClaimedAt
  <1>1. CASE LoopStep
    <2>1. ASSUME NEW g \in Gens, TakeProbe(g) PROVE LoopMoves
      BY <2>1, ProbeJobs DEF TakeProbe, LoopAt, notLoop
    <2>2. CASE ProbeClaim
      BY <2>2 DEF ProbeClaim, LoopAt, LoopTo, notLoop
    <2>3. CASE ProbeQueued
      BY <2>3, ProbeQueuedEffect DEF OwnsProbe
    <2>4. CASE ProbeFailed
      BY <2>4 DEF ProbeFailed, LoopAt, LoopTo, OwnsProbe, notLoop
    <2>5. CASE ProbeNoMatch
      BY <2>5 DEF ProbeNoMatch, LoopAt, LoopTo, OwnsProbe, notLoop
    <2>6. CASE ProbeCheck
      BY <2>6, ProbeCheckEffect DEF OwnsProbe
    <2>7. CASE ProbeEnqueue
      BY <2>7 DEF ProbeEnqueue, LoopAt, notLoop
    <2>8. CASE ProbePublish
      BY <2>8 DEF ProbePublish, LoopAt, LoopTo, OwnsProbe, notLoop
    <2>9. CASE ProbeFence
      BY <2>9 DEF ProbeFence, LoopAt, LoopTo, notLoop
    <2>10. CASE ProbeDone
      BY <2>10 DEF ProbeDone, LoopAt, LoopStops, CompleteIfRunning, notLoop
    <2>11. ASSUME NEW j \in Transcodes, TakeTranscode(j) PROVE LoopMoves
      BY <2>11, JobGens DEF TakeTranscode, LoopAt, notLoop
    <2>12. CASE PrepareRead
      BY <2>12 DEF PrepareRead, LoopAt, LoopTo, Unpreparable, notLoop
    <2>13. CASE RecordCollision
      BY <2>13 DEF RecordCollision, LoopAt, LoopTo, notLoop
    <2>14. CASE ClaimFile
      BY <2>14 DEF ClaimFile, LoopAt, LoopTo, Claimed, Unpreparable, notLoop
    <2>15. CASE PatchJob
      BY <2>15 DEF PatchJob, LoopAt, LoopTo, notLoop
    <2>16. CASE RollBackClaim
      BY <2>16 DEF RollBackClaim, LoopAt, LoopTo, Released, notLoop
    <2>17. CASE ValidatePrepared
      BY <2>17
        DEF ValidatePrepared, LoopAt, LoopTo, PreparedTaskMatches, notLoop
    <2>18. CASE Assign
      BY <2>18 DEF Assign, LoopAt, LoopStops, notLoop
    <2>19. CASE NoRunnerLeft
      BY <2>19 DEF NoRunnerLeft, LoopAt, LoopTo, notLoop
    <2>20. CASE Reset
      BY <2>20 DEF Reset, LoopAt, LoopTo, LoopStops, Released, notLoop
    <2>21. CASE FailJob
      BY <2>21 DEF FailJob, LoopAt, LoopTo, FailIfActive, notLoop
    <2>22. CASE LoopRecount
      BY <2>22 DEF LoopRecount, LoopAt, notLoop
    <2>23. CASE LoopAggregate
      BY <2>23 DEF LoopAggregate, LoopAt, LoopStops, Recomputed, notLoop
    <2>24. CASE CompleteSkipped
      BY <2>24
        DEF CompleteSkipped, LoopAt, LoopStops, CompleteIfRunning, notLoop
    <2> QED
      BY <1>1, <2>1, <2>2, <2>3, <2>4, <2>5, <2>6, <2>7, <2>8, <2>9, <2>10,
         <2>11, <2>12, <2>13, <2>14, <2>15, <2>16, <2>17, <2>18, <2>19, <2>20,
         <2>21, <2>22, <2>23, <2>24
        DEF LoopStep
  <1>2. ASSUME NEW j \in Transcodes, CommitStep(j) PROVE LoopMoves
    BY <1>2
      DEF CommitStep, FinalizeRead, Begin, ValidateOutput, BeforeFilters,
          RunFilters, Commit, Promote, Link, JournalCommitted, Persist,
          MarkReplaced, Complete, TaskRecount, TaskAggregate, JournalCleaned,
          Unlink, Unjournal, Release, EraseJournal, Settle, Attempt, notTask
  <1>3. ASSUME NEW j \in Transcodes, AbortStep(j) PROVE LoopMoves
    BY <1>3
      DEF AbortStep, StopCheck, StopClean, StopComplete, StopRelease, FailRead,
          FailClaim, FailWrite, FailTask, Recover, ReportUnrecovered, notTask
  <1>4. ASSUME NEW j \in Transcodes, LostStep(j) PROVE LoopMoves
    BY <1>4
      DEF LostStep, LostRead, Retire, RequeueLost, RetireStopped, FailLostJob,
          RetireOver, notTask
  <1>5. CASE (\E j \in Transcodes : Report(j)) \/
             (\E j \in Transcodes : LoseRunner(j))
    BY <1>5 DEF Report, LoseRunner, notTask
  <1>6. CASE StopRead \/ StopWrite \/ (\E k \in Jobs : StopFailJob(k)) \/
             RequeueRead \/ (\E k \in Jobs : RequeueFailJob(k)) \/ RequeuePublish \/
             RequeueCreate \/ (\E s \in Settings : Replace(s)) \/ Remove
    BY <1>6
      DEF StopRead, StopWrite, StopFailJob, RequeueRead, RequeueFailJob,
          RequeuePublish, RequeueCreate, Replace, Remove, notUser
  <1>7. CASE UNCHANGED vars
    BY <1>7 DEF vars
  <1> QED
    BY <1>1, <1>2, <1>3, <1>4, <1>5, <1>6, <1>7
      DEF Next, TaskStep, StopStep, RequeueStep

\* A task at rest is started by the loop only.
LEMMA TasksMove ==
  TypeOK /\ LoopKnown /\ [Next]_vars
    => (\A i \in Transcodes : TaskMoves(i))
  <1> SUFFICES ASSUME TypeOK, LoopKnown, [Next]_vars
               PROVE  (\A i \in Transcodes : TaskMoves(i))
    OBVIOUS
  <1> USE DEF TypeOK, TaskMoves, LoopIdle, NoTask
  <1>1. CASE LoopStep
    <2>1. CASE Assign
      BY <2>1 DEF Assign, LoopAt, LoopStops, notLoop
    <2>2. CASE (\E g \in Gens : TakeProbe(g)) \/ ProbeClaim \/ ProbeQueued \/
               ProbeFailed \/ ProbeNoMatch \/ ProbeCheck \/ ProbeEnqueue \/
               ProbePublish \/ ProbeFence \/ ProbeDone \/
               (\E j \in Transcodes : TakeTranscode(j)) \/ PrepareRead \/
               RecordCollision \/ ClaimFile \/ PatchJob \/ RollBackClaim \/
               ValidatePrepared \/ NoRunnerLeft \/ Reset \/ FailJob \/ LoopRecount \/
               LoopAggregate \/ CompleteSkipped
      BY <2>2
        DEF TakeProbe, ProbeClaim, ProbeQueued, ProbeFailed, ProbeNoMatch,
            ProbeCheck, ProbeEnqueue, ProbePublish, ProbeFence, ProbeDone,
            TakeTranscode, PrepareRead, RecordCollision, ClaimFile, PatchJob,
            RollBackClaim, ValidatePrepared, NoRunnerLeft, Reset, FailJob,
            LoopRecount, LoopAggregate, CompleteSkipped, notLoop
    <2> QED
      BY <1>1, <2>1, <2>2 DEF LoopStep
  <1>2. ASSUME NEW j \in Transcodes, CommitStep(j) PROVE (\A i \in Transcodes : TaskMoves(i))
    <2>1. CASE FinalizeRead(j)
      BY <2>1 DEF FinalizeRead, TaskAt, TaskTo, TaskEnds, notTask
    <2>2. CASE Begin(j)
      BY <2>2 DEF Begin, TaskAt, TaskTo, Transitions, notTask
    <2>3. CASE ValidateOutput(j)
      BY <2>3 DEF ValidateOutput, TaskAt, TaskTo, Attempt, notTask
    <2>4. CASE BeforeFilters(j)
      BY <2>4 DEF BeforeFilters, TaskAt, TaskTo, TaskEnds, notTask
    <2>5. CASE RunFilters(j)
      BY <2>5 DEF RunFilters, TaskAt, TaskTo, notTask
    <2>6. CASE Commit(j)
      BY <2>6, CommitEffect
    <2>7. CASE Promote(j)
      BY <2>7 DEF Promote, TaskAt, TaskTo, Transitions, notTask
    <2>8. CASE Link(j)
      BY <2>8 DEF Link, TaskAt, TaskTo, Attempt, notTask
    <2>9. CASE JournalCommitted(j)
      BY <2>9 DEF JournalCommitted, TaskAt, TaskTo, Transitions, notTask
    <2>10. CASE Persist(j)
      BY <2>10 DEF Persist, TaskAt, TaskTo, notTask
    <2>11. CASE MarkReplaced(j)
      BY <2>11 DEF MarkReplaced, TaskAt, TaskTo, notTask
    <2>12. CASE Complete(j)
      BY <2>12 DEF Complete, TaskAt, TaskTo, CompleteIfRunning, notTask
    <2>13. CASE TaskRecount(j)
      BY <2>13 DEF TaskRecount, TaskAt, notTask
    <2>14. CASE TaskAggregate(j)
      BY <2>14 DEF TaskAggregate, TaskAt, Recomputed, notTask
    <2>15. CASE JournalCleaned(j)
      BY <2>15 DEF JournalCleaned, TaskAt, TaskTo, notTask
    <2>16. CASE Unlink(j)
      BY <2>16 DEF Unlink, TaskAt, TaskTo, notTask
    <2>17. CASE Unjournal(j)
      BY <2>17 DEF Unjournal, TaskAt, TaskTo, notTask
    <2>18. CASE Release(j)
      BY <2>18 DEF Release, TaskAt, TaskTo, Released, CanRelease, notTask
    <2>19. CASE EraseJournal(j)
      BY <2>19 DEF EraseJournal, TaskAt, TaskEnds, notTask
    <2>20. CASE Settle(j)
      BY <2>20 DEF Settle, TaskAt, TaskEnds, FailIfActive, notTask
    <2> QED
      BY <1>2, <2>1, <2>2, <2>3, <2>4, <2>5, <2>6, <2>7, <2>8, <2>9, <2>10,
         <2>11, <2>12, <2>13, <2>14, <2>15, <2>16, <2>17, <2>18, <2>19, <2>20
        DEF CommitStep
  <1>3. ASSUME NEW j \in Transcodes, AbortStep(j) PROVE (\A i \in Transcodes : TaskMoves(i))
    <2>1. CASE StopCheck(j)
      BY <2>1 DEF StopCheck, TaskAt, TaskTo, TaskEnds, notTask
    <2>2. CASE StopClean(j)
      BY <2>2 DEF StopClean, TaskAt, TaskTo, notTask
    <2>3. CASE StopComplete(j)
      BY <2>3 DEF StopComplete, TaskAt, TaskTo, CompleteIfRunning, notTask
    <2>4. CASE StopRelease(j)
      BY <2>4 DEF StopRelease, TaskAt, TaskEnds, Released, notTask
    <2>5. CASE FailRead(j)
      BY <2>5 DEF FailRead, TaskAt, TaskTo, notTask
    <2>6. CASE FailClaim(j)
      BY <2>6 DEF FailClaim, TaskAt, TaskTo, Transitions, notTask
    <2>7. CASE FailWrite(j)
      BY <2>7, FailWriteEffect
    <2>8. CASE FailTask(j)
      BY <2>8 DEF FailTask, TaskAt, TaskTo, FailIfActive, notTask
    <2>9. CASE Recover(j)
      BY <2>9 DEF Recover, TaskAt, TaskTo, notTask
    <2>10. CASE ReportUnrecovered(j)
      BY <2>10 DEF ReportUnrecovered, TaskAt, TaskTo, notTask
    <2> QED
      BY <1>3, <2>1, <2>2, <2>3, <2>4, <2>5, <2>6, <2>7, <2>8, <2>9, <2>10
        DEF AbortStep
  <1>4. ASSUME NEW j \in Transcodes, LostStep(j) PROVE (\A i \in Transcodes : TaskMoves(i))
    <2>1. CASE LostRead(j)
      BY <2>1 DEF LostRead, TaskAt, TaskTo, TaskEnds, BelongsTo, notTask
    <2>2. CASE Retire(j)
      BY <2>2
        DEF Retire, TaskAt, TaskTo, RetireOver, Transitions, Retired, Released,
            notTask
    <2>3. CASE RequeueLost(j)
      BY <2>3 DEF RequeueLost, TaskAt, TaskEnds, notTask
    <2>4. CASE RetireStopped(j)
      BY <2>4 DEF RetireStopped, TaskAt, TaskTo, Retired, Released, notTask
    <2>5. CASE FailLostJob(j)
      BY <2>5 DEF FailLostJob, TaskAt, TaskEnds, notTask
    <2> QED
      BY <1>4, <2>1, <2>2, <2>3, <2>4, <2>5 DEF LostStep
  <1>5. ASSUME NEW j \in Transcodes, Report(j) PROVE (\A i \in Transcodes : TaskMoves(i))
    BY <1>5 DEF Report, TaskAt, notTask
  <1>6. ASSUME NEW j \in Transcodes, LoseRunner(j) PROVE (\A i \in Transcodes : TaskMoves(i))
    BY <1>6 DEF LoseRunner, TaskAt, TaskTo, notTask
  <1>7. CASE StopRead \/ StopWrite \/ (\E k \in Jobs : StopFailJob(k)) \/
             RequeueRead \/ (\E k \in Jobs : RequeueFailJob(k)) \/ RequeuePublish \/
             RequeueCreate \/ (\E s \in Settings : Replace(s)) \/ Remove
    BY <1>7
      DEF StopRead, StopWrite, StopFailJob, RequeueRead, RequeueFailJob,
          RequeuePublish, RequeueCreate, Replace, Remove, notUser
  <1>8. CASE UNCHANGED vars
    BY <1>8 DEF vars
  <1> QED
    BY <1>1, <1>2, <1>3, <1>4, <1>5, <1>6, <1>7, <1>8
      DEF Next, TaskStep, StopStep, RequeueStep

\* A generation is published by the requeue only, and nothing else moves with it.
LEMMA GenMove ==
  TypeOK /\ [Next]_vars =>
    \/ gen' = gen /\ (requeue'.at = "create" => requeue.at = "create")
    \/ /\ gen' = gen + 1 /\ requeue.at = "fail" /\ requeue.jobs = {}
       /\ requeue'.at = "create" /\ file'.owner = NoJob
       /\ file'.probe = gen + 1 /\ file'.results = NoResults
       /\ UNCHANGED <<job, lock, loop, task, losses, stop>>
  <1> SUFFICES ASSUME TypeOK, [Next]_vars
               PROVE  \/ gen' = gen /\ (requeue'.at = "create" => requeue.at = "create")
                      \/ /\ gen' = gen + 1 /\ requeue.at = "fail" /\ requeue.jobs = {}
                         /\ requeue'.at = "create" /\ file'.owner = NoJob
                         /\ file'.probe = gen + 1 /\ file'.results = NoResults
                         /\ UNCHANGED <<job, lock, loop, task, losses, stop>>
    OBVIOUS
  <1>1. CASE LoopStep
    <2>1. UNCHANGED <<gen, requeue>>
      BY <1>1 DEF LoopStep, notLoop, TakeProbe, ProbeClaim, ProbeQueued, ProbeFailed, ProbeNoMatch,
          ProbeCheck, ProbeEnqueue, ProbePublish, ProbeFence, ProbeDone,
          TakeTranscode, PrepareRead, RecordCollision, ClaimFile, PatchJob,
          RollBackClaim, ValidatePrepared, Assign, NoRunnerLeft, Reset,
          FailJob, LoopRecount, LoopAggregate, CompleteSkipped
    <2> QED
      BY <2>1
  <1>2. ASSUME NEW j \in Transcodes, TaskStep(j) \/ LoseRunner(j)
        PROVE  UNCHANGED <<gen, requeue>>
    <2>1. CASE Report(j) \/ LoseRunner(j)
      BY <2>1 DEF Report, LoseRunner, notTask
    <2>2. CASE CommitStep(j)
      BY <2>2 DEF CommitStep, notTask, FinalizeRead, Begin, ValidateOutput, Attempt, BeforeFilters,
          RunFilters, Commit, Promote, Link, JournalCommitted, Persist,
          MarkReplaced, Complete, TaskRecount, TaskAggregate, JournalCleaned,
          Unlink, Unjournal, Release, EraseJournal, Settle
    <2>3. CASE AbortStep(j)
      BY <2>3 DEF AbortStep, notTask, StopCheck, StopClean, StopComplete, StopRelease, FailRead, FailClaim,
          FailWrite, FailTask, Recover, ReportUnrecovered
    <2>4. CASE LostStep(j)
      BY <2>4 DEF LostStep, notTask, LostRead, Retire, RetireOver, RequeueLost, RetireStopped, FailLostJob
    <2> QED
      BY <1>2, <2>1, <2>2, <2>3, <2>4 DEF TaskStep
  <1>3. CASE RequeuePublish
    BY <1>3 DEF RequeuePublish, TypeOK
  <1>4. CASE RequeueCreate \/ RequeueRead \/ \E j \in Jobs : RequeueFailJob(j)
    <2>1. gen' = gen
      BY <1>4 DEF RequeueCreate, RequeueRead, RequeueFailJob, notUser
    <2>2. requeue'.at = "create" => requeue.at = "create"
      BY <1>4 DEF RequeueCreate, RequeueRead, RequeueFailJob, UserIdle, TypeOK
    <2> QED
      BY <2>1, <2>2
  <1>5. CASE StopStep \/ (\E s \in Settings : Replace(s)) \/ Remove \/ UNCHANGED vars
    <2>1. UNCHANGED <<gen, requeue>>
      BY <1>5 DEF StopStep, StopRead, StopWrite, StopFailJob, Replace, Remove, notUser, vars
    <2> QED
      BY <2>1
  <1> QED
    BY <1>1, <1>2, <1>3, <1>4, <1>5 DEF Next, RequeueStep

-----------------------------------------------------------------------------
(***************************************************************************)
(* Jobs are created, queued, handed out and ended in order.                *)
(***************************************************************************)
\* No job of a generation to come exists.
LEMMA LaterKept ==
  TypeOK /\ LoopKnown /\ OwnerKnown /\ LaterJobs /\ LoopsJob /\ [Next]_vars => LaterJobs'
  <1> SUFFICES ASSUME TypeOK, LoopKnown, OwnerKnown, LaterJobs, LoopsJob, [Next]_vars
               PROVE  LaterJobs'
    OBVIOUS
  <1>1. \A j \in Jobs : job[j] = "none" =>
           \/ job'[j] = "none"
           \/ loop.at = "probe-enqueue" /\ Gen(j) = Gen(loop.job)
           \/ requeue.at = "create" /\ Gen(j) = gen /\ requeue'.at = "idle"
    BY JobsMove, ProbeJobs DEF JobMoves, Active, TypeOK, Gen
  <1>2. loop.at = "probe-enqueue" =>
           /\ Gen(loop.job) \in Gens /\ Gen(loop.job) <= gen
           /\ requeue.at = "create" => Gen(loop.job) < gen
    <2> SUFFICES ASSUME loop.at = "probe-enqueue"
                 PROVE  /\ Gen(loop.job) \in Gens /\ Gen(loop.job) <= gen
                        /\ requeue.at = "create" => Gen(loop.job) < gen
      OBVIOUS
    <2>1. PICK g \in Gens : loop.job = ProbeJob(g)
      BY DEF LoopKnown, ProbeAt
    <2>2. /\ loop.job \in Jobs /\ Gen(loop.job) = g /\ job[loop.job] # "none"
          /\ g \in Nat /\ gen \in Nat
      BY <2>1, ProbeJobs DEF LoopsJob, TypeOK, Gens
    <2> QED
      BY <2>1, <2>2 DEF LaterJobs
  <1>3. gen \in Nat /\ \A j \in Jobs : Gen(j) \in Nat
    BY JobGens DEF TypeOK, Gens
  <1>4. CASE gen' = gen /\ (requeue'.at = "create" => requeue.at = "create")
    BY <1>1, <1>2, <1>3, <1>4 DEF LaterJobs, Gen
  <1>5. CASE gen' = gen + 1 /\ job' = job
    BY <1>3, <1>5 DEF LaterJobs, Gen
  <1> QED
    BY <1>4, <1>5, GenMove

\* No transcode exists before its generation was probed.
LEMMA ProbesKept ==
  /\ TypeOK /\ LoopKnown /\ OwnerKnown /\ LaterJobs /\ ProbesFirst /\ LoopsJob
  /\ [Next]_vars
  => ProbesFirst'
  <1> SUFFICES ASSUME TypeOK, LoopKnown, OwnerKnown, LaterJobs, ProbesFirst, LoopsJob,
                      [Next]_vars, NEW g \in Gens, job'[ProbeJob(g)] \in {"none", "pending"},
                      NEW s \in Settings
               PROVE  job'[<<g, s>>] = "none"
    BY DEF ProbesFirst, ToBeProbed, Unqueued, ProbeJob
  <1>1. /\ ProbeJob(g) \in Jobs /\ ProbeJob(g) \notin Transcodes /\ Gen(ProbeJob(g)) = g
        /\ <<g, s>> \in Jobs /\ <<g, s>> \in Transcodes /\ Gen(<<g, s>>) = g
    BY ProbeJobs, TranscodeJobs
  <1>2. JobMoves(ProbeJob(g)) /\ JobMoves(<<g, s>>)
    BY <1>1, JobsMove
  <1>3. loop.at \in {"reset"} => loop.job \in Transcodes
    BY DEF LoopKnown, DispatchAt
  <1>4. loop.at = "probe-enqueue" => <<Gen(loop.job), loop.next>> \in Transcodes
    BY TranscodeJobs, ProbeJobs DEF LoopKnown, ProbeAt
  <1>5. job[ProbeJob(g)] \in {"none", "pending"}
    <2>1. CASE requeue.at = "create" /\ g = gen
      BY <1>1, <2>1 DEF LaterJobs
    <2>2. CASE ~(requeue.at = "create" /\ g = gen)
      <3>1. requeue.at = "create" => ProbeJob(g) # ProbeJob(gen)
        BY <1>1, <2>2, ProbeJobs DEF TypeOK
      <3> QED
        BY <1>1, <1>2, <1>3, <1>4, <3>1 DEF JobMoves, Active
    <2> QED
      BY <2>1, <2>2
  <1>6. job[<<g, s>>] = "none"
    BY <1>5 DEF ProbesFirst, ToBeProbed, Unqueued
  <1>7. ~(loop.at = "probe-enqueue" /\ <<g, s>> = <<Gen(loop.job), loop.next>>)
    <2> SUFFICES ASSUME loop.at = "probe-enqueue", g = Gen(loop.job) PROVE FALSE
      OBVIOUS
    <2>1. loop.job = ProbeJob(g)
      BY ProbeJobs DEF LoopKnown, ProbeAt
    <2> QED
      BY <1>5, <2>1 DEF LoopsJob
  <1>8. <<g, s>> # ProbeJob(gen)
    BY <1>1, ProbeJobs DEF TypeOK
  <1> QED
    BY <1>2, <1>6, <1>7, <1>8 DEF JobMoves, Active

\* The job of the loop is not queued, and what it has yet to queue does not exist.
LEMMA LoopsJobKept ==
  /\ TypeOK /\ LoopKnown /\ OwnerKnown /\ LaterJobs /\ ProbesFirst /\ LoopsJob /\ HandedOver
  /\ [Next]_vars
  => LoopsJob'
  <1> SUFFICES ASSUME TypeOK, LoopKnown, OwnerKnown, LaterJobs, ProbesFirst, LoopsJob,
                      HandedOver, [Next]_vars
               PROVE  LoopsJob'
    OBVIOUS
  <1>1. LoopMoves /\ \A j \in Jobs : JobMoves(j)
    BY LoopMove, JobsMove
  <1>2. loop.at # "idle" => loop.job \in Jobs
    BY ProbeJobs, JobGens DEF LoopKnown, ProbeAt, DispatchAt, UnownedAt, ClaimedAt, TypeOK, LoopSteps
  <1>3. ASSUME loop.at # "idle", loop'.at # "idle", loop'.job = loop.job
        PROVE  job'[loop.job] \notin {"none", "pending"}
    <2>1. loop.at \in ProbeAt \/ loop.at \in DispatchAt
      BY <1>3 DEF ProbeAt, DispatchAt, UnownedAt, ClaimedAt, TypeOK, LoopSteps
    <2>2. loop.job \in Transcodes => task[loop.job].at # "requeue"
      BY <2>1, ProbeJobs DEF HandedOver, LoopKnown
    <2>3. loop.at = "probe-enqueue" => loop.job # <<Gen(loop.job), loop.next>>
      BY ProbeJobs, TranscodeJobs DEF LoopKnown, ProbeAt
    <2>4. requeue.at = "create" => loop.job # ProbeJob(gen)
      BY <1>2, <1>3, ProbeJobs DEF LaterJobs, LoopsJob, TypeOK
    <2>5. job[loop.job] \notin {"none", "pending"}
      BY <1>3 DEF LoopsJob
    <2> QED
      BY <1>1, <1>2, <1>3, <2>2, <2>3, <2>4, <2>5 DEF JobMoves, Active, LoopIdle
  <1>4. ASSUME NEW g \in Gens, NEW s \in Settings, job[<<g, s>>] = "none",
               ~(loop.at = "probe-enqueue" /\ g = Gen(loop.job) /\ s = loop.next)
        PROVE  job'[<<g, s>>] = "none"
    BY <1>1, <1>4, TranscodeJobs, ProbeJobs DEF JobMoves, Active, TypeOK
  <1>5. CASE loop' = loop
    <2>1. loop.at = "probe-enqueue" => \A s \in Settings :
             job[<<Gen(loop.job), s>>] = "none" => job'[<<Gen(loop.job), s>>] = "none"
      BY <1>1, <1>5, TranscodeJobs, ProbeJobs DEF JobMoves, Active, TypeOK, LoopKnown, ProbeAt
    <2>2. loop.at # "idle" => job'[loop.job] \notin {"none", "pending"}
      BY <1>3, <1>5
    <2>3. loop.at \in ProbeAt => Gen(loop.job) \in Gens
      BY ProbeJobs DEF LoopKnown
    <2>4. loop.left \subseteq Settings
      BY DEF TypeOK
    <2> QED
      BY <1>4, <1>5, <2>1, <2>2, <2>3, <2>4 DEF LoopsJob, Unqueued, ProbeAt, LoopKnown, Gen
  <1>6. CASE loop' = LoopIdle
    BY <1>6 DEF LoopsJob, LoopIdle
  <1>7. CASE loop.at \in DispatchAt /\ loop'.at \in DispatchAt /\ loop'.job = loop.job
    <2>1. loop.at # "idle" /\ loop'.at # "idle"
      BY <1>7 DEF DispatchAt, UnownedAt, ClaimedAt
    <2> QED
      BY <1>3, <1>7, <2>1 DEF LoopsJob, DispatchAt, UnownedAt, ClaimedAt
  <1>8. CASE loop.at = "idle" /\ loop'.at \in {"probe-claim", "read"}
    <2>1. /\ loop'.left = {} /\ loop'.job \in Jobs
          /\ job[loop'.job] = "pending" /\ job'[loop'.job] = "running"
          /\ loop'.at = "read" => loop'.job \in Transcodes
      BY <1>1, <1>8 DEF LoopMoves, ProbeAt, DispatchAt, UnownedAt, ClaimedAt, LoopIdle
    <2>2. CASE loop'.at = "read"
      BY <2>1, <2>2 DEF LoopsJob
    <2>3. CASE loop'.at = "probe-claim"
      <3>1. PICK g \in Gens : loop'.job = ProbeJob(g)
        BY <1>1, <1>8, <2>3 DEF LoopMoves, ProbeAt, DispatchAt, UnownedAt, ClaimedAt, LoopIdle
      <3>2. loop'.job = ProbeJob(g) /\ Unqueued(g)
        BY <2>1, <3>1 DEF ProbesFirst, ToBeProbed
      <3>3. \A s \in Settings : job'[<<g, s>>] = "none"
        BY <1>4, <1>8, <3>2 DEF Unqueued
      <3>4. loop'.job[1] = g
        BY <3>2 DEF ProbeJob
      <3> QED
        BY <2>1, <2>3, <3>3, <3>4 DEF LoopsJob, Unqueued, Gen
    <2> QED
      BY <1>8, <2>2, <2>3
  <1>9. CASE /\ loop.at \in ProbeAt /\ loop'.at \in ProbeAt /\ loop'.job = loop.job
             /\ loop' # loop
    <2>1. job'[loop.job] \notin {"none", "pending"}
      BY <1>3, <1>9 DEF ProbeAt
    <2>2. PICK g \in Gens : loop.job = ProbeJob(g) /\ Gen(loop.job) = g
      BY <1>9, ProbeJobs DEF LoopKnown
    <2>3. loop.left \subseteq Settings
      BY DEF TypeOK
    <2>4. loop.at \in {"probe-claim", "probe-media"} =>
             \A s \in Settings : job[<<g, s>>] = "none"
      BY <2>2 DEF LoopsJob, Unqueued
    <2>5. loop.at \in {"probe-check", "probe-enqueue"} =>
             \A s \in loop.left : job[<<g, s>>] = "none"
      BY <2>2 DEF LoopsJob
    <2>6. loop.at = "probe-enqueue" => loop.next \notin loop.left
      BY DEF LoopsJob
    <2>7. /\ loop'.at # "probe-claim"
          /\ loop'.at \in {"probe-media", "probe-nomatch"} =>
                loop.at \in {"probe-claim", "probe-media"}
          /\ loop'.at = "probe-check" => loop.at \in {"probe-media", "probe-enqueue"}
          /\ loop'.at = "probe-enqueue" => /\ loop.at = "probe-check"
                                           /\ loop'.next \in loop.left
                                           /\ loop'.left = loop.left \ {loop'.next}
          /\ loop.at = "probe-enqueue" => loop'.left = loop.left
          /\ loop'.left \subseteq Settings
      BY <1>1, <1>9 DEF LoopMoves, ProbeAt, DispatchAt, UnownedAt, ClaimedAt, LoopIdle
    <2>8. loop'.at \in {"probe-media", "probe-nomatch"} =>
             \A s \in Settings : job'[<<g, s>>] = "none"
      BY <1>4, <2>4, <2>7
    <2>9. loop'.at \in {"probe-check", "probe-enqueue"} =>
             \A s \in loop'.left : job'[<<g, s>>] = "none"
      BY <1>4, <2>3, <2>4, <2>5, <2>6, <2>7
    <2>10. loop'.at = "probe-enqueue" =>
              loop'.next \notin loop'.left /\ job'[<<g, loop'.next>>] = "none"
      BY <1>4, <2>3, <2>5, <2>7
    <2>11. loop'.job[1] = g
      BY <1>9, <2>2 DEF Gen
    <2> QED
      BY <1>9, <2>1, <2>7, <2>8, <2>9, <2>10, <2>11 DEF LoopsJob, Unqueued, Gen
  <1> QED
    BY <1>1, <1>5, <1>6, <1>7, <1>8, <1>9 DEF LoopMoves

\* A job is in one hand, and not queued meanwhile.
LEMMA HandedKept ==
  /\ TypeOK /\ LoopKnown /\ OwnerKnown /\ LaterJobs /\ ProbesFirst /\ LoopsJob /\ HandedOver
  /\ [Next]_vars
  => HandedOver'
  <1> SUFFICES ASSUME TypeOK, LoopKnown, OwnerKnown, LaterJobs, ProbesFirst, LoopsJob,
                      HandedOver, [Next]_vars
               PROVE  HandedOver'
    OBVIOUS
  <1>1. LoopMoves /\ \A j \in Jobs : JobMoves(j)
    BY LoopMove, JobsMove
  <1>2. \A j \in Transcodes : TaskMoves(j)
    BY TasksMove
  <1>3. loop'.at \in DispatchAt => task'[loop'.job].at = "none"
    <2> SUFFICES ASSUME loop'.at \in DispatchAt PROVE task'[loop'.job].at = "none"
      OBVIOUS
    <2>1. CASE loop.at \in DispatchAt /\ loop'.job = loop.job
      <3>1. loop.job \in Transcodes /\ task[loop.job].at = "none"
        BY <2>1 DEF HandedOver, LoopKnown
      <3>2. loop' # LoopIdle
        BY DEF LoopIdle, DispatchAt, UnownedAt, ClaimedAt
      <3> QED
        BY <1>2, <2>1, <3>1, <3>2 DEF TaskMoves
    <2>2. CASE loop.at = "idle" /\ loop'.at = "read" /\ job[loop'.job] = "pending"
                /\ loop'.job \in Transcodes
      BY <1>2, <2>2 DEF TaskMoves, HandedOver
    <2> QED
      BY <1>1, <2>1, <2>2 DEF LoopMoves, LoopIdle, DispatchAt, UnownedAt, ClaimedAt, ProbeAt
  <1>4. ASSUME NEW j \in Transcodes, task'[j].at # "none"
        PROVE  job'[j] \notin {"none", "pending"}
    <2>1. CASE task[j].at = "none"
      <3>1. /\ loop.at = "assign" /\ loop.job = j /\ job' = job
        BY <1>2, <1>4, <2>1 DEF TaskMoves
      <3> QED
        BY <3>1 DEF LoopsJob
    <2>2. CASE task[j].at # "none"
      <3>1. job[j] \notin {"none", "pending"}
        BY <2>2 DEF HandedOver
      <3>2. j \in Jobs /\ JobMoves(j)
        BY <1>1, JobGens
      <3>3. loop.at = "reset" => loop.job # j
        BY <2>2 DEF HandedOver, DispatchAt
      <3>4. ~(loop.at = "probe-enqueue" /\ j = <<Gen(loop.job), loop.next>>)
        BY <3>1 DEF LoopsJob
      <3>5. task'[j] # NoTask
        BY <1>4 DEF NoTask
      <3>6. j # ProbeJob(gen)
        BY ProbeJobs DEF TypeOK
      <3> QED
        BY <3>1, <3>2, <3>3, <3>4, <3>5, <3>6 DEF JobMoves, Active
    <2> QED
      BY <2>1, <2>2
  <1> QED
    BY <1>3, <1>4 DEF HandedOver

\* The loop is never at a job of a generation to come.
LEMMA LoopGen ==
  TypeOK /\ LoopKnown /\ LaterJobs /\ LoopsJob =>
    (loop.at # "idle" => Gen(loop.job) \in Gens /\ Gen(loop.job) <= gen)
  <1> SUFFICES ASSUME TypeOK, LoopKnown, LaterJobs, LoopsJob, loop.at # "idle"
               PROVE  Gen(loop.job) \in Gens /\ Gen(loop.job) <= gen
    OBVIOUS
  <1>1. loop.at \in ProbeAt \/ loop.at \in DispatchAt
    BY DEF ProbeAt, DispatchAt, UnownedAt, ClaimedAt, TypeOK, LoopSteps
  <1>2. loop.job \in Jobs
    BY <1>1, ProbeJobs, JobGens DEF LoopKnown
  <1>3. Gen(loop.job) \in Gens /\ ~(Gen(loop.job) > gen)
    BY <1>2, JobGens DEF LaterJobs, LoopsJob
  <1> QED
    BY <1>3 DEF TypeOK, Gens

-----------------------------------------------------------------------------
(***************************************************************************)
(* The probe, the point of no return and the journal.                      *)
(***************************************************************************)
\* The probe on the document stays the latest generation's, and nothing owns
\* the file while it is requeued.
LEMMA ProbeKept ==
  TypeOK /\ LoopKnown /\ LockKnown /\ HandedOver /\ OwnerKnown /\ LaterJobs /\ LoopsJob /\
  ProbeKnown /\ Probed /\ [Next]_vars
    => ProbeKnown'
  <1> SUFFICES ASSUME TypeOK, LoopKnown, LockKnown, HandedOver, OwnerKnown,
                      LaterJobs, LoopsJob, ProbeKnown, Probed, [Next]_vars
               PROVE  ProbeKnown'
    OBVIOUS
  <1>a. \A j \in Transcodes : task[j].at \notin FreeAt =>
           /\ file.owner = j /\ j # NoJob /\ loop.at \notin DispatchAt
           /\ \A i \in Transcodes : i # j => task[i].at \in FreeAt
    BY Alone
  <1>b. loop.at \in DispatchAt =>
           /\ loop.job \in Transcodes /\ loop.job # NoJob
           /\ file.owner \in {NoJob, loop.job}
           /\ \A j \in Transcodes : task[j].at \in FreeAt
    BY Alone
  <1>c. loop.at # "idle" => Gen(loop.job) \in Gens /\ Gen(loop.job) <= gen
    BY LoopGen
  <1> USE DEF TypeOK, Files, ProbeKnown, LockKnown
  <1>1. CASE LoopStep
    <2>1. CASE ProbeClaim
      BY <2>1, <1>c
        DEF ProbeClaim, LoopAt, LoopTo, notLoop, Gens, Probed, ProbedAt,
            EnqueueAt
    <2>2. CASE ProbeQueued
      BY <2>2, ProbeQueuedEffect DEF OwnsProbe
    <2>3. CASE ProbeFailed
      BY <2>3, <1>c
        DEF ProbeFailed, LoopAt, LoopTo, OwnsProbe, notLoop, Gens, Probed,
            ProbedAt, EnqueueAt
    <2>4. CASE ProbeNoMatch
      BY <2>4, <1>c
        DEF ProbeNoMatch, LoopAt, LoopTo, OwnsProbe, notLoop, Gens, Probed,
            ProbedAt, EnqueueAt
    <2>5. CASE ProbePublish
      BY <2>5, <1>c
        DEF ProbePublish, LoopAt, LoopTo, OwnsProbe, notLoop, Gens, Probed,
            ProbedAt, EnqueueAt
    <2>6. CASE RecordCollision
      BY <2>6, <1>b DEF RecordCollision, LoopAt, LoopTo, notLoop
    <2>7. CASE ClaimFile
      BY <2>7, <1>b
        DEF ClaimFile, LoopAt, LoopTo, Claimed, Unpreparable, notLoop
    <2>8. CASE RollBackClaim
      BY <2>8, <1>b DEF RollBackClaim, LoopAt, LoopTo, Released, notLoop
    <2>9. CASE Reset
      BY <2>9, <1>b DEF Reset, LoopAt, LoopTo, LoopStops, Released, notLoop
    <2>10. CASE LoopAggregate
      BY <2>10, <1>b
        DEF LoopAggregate, LoopAt, LoopStops, Recomputed, notLoop, Derive
    <2>11. CASE (\E g \in Gens : TakeProbe(g)) \/ ProbeCheck \/ ProbeEnqueue \/
                ProbeFence \/ ProbeDone \/
                (\E j \in Transcodes : TakeTranscode(j)) \/ PrepareRead \/
                PatchJob \/ ValidatePrepared \/ Assign \/ NoRunnerLeft \/ FailJob \/
                LoopRecount \/ CompleteSkipped
      BY <2>11
        DEF TakeProbe, ProbeCheck, ProbeEnqueue, ProbeFence, ProbeDone,
            TakeTranscode, PrepareRead, PatchJob, ValidatePrepared, Assign,
            NoRunnerLeft, FailJob, LoopRecount, CompleteSkipped, notLoop
    <2> QED
      BY <1>1, <2>1, <2>2, <2>3, <2>4, <2>5, <2>6, <2>7, <2>8, <2>9, <2>10,
         <2>11
        DEF LoopStep
  <1>2. ASSUME NEW j \in Transcodes, CommitStep(j) PROVE ProbeKnown'
    <2>1. CASE Begin(j)
      BY <2>1, <1>a DEF Begin, TaskAt, TaskTo, Transitions, notTask, FreeAt
    <2>2. CASE Commit(j)
      BY <2>2, CommitEffect, <1>a DEF FreeAt
    <2>3. CASE Promote(j)
      BY <2>3, <1>a DEF Promote, TaskAt, TaskTo, Transitions, notTask, FreeAt
    <2>4. CASE JournalCommitted(j)
      BY <2>4, <1>a
        DEF JournalCommitted, TaskAt, TaskTo, Transitions, notTask, FreeAt
    <2>5. CASE Persist(j)
      BY <2>5, <1>a DEF Persist, TaskAt, TaskTo, notTask, FreeAt
    <2>6. CASE MarkReplaced(j)
      BY <2>6, <1>a DEF MarkReplaced, TaskAt, TaskTo, notTask, FreeAt
    <2>7. CASE TaskAggregate(j)
      BY <2>7, <1>a DEF TaskAggregate, TaskAt, Recomputed, notTask, FreeAt
    <2>8. CASE JournalCleaned(j)
      BY <2>8, <1>a DEF JournalCleaned, TaskAt, TaskTo, notTask, FreeAt
    <2>9. CASE Unjournal(j)
      BY <2>9, <1>a DEF Unjournal, TaskAt, TaskTo, notTask, FreeAt
    <2>10. CASE Release(j)
      BY <2>10, <1>a
        DEF Release, TaskAt, TaskTo, Released, CanRelease, notTask, FreeAt
    <2>11. CASE EraseJournal(j)
      BY <2>11, <1>a DEF EraseJournal, TaskAt, TaskEnds, notTask, FreeAt
    <2>12. CASE FinalizeRead(j) \/ ValidateOutput(j) \/ BeforeFilters(j) \/
                RunFilters(j) \/ Link(j) \/ Complete(j) \/ TaskRecount(j) \/ Unlink(j) \/
                Settle(j)
      BY <2>12
        DEF FinalizeRead, ValidateOutput, Attempt, BeforeFilters, RunFilters,
            Link, Complete, TaskRecount, Unlink, Settle, notTask
    <2> QED
      BY <1>2, <2>1, <2>2, <2>3, <2>4, <2>5, <2>6, <2>7, <2>8, <2>9, <2>10,
         <2>11, <2>12
        DEF CommitStep
  <1>3. ASSUME NEW j \in Transcodes, AbortStep(j) PROVE ProbeKnown'
    <2>1. CASE StopClean(j)
      BY <2>1, <1>a DEF StopClean, TaskAt, TaskTo, notTask, FreeAt
    <2>2. CASE StopRelease(j)
      BY <2>2, <1>a
        DEF StopRelease, TaskAt, TaskEnds, Released, notTask, FreeAt
    <2>3. CASE FailClaim(j)
      BY <2>3, <1>a DEF FailClaim, TaskAt, TaskTo, Transitions, notTask, FreeAt
    <2>4. CASE FailWrite(j)
      BY <2>4, FailWriteEffect, <1>a DEF FreeAt
    <2>5. CASE ReportUnrecovered(j)
      BY <2>5, <1>a DEF ReportUnrecovered, TaskAt, TaskTo, notTask, FreeAt
    <2>6. CASE StopCheck(j) \/ StopComplete(j) \/ FailRead(j) \/ FailTask(j) \/
               Recover(j)
      BY <2>6 DEF StopCheck, StopComplete, FailRead, FailTask, Recover, notTask
    <2> QED
      BY <1>3, <2>1, <2>2, <2>3, <2>4, <2>5, <2>6 DEF AbortStep
  <1>4. ASSUME NEW j \in Transcodes, LostStep(j) PROVE ProbeKnown'
    <2>1. CASE Retire(j)
      BY <2>1, <1>a
        DEF Retire, TaskAt, TaskTo, RetireOver, Transitions, Retired, Released,
            notTask, FreeAt
    <2>2. CASE RetireStopped(j)
      BY <2>2, <1>a
        DEF RetireStopped, TaskAt, TaskTo, Retired, Released, notTask, FreeAt
    <2>3. CASE LostRead(j) \/ RequeueLost(j) \/ FailLostJob(j)
      BY <2>3 DEF LostRead, RequeueLost, FailLostJob, notTask
    <2> QED
      BY <1>4, <2>1, <2>2, <2>3 DEF LostStep
  <1>5. CASE (\E j \in Transcodes : Report(j)) \/
             (\E j \in Transcodes : LoseRunner(j))
    BY <1>5 DEF Report, LoseRunner, notTask
  <1>6. CASE StopWrite
    BY <1>6 DEF StopWrite, UserIdle, notUser
  <1>7. CASE RequeueRead
    BY <1>7, LifecycleAssumption DEF RequeueRead, Unsettled, notUser
  <1>8. ASSUME NEW k \in Jobs, RequeueFailJob(k) PROVE ProbeKnown'
    BY <1>8 DEF RequeueFailJob, FailIfActive, notUser
  <1>9. CASE RequeuePublish
    BY <1>9, LifecycleAssumption DEF RequeuePublish, notUser, Gens, Journals
  <1>10. CASE RequeueCreate
    BY <1>10, LifecycleAssumption DEF RequeueCreate, UserIdle, notUser
  <1>11. ASSUME NEW s \in Settings, Replace(s) PROVE ProbeKnown'
    BY <1>11 DEF Replace, Unsettled, notUser
  <1>12. CASE Remove
    BY <1>12 DEF Remove, Unsettled, notUser
  <1>13. CASE StopRead \/ (\E k \in Jobs : StopFailJob(k))
    BY <1>13 DEF StopRead, StopFailJob, notUser
  <1>14. CASE UNCHANGED vars
    BY <1>14 DEF vars
  <1> QED
    BY <1>1, <1>2, <1>3, <1>4, <1>5, <1>6, <1>7, <1>8, <1>9, <1>10, <1>11,
       <1>12, <1>13, <1>14
      DEF Next, TaskStep, StopStep, RequeueStep

\* The generation of the probe that is over is not pending.
LEMMA ProbedKept ==
  TypeOK /\ LoopKnown /\ HandedOver /\ OwnerKnown /\ LaterJobs /\ LoopsJob /\ ProbeKnown /\
  Probed /\ [Next]_vars
    => Probed'
  <1> SUFFICES ASSUME TypeOK, LoopKnown, HandedOver, OwnerKnown, LaterJobs,
                      LoopsJob, ProbeKnown, Probed, [Next]_vars
               PROVE  Probed'
    OBVIOUS
  <1>a. \A j \in Transcodes : task[j].at \notin FreeAt =>
           /\ file.owner = j /\ j # NoJob /\ loop.at \notin DispatchAt
           /\ \A i \in Transcodes : i # j => task[i].at \in FreeAt
    BY Alone
  <1>b. loop.at \in DispatchAt =>
           /\ loop.job \in Transcodes /\ loop.job # NoJob
           /\ file.owner \in {NoJob, loop.job}
           /\ \A j \in Transcodes : task[j].at \in FreeAt
    BY Alone
  <1>c. loop.at # "idle" => Gen(loop.job) \in Gens /\ Gen(loop.job) <= gen
    BY LoopGen
  <1> USE DEF TypeOK, Files, Probed, ProbedAt, EnqueueAt
  <1>1. CASE LoopStep
    <2>1. ASSUME NEW g \in Gens, TakeProbe(g) PROVE Probed'
      BY <2>1 DEF TakeProbe, LoopAt, notLoop, LoopIdle
    <2>2. CASE ProbeClaim
      BY <2>2 DEF ProbeClaim, LoopAt, LoopTo, notLoop
    <2>3. CASE ProbeQueued
      BY <2>3, ProbeQueuedEffect DEF OwnsProbe
    <2>4. CASE ProbeFailed
      BY <2>4 DEF ProbeFailed, LoopAt, LoopTo, OwnsProbe, notLoop
    <2>5. CASE ProbeNoMatch
      BY <2>5 DEF ProbeNoMatch, LoopAt, LoopTo, OwnsProbe, notLoop
    <2>6. CASE ProbeCheck
      BY <2>6, ProbeCheckEffect DEF OwnsProbe
    <2>7. CASE ProbeEnqueue
      BY <2>7 DEF ProbeEnqueue, LoopAt, notLoop
    <2>8. CASE ProbePublish
      BY <2>8 DEF ProbePublish, LoopAt, LoopTo, OwnsProbe, notLoop
    <2>9. CASE ProbeFence
      BY <2>9 DEF ProbeFence, LoopAt, LoopTo, notLoop
    <2>10. CASE ProbeDone
      BY <2>10
        DEF ProbeDone, LoopAt, LoopStops, CompleteIfRunning, notLoop, LoopIdle
    <2>11. ASSUME NEW j \in Transcodes, TakeTranscode(j) PROVE Probed'
      BY <2>11 DEF TakeTranscode, LoopAt, notLoop, LoopIdle
    <2>12. CASE PrepareRead
      BY <2>12 DEF PrepareRead, LoopAt, LoopTo, Unpreparable, notLoop
    <2>13. CASE RecordCollision
      BY <2>13 DEF RecordCollision, LoopAt, LoopTo, notLoop
    <2>14. CASE ClaimFile
      BY <2>14 DEF ClaimFile, LoopAt, LoopTo, Claimed, Unpreparable, notLoop
    <2>15. CASE PatchJob
      BY <2>15 DEF PatchJob, LoopAt, LoopTo, notLoop
    <2>16. CASE RollBackClaim
      BY <2>16 DEF RollBackClaim, LoopAt, LoopTo, Released, notLoop
    <2>17. CASE ValidatePrepared
      BY <2>17
        DEF ValidatePrepared, LoopAt, LoopTo, PreparedTaskMatches, notLoop
    <2>18. CASE Assign
      BY <2>18 DEF Assign, LoopAt, LoopStops, notLoop, LoopIdle
    <2>19. CASE NoRunnerLeft
      BY <2>19 DEF NoRunnerLeft, LoopAt, LoopTo, notLoop
    <2>20. CASE Reset
      BY <2>20
        DEF Reset, LoopAt, LoopTo, LoopStops, Released, notLoop, LoopIdle
    <2>21. CASE FailJob
      BY <2>21 DEF FailJob, LoopAt, LoopTo, FailIfActive, notLoop
    <2>22. CASE LoopRecount
      BY <2>22 DEF LoopRecount, LoopAt, notLoop
    <2>23. CASE LoopAggregate
      BY <2>23
        DEF LoopAggregate, LoopAt, LoopStops, Recomputed, notLoop, LoopIdle
    <2>24. CASE CompleteSkipped
      BY <2>24
        DEF CompleteSkipped, LoopAt, LoopStops, CompleteIfRunning, notLoop,
            LoopIdle
    <2> QED
      BY <1>1, <2>1, <2>2, <2>3, <2>4, <2>5, <2>6, <2>7, <2>8, <2>9, <2>10,
         <2>11, <2>12, <2>13, <2>14, <2>15, <2>16, <2>17, <2>18, <2>19, <2>20,
         <2>21, <2>22, <2>23, <2>24
        DEF LoopStep
  <1>2. ASSUME NEW j \in Transcodes, CommitStep(j) PROVE Probed'
    <2>1. CASE Begin(j)
      BY <2>1, <1>a DEF Begin, TaskAt, TaskTo, Transitions, notTask
    <2>2. CASE Commit(j)
      BY <2>2, CommitEffect, <1>a
    <2>3. CASE Promote(j)
      BY <2>3, <1>a DEF Promote, TaskAt, TaskTo, Transitions, notTask
    <2>4. CASE JournalCommitted(j)
      BY <2>4, <1>a DEF JournalCommitted, TaskAt, TaskTo, Transitions, notTask
    <2>5. CASE Persist(j)
      BY <2>5, <1>a DEF Persist, TaskAt, TaskTo, notTask
    <2>6. CASE MarkReplaced(j)
      BY <2>6, <1>a DEF MarkReplaced, TaskAt, TaskTo, notTask
    <2>7. CASE TaskAggregate(j)
      BY <2>7, <1>a DEF TaskAggregate, TaskAt, Recomputed, notTask
    <2>8. CASE JournalCleaned(j)
      BY <2>8, <1>a DEF JournalCleaned, TaskAt, TaskTo, notTask
    <2>9. CASE Unjournal(j)
      BY <2>9, <1>a DEF Unjournal, TaskAt, TaskTo, notTask
    <2>10. CASE Release(j)
      BY <2>10, <1>a DEF Release, TaskAt, TaskTo, Released, CanRelease, notTask
    <2>11. CASE EraseJournal(j)
      BY <2>11, <1>a DEF EraseJournal, TaskAt, TaskEnds, notTask
    <2>12. CASE FinalizeRead(j) \/ ValidateOutput(j) \/ BeforeFilters(j) \/
                RunFilters(j) \/ Link(j) \/ Complete(j) \/ TaskRecount(j) \/ Unlink(j) \/
                Settle(j)
      BY <2>12
        DEF FinalizeRead, ValidateOutput, Attempt, BeforeFilters, RunFilters,
            Link, Complete, TaskRecount, Unlink, Settle, notTask
    <2> QED
      BY <1>2, <2>1, <2>2, <2>3, <2>4, <2>5, <2>6, <2>7, <2>8, <2>9, <2>10,
         <2>11, <2>12
        DEF CommitStep
  <1>3. ASSUME NEW j \in Transcodes, AbortStep(j) PROVE Probed'
    <2>1. CASE StopClean(j)
      BY <2>1, <1>a DEF StopClean, TaskAt, TaskTo, notTask
    <2>2. CASE StopRelease(j)
      BY <2>2, <1>a DEF StopRelease, TaskAt, TaskEnds, Released, notTask
    <2>3. CASE FailClaim(j)
      BY <2>3, <1>a DEF FailClaim, TaskAt, TaskTo, Transitions, notTask
    <2>4. CASE FailWrite(j)
      BY <2>4, FailWriteEffect, <1>a
    <2>5. CASE ReportUnrecovered(j)
      BY <2>5, <1>a DEF ReportUnrecovered, TaskAt, TaskTo, notTask
    <2>6. CASE StopCheck(j) \/ StopComplete(j) \/ FailRead(j) \/ FailTask(j) \/
               Recover(j)
      BY <2>6 DEF StopCheck, StopComplete, FailRead, FailTask, Recover, notTask
    <2> QED
      BY <1>3, <2>1, <2>2, <2>3, <2>4, <2>5, <2>6 DEF AbortStep
  <1>4. ASSUME NEW j \in Transcodes, LostStep(j) PROVE Probed'
    <2>1. CASE Retire(j)
      BY <2>1, <1>a
        DEF Retire, TaskAt, TaskTo, RetireOver, Transitions, Retired, Released,
            notTask
    <2>2. CASE RetireStopped(j)
      BY <2>2, <1>a
        DEF RetireStopped, TaskAt, TaskTo, Retired, Released, notTask
    <2>3. CASE LostRead(j) \/ RequeueLost(j) \/ FailLostJob(j)
      BY <2>3 DEF LostRead, RequeueLost, FailLostJob, notTask
    <2> QED
      BY <1>4, <2>1, <2>2, <2>3 DEF LostStep
  <1>5. CASE (\E j \in Transcodes : Report(j)) \/
             (\E j \in Transcodes : LoseRunner(j))
    BY <1>5 DEF Report, LoseRunner, notTask
  <1>6. CASE StopWrite
    BY <1>6 DEF StopWrite, UserIdle, notUser
  <1>7. CASE RequeuePublish
    BY <1>7, <1>c DEF RequeuePublish, notUser, Gens
  <1>8. CASE RequeueCreate
    BY <1>8 DEF RequeueCreate, UserIdle, notUser
  <1>9. ASSUME NEW s \in Settings, Replace(s) PROVE Probed'
    BY <1>9 DEF Replace, Unsettled, notUser
  <1>10. CASE Remove
    BY <1>10 DEF Remove, Unsettled, notUser
  <1>11. CASE StopRead \/ (\E k \in Jobs : StopFailJob(k)) \/ RequeueRead \/
              (\E k \in Jobs : RequeueFailJob(k))
    BY <1>11 DEF StopRead, StopFailJob, RequeueRead, RequeueFailJob, notUser
  <1>12. CASE UNCHANGED vars
    BY <1>12 DEF vars
  <1> QED
    BY <1>1, <1>2, <1>3, <1>4, <1>5, <1>6, <1>7, <1>8, <1>9, <1>10, <1>11,
       <1>12
      DEF Next, TaskStep, StopStep, RequeueStep

\* Past the point of no return nobody stops the file.
LEMMA ReturnKept ==
  TypeOK /\ LoopKnown /\ LockKnown /\ HandedOver /\ OwnerKnown /\ ProbeKnown /\ NoReturn /\ [Next]_vars
    => NoReturn'
  <1> SUFFICES ASSUME TypeOK, LoopKnown, LockKnown, HandedOver, OwnerKnown,
                      ProbeKnown, NoReturn, [Next]_vars
               PROVE  NoReturn'
    OBVIOUS
  <1>a. \A j \in Transcodes : task[j].at \notin FreeAt =>
           /\ file.owner = j /\ j # NoJob /\ loop.at \notin DispatchAt
           /\ \A i \in Transcodes : i # j => task[i].at \in FreeAt
    BY Alone
  <1>b. loop.at \in DispatchAt =>
           /\ loop.job \in Transcodes /\ loop.job # NoJob
           /\ file.owner \in {NoJob, loop.job}
           /\ \A j \in Transcodes : task[j].at \in FreeAt
    BY Alone
  <1> USE DEF TypeOK, Files, NoReturn, Stopped
  <1>1. CASE LoopStep
    <2>1. CASE ProbeClaim
      BY <2>1 DEF ProbeClaim, LoopAt, LoopTo, notLoop
    <2>2. CASE ProbeQueued
      BY <2>2, ProbeQueuedEffect DEF OwnsProbe
    <2>3. CASE ProbeFailed
      BY <2>3 DEF ProbeFailed, LoopAt, LoopTo, OwnsProbe, notLoop
    <2>4. CASE ProbeNoMatch
      BY <2>4 DEF ProbeNoMatch, LoopAt, LoopTo, OwnsProbe, notLoop
    <2>5. CASE ProbePublish
      BY <2>5 DEF ProbePublish, LoopAt, LoopTo, OwnsProbe, notLoop
    <2>6. CASE RecordCollision
      BY <2>6, <1>b DEF RecordCollision, LoopAt, LoopTo, notLoop
    <2>7. CASE ClaimFile
      BY <2>7, <1>b
        DEF ClaimFile, LoopAt, LoopTo, Claimed, Unpreparable, notLoop
    <2>8. CASE RollBackClaim
      BY <2>8, <1>b DEF RollBackClaim, LoopAt, LoopTo, Released, notLoop
    <2>9. CASE Reset
      BY <2>9, <1>b DEF Reset, LoopAt, LoopTo, LoopStops, Released, notLoop
    <2>10. CASE LoopRecount
      BY <2>10 DEF LoopRecount, LoopAt, notLoop
    <2>11. CASE LoopAggregate
      BY <2>11, <1>b
        DEF LoopAggregate, LoopAt, LoopStops, Recomputed, notLoop, Derive
    <2>12. CASE (\E g \in Gens : TakeProbe(g)) \/ ProbeCheck \/ ProbeEnqueue \/
                ProbeFence \/ ProbeDone \/
                (\E j \in Transcodes : TakeTranscode(j)) \/ PrepareRead \/
                PatchJob \/ ValidatePrepared \/ Assign \/ NoRunnerLeft \/ FailJob \/
                CompleteSkipped
      BY <2>12
        DEF TakeProbe, ProbeCheck, ProbeEnqueue, ProbeFence, ProbeDone,
            TakeTranscode, PrepareRead, PatchJob, ValidatePrepared, Assign,
            NoRunnerLeft, FailJob, CompleteSkipped, notLoop
    <2> QED
      BY <1>1, <2>1, <2>2, <2>3, <2>4, <2>5, <2>6, <2>7, <2>8, <2>9, <2>10,
         <2>11, <2>12
        DEF LoopStep
  <1>2. ASSUME NEW j \in Transcodes, CommitStep(j) PROVE NoReturn'
    <2>1. CASE Begin(j)
      BY <2>1, <1>a DEF Begin, TaskAt, TaskTo, Transitions, notTask, FreeAt
    <2>2. CASE Commit(j)
      BY <2>2, CommitEffect, <1>a DEF FreeAt
    <2>3. CASE Promote(j)
      BY <2>3, <1>a DEF Promote, TaskAt, TaskTo, Transitions, notTask, FreeAt
    <2>4. CASE JournalCommitted(j)
      BY <2>4, <1>a
        DEF JournalCommitted, TaskAt, TaskTo, Transitions, notTask, FreeAt
    <2>5. CASE Persist(j)
      BY <2>5, <1>a DEF Persist, TaskAt, TaskTo, notTask, FreeAt
    <2>6. CASE MarkReplaced(j)
      BY <2>6, <1>a DEF MarkReplaced, TaskAt, TaskTo, notTask, FreeAt
    <2>7. CASE TaskRecount(j)
      BY <2>7, <1>a DEF TaskRecount, TaskAt, notTask, FreeAt
    <2>8. CASE TaskAggregate(j)
      BY <2>8, <1>a DEF TaskAggregate, TaskAt, Recomputed, notTask, FreeAt
    <2>9. CASE JournalCleaned(j)
      BY <2>9, <1>a DEF JournalCleaned, TaskAt, TaskTo, notTask, FreeAt
    <2>10. CASE Unjournal(j)
      BY <2>10, <1>a DEF Unjournal, TaskAt, TaskTo, notTask, FreeAt
    <2>11. CASE Release(j)
      BY <2>11, <1>a
        DEF Release, TaskAt, TaskTo, Released, CanRelease, notTask, FreeAt
    <2>12. CASE EraseJournal(j)
      BY <2>12, <1>a DEF EraseJournal, TaskAt, TaskEnds, notTask, FreeAt
    <2>13. CASE FinalizeRead(j) \/ ValidateOutput(j) \/ BeforeFilters(j) \/
                RunFilters(j) \/ Link(j) \/ Complete(j) \/ Unlink(j) \/ Settle(j)
      BY <2>13
        DEF FinalizeRead, ValidateOutput, Attempt, BeforeFilters, RunFilters,
            Link, Complete, Unlink, Settle, notTask
    <2> QED
      BY <1>2, <2>1, <2>2, <2>3, <2>4, <2>5, <2>6, <2>7, <2>8, <2>9, <2>10,
         <2>11, <2>12, <2>13
        DEF CommitStep
  <1>3. ASSUME NEW j \in Transcodes, AbortStep(j) PROVE NoReturn'
    <2>1. CASE StopClean(j)
      BY <2>1, <1>a DEF StopClean, TaskAt, TaskTo, notTask, FreeAt, OwnerKnown
    <2>2. CASE StopRelease(j)
      BY <2>2, <1>a
        DEF StopRelease, TaskAt, TaskEnds, Released, notTask, FreeAt
    <2>3. CASE FailClaim(j)
      BY <2>3, <1>a DEF FailClaim, TaskAt, TaskTo, Transitions, notTask, FreeAt
    <2>4. CASE FailWrite(j)
      BY <2>4, FailWriteEffect, <1>a DEF FreeAt
    <2>5. CASE ReportUnrecovered(j)
      BY <2>5, <1>a DEF ReportUnrecovered, TaskAt, TaskTo, notTask, FreeAt
    <2>6. CASE StopCheck(j) \/ StopComplete(j) \/ FailRead(j) \/ FailTask(j) \/
               Recover(j)
      BY <2>6 DEF StopCheck, StopComplete, FailRead, FailTask, Recover, notTask
    <2> QED
      BY <1>3, <2>1, <2>2, <2>3, <2>4, <2>5, <2>6 DEF AbortStep
  <1>4. ASSUME NEW j \in Transcodes, LostStep(j) PROVE NoReturn'
    <2>1. CASE Retire(j)
      BY <2>1, <1>a
        DEF Retire, TaskAt, TaskTo, RetireOver, Transitions, Retired, Released,
            notTask, FreeAt
    <2>2. CASE RetireStopped(j)
      BY <2>2, <1>a
        DEF RetireStopped, TaskAt, TaskTo, Retired, Released, notTask, FreeAt
    <2>3. CASE LostRead(j) \/ RequeueLost(j) \/ FailLostJob(j)
      BY <2>3 DEF LostRead, RequeueLost, FailLostJob, notTask
    <2> QED
      BY <1>4, <2>1, <2>2, <2>3 DEF LostStep
  <1>5. CASE (\E j \in Transcodes : Report(j)) \/
             (\E j \in Transcodes : LoseRunner(j))
    BY <1>5 DEF Report, LoseRunner, notTask
  <1>6. CASE StopRead
    BY <1>6 DEF StopRead, notUser
  <1>7. CASE StopWrite
    BY <1>7 DEF StopWrite, UserIdle, notUser, LockKnown
  <1>8. CASE RequeueRead
    BY <1>8 DEF RequeueRead, Unsettled, notUser
  <1>9. CASE RequeuePublish
    BY <1>9 DEF RequeuePublish, notUser
  <1>10. CASE RequeueCreate
    BY <1>10 DEF RequeueCreate, UserIdle, notUser
  <1>11. ASSUME NEW s \in Settings, Replace(s) PROVE NoReturn'
    BY <1>11 DEF Replace, Unsettled, notUser
  <1>12. CASE Remove
    BY <1>12 DEF Remove, Unsettled, notUser
  <1>13. CASE (\E k \in Jobs : StopFailJob(k)) \/
              (\E k \in Jobs : RequeueFailJob(k))
    BY <1>13 DEF StopFailJob, RequeueFailJob, notUser
  <1>14. CASE UNCHANGED vars
    BY <1>14 DEF vars
  <1> QED
    BY <1>1, <1>2, <1>3, <1>4, <1>5, <1>6, <1>7, <1>8, <1>9, <1>10, <1>11,
       <1>12, <1>13, <1>14
      DEF Next, TaskStep, StopStep, RequeueStep

\* A step of a task moves its own job and nothing of the loop, the stop and the
\* requeue.
LEMMA OneTask ==
  ASSUME NEW j \in Transcodes, TypeOK, TaskStep(j) \/ LoseRunner(j)
  PROVE  /\ task[j].at # "none" /\ UNCHANGED <<gen, loop, stop, requeue>>
         /\ \A i \in Transcodes : i # j => task'[i] = task[i]
         /\ \A k \in Jobs : k # j => job'[k] = job[k]
  <1> USE DEF TypeOK, NoTask
  <1>1. CASE CommitStep(j)
    <2>1. CASE FinalizeRead(j)
      BY <2>1 DEF FinalizeRead, TaskAt, TaskTo, TaskEnds, notTask
    <2>2. CASE Begin(j)
      BY <2>2 DEF Begin, TaskAt, TaskTo, Transitions, notTask
    <2>3. CASE ValidateOutput(j)
      BY <2>3 DEF ValidateOutput, TaskAt, TaskTo, Attempt, notTask
    <2>4. CASE BeforeFilters(j)
      BY <2>4 DEF BeforeFilters, TaskAt, TaskTo, TaskEnds, notTask
    <2>5. CASE RunFilters(j)
      BY <2>5 DEF RunFilters, TaskAt, TaskTo, notTask
    <2>6. CASE Commit(j)
      BY <2>6, CommitEffect
    <2>7. CASE Promote(j)
      BY <2>7 DEF Promote, TaskAt, TaskTo, Transitions, notTask
    <2>8. CASE Link(j)
      BY <2>8 DEF Link, TaskAt, TaskTo, Attempt, notTask
    <2>9. CASE JournalCommitted(j)
      BY <2>9 DEF JournalCommitted, TaskAt, TaskTo, Transitions, notTask
    <2>10. CASE Persist(j)
      BY <2>10 DEF Persist, TaskAt, TaskTo, notTask
    <2>11. CASE MarkReplaced(j)
      BY <2>11 DEF MarkReplaced, TaskAt, TaskTo, notTask
    <2>12. CASE Complete(j)
      BY <2>12 DEF Complete, TaskAt, TaskTo, CompleteIfRunning, notTask
    <2>13. CASE TaskRecount(j)
      BY <2>13 DEF TaskRecount, TaskAt, notTask
    <2>14. CASE TaskAggregate(j)
      BY <2>14 DEF TaskAggregate, TaskAt, Recomputed, notTask
    <2>15. CASE JournalCleaned(j)
      BY <2>15 DEF JournalCleaned, TaskAt, TaskTo, notTask
    <2>16. CASE Unlink(j)
      BY <2>16 DEF Unlink, TaskAt, TaskTo, notTask
    <2>17. CASE Unjournal(j)
      BY <2>17 DEF Unjournal, TaskAt, TaskTo, notTask
    <2>18. CASE Release(j)
      BY <2>18 DEF Release, TaskAt, TaskTo, Released, CanRelease, notTask
    <2>19. CASE EraseJournal(j)
      BY <2>19 DEF EraseJournal, TaskAt, TaskEnds, notTask
    <2>20. CASE Settle(j)
      BY <2>20 DEF Settle, TaskAt, TaskEnds, FailIfActive, notTask
    <2> QED
      BY <1>1, <2>1, <2>2, <2>3, <2>4, <2>5, <2>6, <2>7, <2>8, <2>9, <2>10,
         <2>11, <2>12, <2>13, <2>14, <2>15, <2>16, <2>17, <2>18, <2>19, <2>20
        DEF CommitStep
  <1>2. CASE AbortStep(j)
    <2>1. CASE StopCheck(j)
      BY <2>1 DEF StopCheck, TaskAt, TaskTo, TaskEnds, notTask
    <2>2. CASE StopClean(j)
      BY <2>2 DEF StopClean, TaskAt, TaskTo, notTask
    <2>3. CASE StopComplete(j)
      BY <2>3 DEF StopComplete, TaskAt, TaskTo, CompleteIfRunning, notTask
    <2>4. CASE StopRelease(j)
      BY <2>4 DEF StopRelease, TaskAt, TaskEnds, Released, notTask
    <2>5. CASE FailRead(j)
      BY <2>5 DEF FailRead, TaskAt, TaskTo, notTask
    <2>6. CASE FailClaim(j)
      BY <2>6 DEF FailClaim, TaskAt, TaskTo, Transitions, notTask
    <2>7. CASE FailWrite(j)
      BY <2>7, FailWriteEffect
    <2>8. CASE FailTask(j)
      BY <2>8 DEF FailTask, TaskAt, TaskTo, FailIfActive, notTask
    <2>9. CASE Recover(j)
      BY <2>9 DEF Recover, TaskAt, TaskTo, notTask
    <2>10. CASE ReportUnrecovered(j)
      BY <2>10 DEF ReportUnrecovered, TaskAt, TaskTo, notTask
    <2> QED
      BY <1>2, <2>1, <2>2, <2>3, <2>4, <2>5, <2>6, <2>7, <2>8, <2>9, <2>10
        DEF AbortStep
  <1>3. CASE LostStep(j)
    <2>1. CASE LostRead(j)
      BY <2>1 DEF LostRead, TaskAt, TaskTo, TaskEnds, BelongsTo, notTask
    <2>2. CASE Retire(j)
      BY <2>2
        DEF Retire, TaskAt, TaskTo, RetireOver, Transitions, Retired, Released,
            notTask
    <2>3. CASE RequeueLost(j)
      BY <2>3 DEF RequeueLost, TaskAt, TaskEnds, notTask
    <2>4. CASE RetireStopped(j)
      BY <2>4 DEF RetireStopped, TaskAt, TaskTo, Retired, Released, notTask
    <2>5. CASE FailLostJob(j)
      BY <2>5 DEF FailLostJob, TaskAt, TaskEnds, notTask
    <2> QED
      BY <1>3, <2>1, <2>2, <2>3, <2>4, <2>5 DEF LostStep
  <1>4. CASE Report(j)
    BY <1>4 DEF Report, TaskAt, notTask
  <1>5. CASE LoseRunner(j)
    BY <1>5 DEF LoseRunner, TaskAt, TaskTo, notTask
  <1> QED
    BY <1>1, <1>2, <1>3, <1>4, <1>5 DEF TaskStep

\* A task keeps the journal and the outcome of its position.
LEMMA TaskKept ==
  ASSUME NEW j \in Transcodes, TypeOK, OwnerKnown, NoReturn, TaskKnown(j),
         EraseAlone, TaskStep(j) \/ LoseRunner(j)
  PROVE  TaskKnown(j)'
  <1> USE DEF TypeOK, Files, TaskKnown, JournaledAt, NoTask
  <1>1. CASE CommitStep(j)
    <2>1. CASE FinalizeRead(j)
      BY <2>1 DEF FinalizeRead, TaskAt, TaskTo, TaskEnds, notTask
    <2>2. CASE Begin(j)
      BY <2>2 DEF Begin, TaskAt, TaskTo, Transitions, notTask
    <2>3. CASE ValidateOutput(j)
      BY <2>3 DEF ValidateOutput, TaskAt, TaskTo, Attempt, notTask
    <2>4. CASE BeforeFilters(j)
      BY <2>4 DEF BeforeFilters, TaskAt, TaskTo, TaskEnds, notTask
    <2>5. CASE RunFilters(j)
      BY <2>5 DEF RunFilters, TaskAt, TaskTo, notTask
    <2>6. CASE Commit(j)
      BY <2>6, CommitEffect
    <2>7. CASE Promote(j)
      BY <2>7
        DEF Promote, TaskAt, TaskTo, Transitions, notTask, Journals, NoJournal
    <2>8. CASE Link(j)
      BY <2>8 DEF Link, TaskAt, TaskTo, Attempt, notTask
    <2>9. CASE JournalCommitted(j)
      BY <2>9
        DEF JournalCommitted, TaskAt, TaskTo, Transitions, notTask, Journals,
            NoJournal
    <2>10. CASE Persist(j)
      BY <2>10 DEF Persist, TaskAt, TaskTo, notTask
    <2>11. CASE MarkReplaced(j)
      BY <2>11 DEF MarkReplaced, TaskAt, TaskTo, notTask
    <2>12. CASE Complete(j)
      BY <2>12 DEF Complete, TaskAt, TaskTo, CompleteIfRunning, notTask
    <2>13. CASE TaskRecount(j)
      BY <2>13 DEF TaskRecount, TaskAt, notTask
    <2>14. CASE TaskAggregate(j)
      BY <2>14 DEF TaskAggregate, TaskAt, Recomputed, notTask
    <2>15. CASE JournalCleaned(j)
      BY <2>15 DEF JournalCleaned, TaskAt, TaskTo, notTask, Journals, NoJournal
    <2>16. CASE Unlink(j)
      BY <2>16 DEF Unlink, TaskAt, TaskTo, notTask
    <2>17. CASE Unjournal(j)
      BY <2>17 DEF Unjournal, TaskAt, TaskTo, notTask, NoJournal
    <2>18. CASE Release(j)
      BY <2>18 DEF Release, TaskAt, TaskTo, Released, CanRelease, notTask
    <2>19. CASE EraseJournal(j)
      BY <2>19 DEF EraseJournal, TaskAt, TaskEnds, notTask
    <2>20. CASE Settle(j)
      BY <2>20 DEF Settle, TaskAt, TaskEnds, FailIfActive, notTask
    <2> QED
      BY <1>1, <2>1, <2>2, <2>3, <2>4, <2>5, <2>6, <2>7, <2>8, <2>9, <2>10,
         <2>11, <2>12, <2>13, <2>14, <2>15, <2>16, <2>17, <2>18, <2>19, <2>20
        DEF CommitStep
  <1>2. CASE AbortStep(j)
    <2>1. CASE StopCheck(j)
      BY <2>1 DEF StopCheck, TaskAt, TaskTo, TaskEnds, notTask
    <2>2. CASE StopClean(j)
      BY <2>2 DEF StopClean, TaskAt, TaskTo, notTask
    <2>3. CASE StopComplete(j)
      BY <2>3 DEF StopComplete, TaskAt, TaskTo, CompleteIfRunning, notTask
    <2>4. CASE StopRelease(j)
      BY <2>4 DEF StopRelease, TaskAt, TaskEnds, Released, notTask
    <2>5. CASE FailRead(j)
      BY <2>5 DEF FailRead, TaskAt, TaskTo, notTask
    <2>6. CASE FailClaim(j)
      BY <2>6 DEF FailClaim, TaskAt, TaskTo, Transitions, notTask
    <2>7. CASE FailWrite(j)
      BY <2>7, FailWriteEffect
    <2>8. CASE FailTask(j)
      BY <2>8 DEF FailTask, TaskAt, TaskTo, FailIfActive, notTask
    <2>9. CASE Recover(j)
      BY <2>9 DEF Recover, TaskAt, TaskTo, notTask
    <2>10. CASE ReportUnrecovered(j)
      BY <2>10 DEF ReportUnrecovered, TaskAt, TaskTo, notTask
    <2> QED
      BY <1>2, <2>1, <2>2, <2>3, <2>4, <2>5, <2>6, <2>7, <2>8, <2>9, <2>10
        DEF AbortStep
  <1>3. CASE LostStep(j)
    <2>1. CASE LostRead(j)
      BY <2>1 DEF LostRead, TaskAt, TaskTo, TaskEnds, BelongsTo, notTask
    <2>2. CASE Retire(j)
      BY <2>2
        DEF Retire, TaskAt, TaskTo, RetireOver, Transitions, Retired, Released,
            notTask
    <2>3. CASE RequeueLost(j)
      BY <2>3 DEF RequeueLost, TaskAt, TaskEnds, notTask
    <2>4. CASE RetireStopped(j)
      BY <2>4 DEF RetireStopped, TaskAt, TaskTo, Retired, Released, notTask
    <2>5. CASE FailLostJob(j)
      BY <2>5 DEF FailLostJob, TaskAt, TaskEnds, notTask
    <2> QED
      BY <1>3, <2>1, <2>2, <2>3, <2>4, <2>5 DEF LostStep
  <1>4. CASE Report(j)
    BY <1>4 DEF Report, TaskAt, notTask
  <1>5. CASE LoseRunner(j)
    BY <1>5 DEF LoseRunner, TaskAt, TaskTo, notTask
  <1> QED
    BY <1>1, <1>2, <1>3, <1>4, <1>5 DEF TaskStep

\* The last step of a task that does not hold the file leaves the file alone,
\* unless it erases a journal.
LEMMA FreeTask ==
  ASSUME NEW j \in Transcodes, TypeOK, task[j].at \in FreeAt,
         TaskStep(j) \/ LoseRunner(j)
  PROVE  /\ task'[j] = NoTask /\ lock' = lock
         /\ \/ task[j].at = "erase" /\ file' = [file EXCEPT !.journal = NoJournal]
            \/ file' = file
  <1> USE DEF TypeOK, FreeAt, TaskAt, NoTask
  <1>1. CASE CommitStep(j)
    <2>1. CASE FinalizeRead(j)
      BY <2>1 DEF FinalizeRead, TaskAt, TaskTo, TaskEnds, notTask
    <2>2. CASE Begin(j)
      BY <2>2 DEF Begin, TaskAt, TaskTo, Transitions, notTask
    <2>3. CASE ValidateOutput(j)
      BY <2>3 DEF ValidateOutput, TaskAt, TaskTo, Attempt, notTask
    <2>4. CASE BeforeFilters(j)
      BY <2>4 DEF BeforeFilters, TaskAt, TaskTo, TaskEnds, notTask
    <2>5. CASE RunFilters(j)
      BY <2>5 DEF RunFilters, TaskAt, TaskTo, notTask
    <2>6. CASE Commit(j)
      BY <2>6, CommitEffect
    <2>7. CASE Promote(j)
      BY <2>7 DEF Promote, TaskAt, TaskTo, Transitions, notTask
    <2>8. CASE Link(j)
      BY <2>8 DEF Link, TaskAt, TaskTo, Attempt, notTask
    <2>9. CASE JournalCommitted(j)
      BY <2>9 DEF JournalCommitted, TaskAt, TaskTo, Transitions, notTask
    <2>10. CASE Persist(j)
      BY <2>10 DEF Persist, TaskAt, TaskTo, notTask
    <2>11. CASE MarkReplaced(j)
      BY <2>11 DEF MarkReplaced, TaskAt, TaskTo, notTask
    <2>12. CASE Complete(j)
      BY <2>12 DEF Complete, TaskAt, TaskTo, CompleteIfRunning, notTask
    <2>13. CASE TaskRecount(j)
      BY <2>13 DEF TaskRecount, TaskAt, notTask
    <2>14. CASE TaskAggregate(j)
      BY <2>14 DEF TaskAggregate, TaskAt, Recomputed, notTask
    <2>15. CASE JournalCleaned(j)
      BY <2>15 DEF JournalCleaned, TaskAt, TaskTo, notTask
    <2>16. CASE Unlink(j)
      BY <2>16 DEF Unlink, TaskAt, TaskTo, notTask
    <2>17. CASE Unjournal(j)
      BY <2>17 DEF Unjournal, TaskAt, TaskTo, notTask
    <2>18. CASE Release(j)
      BY <2>18 DEF Release, TaskAt, TaskTo, Released, CanRelease, notTask
    <2>19. CASE EraseJournal(j)
      BY <2>19 DEF EraseJournal, TaskAt, TaskEnds, notTask
    <2>20. CASE Settle(j)
      BY <2>20 DEF Settle, TaskAt, TaskEnds, FailIfActive, notTask
    <2> QED
      BY <1>1, <2>1, <2>2, <2>3, <2>4, <2>5, <2>6, <2>7, <2>8, <2>9, <2>10,
         <2>11, <2>12, <2>13, <2>14, <2>15, <2>16, <2>17, <2>18, <2>19, <2>20
        DEF CommitStep
  <1>2. CASE AbortStep(j)
    <2>1. CASE StopCheck(j)
      BY <2>1 DEF StopCheck, TaskAt, TaskTo, TaskEnds, notTask
    <2>2. CASE StopClean(j)
      BY <2>2 DEF StopClean, TaskAt, TaskTo, notTask
    <2>3. CASE StopComplete(j)
      BY <2>3 DEF StopComplete, TaskAt, TaskTo, CompleteIfRunning, notTask
    <2>4. CASE StopRelease(j)
      BY <2>4 DEF StopRelease, TaskAt, TaskEnds, Released, notTask
    <2>5. CASE FailRead(j)
      BY <2>5 DEF FailRead, TaskAt, TaskTo, notTask
    <2>6. CASE FailClaim(j)
      BY <2>6 DEF FailClaim, TaskAt, TaskTo, Transitions, notTask
    <2>7. CASE FailWrite(j)
      BY <2>7, FailWriteEffect
    <2>8. CASE FailTask(j)
      BY <2>8 DEF FailTask, TaskAt, TaskTo, FailIfActive, notTask
    <2>9. CASE Recover(j)
      BY <2>9 DEF Recover, TaskAt, TaskTo, notTask
    <2>10. CASE ReportUnrecovered(j)
      BY <2>10 DEF ReportUnrecovered, TaskAt, TaskTo, notTask
    <2> QED
      BY <1>2, <2>1, <2>2, <2>3, <2>4, <2>5, <2>6, <2>7, <2>8, <2>9, <2>10
        DEF AbortStep
  <1>3. CASE LostStep(j)
    <2>1. CASE LostRead(j)
      BY <2>1 DEF LostRead, TaskAt, TaskTo, TaskEnds, BelongsTo, notTask
    <2>2. CASE Retire(j)
      BY <2>2
        DEF Retire, TaskAt, TaskTo, RetireOver, Transitions, Retired, Released,
            notTask
    <2>3. CASE RequeueLost(j)
      BY <2>3 DEF RequeueLost, TaskAt, TaskEnds, notTask
    <2>4. CASE RetireStopped(j)
      BY <2>4 DEF RetireStopped, TaskAt, TaskTo, Retired, Released, notTask
    <2>5. CASE FailLostJob(j)
      BY <2>5 DEF FailLostJob, TaskAt, TaskEnds, notTask
    <2> QED
      BY <1>3, <2>1, <2>2, <2>3, <2>4, <2>5 DEF LostStep
  <1>4. CASE Report(j)
    BY <1>4 DEF Report, TaskAt, notTask
  <1>5. CASE LoseRunner(j)
    BY <1>5 DEF LoseRunner, TaskAt, TaskTo, notTask
  <1> QED
    BY <1>1, <1>2, <1>3, <1>4, <1>5 DEF TaskStep

\* Each task keeps the journal and the outcome of its position, and the loop
\* the journal of its claim.
LEMMA JournalKept ==
  TypeOK /\ LoopKnown /\ LockKnown /\ HandedOver /\ OwnerKnown /\ ProbeKnown /\ NoReturn /\
  JournalKnown /\ EraseAlone /\ [Next]_vars
    => JournalKnown'
  <1> SUFFICES ASSUME TypeOK, LoopKnown, LockKnown, HandedOver, OwnerKnown,
                      ProbeKnown, NoReturn, JournalKnown, EraseAlone,
                      [Next]_vars
               PROVE  JournalKnown'
    OBVIOUS
  <1>a. \A j \in Transcodes : task[j].at \notin FreeAt =>
           /\ file.owner = j /\ j # NoJob /\ loop.at \notin DispatchAt
           /\ \A i \in Transcodes : i # j => task[i].at \in FreeAt
    BY Alone
  <1>b. loop.at \in DispatchAt =>
           /\ loop.job \in Transcodes /\ loop.job # NoJob
           /\ file.owner \in {NoJob, loop.job}
           /\ \A j \in Transcodes : task[j].at \in FreeAt
    BY Alone
  <1>d. \A i \in Transcodes : task'[i].at \in FreeAt => TaskKnown(i)'
    BY DEF TaskKnown, FreeAt, JournaledAt
  <1> USE DEF TypeOK, Files, JournalKnown, TaskKnown, JournaledAt, ClaimedAt, LoopIdle
  <1>1. CASE LoopStep
    <2>1. ASSUME NEW g \in Gens, TakeProbe(g) PROVE JournalKnown'
      BY <2>1 DEF TakeProbe, LoopAt, notLoop
    <2>2. CASE ProbeClaim
      BY <2>2 DEF ProbeClaim, LoopAt, LoopTo, notLoop
    <2>3. CASE ProbeQueued
      <3>1. /\ file'.journal = file.journal /\ task' = task
            /\ file'.status = file.status \/ file.status = "pending"
        BY <2>3 DEF ProbeQueued, notLoop
      <3>2. loop'.at \notin ClaimedAt
        BY <2>3 DEF ProbeQueued, LoopTo
      <3> QED
        BY <3>1, <3>2
    <2>4. CASE ProbeFailed
      BY <2>4 DEF ProbeFailed, LoopAt, LoopTo, OwnsProbe, notLoop
    <2>5. CASE ProbeNoMatch
      BY <2>5 DEF ProbeNoMatch, LoopAt, LoopTo, OwnsProbe, notLoop
    <2>6. CASE ProbeCheck
      BY <2>6, ProbeCheckEffect DEF OwnsProbe
    <2>7. CASE ProbeEnqueue
      BY <2>7 DEF ProbeEnqueue, LoopAt, notLoop
    <2>8. CASE ProbePublish
      BY <2>8 DEF ProbePublish, LoopAt, LoopTo, OwnsProbe, notLoop
    <2>9. CASE ProbeFence
      BY <2>9 DEF ProbeFence, LoopAt, LoopTo, notLoop
    <2>10. CASE ProbeDone
      BY <2>10 DEF ProbeDone, LoopAt, LoopStops, CompleteIfRunning, notLoop
    <2>11. ASSUME NEW j \in Transcodes, TakeTranscode(j) PROVE JournalKnown'
      BY <2>11 DEF TakeTranscode, LoopAt, notLoop
    <2>12. CASE PrepareRead
      BY <2>12 DEF PrepareRead, LoopAt, LoopTo, Unpreparable, notLoop
    <2>13. CASE RecordCollision
      BY <2>13, <1>b, <1>d
        DEF RecordCollision, LoopAt, LoopTo, notLoop, DispatchAt, UnownedAt
    <2>14. CASE ClaimFile
      <3>1. \A i \in Transcodes : task'[i].at \in FreeAt
        BY <2>14, <1>b DEF ClaimFile, LoopAt, DispatchAt, UnownedAt, notLoop
      <3>2. loop'.at \in ClaimedAt => file'.journal.job = loop'.job
        <4>1. CASE file.owner = NoJob /\ file.status \notin Unpreparable
          <5>1. file' = Claimed(file, loop.job) /\ loop' = [loop EXCEPT !.at = "patch"]
            BY <2>14, <4>1 DEF ClaimFile, LoopTo
          <5>2. file'.journal = [job |-> loop.job, phase |-> "prepared"]
            BY <5>1 DEF Claimed
          <5>3. loop'.job = loop.job
            BY <5>1
          <5> QED
            BY <5>2, <5>3
        <4>2. CASE ~(file.owner = NoJob /\ file.status \notin Unpreparable)
          BY <2>14, <4>2 DEF ClaimFile, LoopTo
        <4> QED
          BY <4>1, <4>2
      <3> QED
        BY <3>1, <3>2, <1>d
    <2>15. CASE PatchJob
      BY <2>15 DEF PatchJob, LoopAt, LoopTo, notLoop
    <2>16. CASE RollBackClaim
      BY <2>16, <1>b, <1>d
        DEF RollBackClaim, LoopAt, LoopTo, Released, notLoop, DispatchAt
    <2>17. CASE ValidatePrepared
      BY <2>17
        DEF ValidatePrepared, LoopAt, LoopTo, PreparedTaskMatches, notLoop
    <2>18. CASE Assign
      BY <2>18, <1>b DEF Assign, LoopAt, LoopStops, notLoop
    <2>19. CASE NoRunnerLeft
      BY <2>19 DEF NoRunnerLeft, LoopAt, LoopTo, notLoop
    <2>20. CASE Reset
      BY <2>20, <1>b, <1>d
        DEF Reset, LoopAt, LoopTo, LoopStops, Released, notLoop, DispatchAt,
            UnownedAt
    <2>21. CASE FailJob
      BY <2>21 DEF FailJob, LoopAt, LoopTo, FailIfActive, notLoop
    <2>22. CASE LoopRecount
      BY <2>22 DEF LoopRecount, LoopAt, notLoop
    <2>23. CASE LoopAggregate
      BY <2>23, <1>b, <1>d
        DEF LoopAggregate, LoopAt, LoopStops, Recomputed, notLoop, DispatchAt,
            UnownedAt
    <2>24. CASE CompleteSkipped
      BY <2>24
        DEF CompleteSkipped, LoopAt, LoopStops, CompleteIfRunning, notLoop
    <2> QED
      BY <1>1, <2>1, <2>2, <2>3, <2>4, <2>5, <2>6, <2>7, <2>8, <2>9, <2>10,
         <2>11, <2>12, <2>13, <2>14, <2>15, <2>16, <2>17, <2>18, <2>19, <2>20,
         <2>21, <2>22, <2>23, <2>24
        DEF LoopStep
  <1>2. ASSUME NEW j \in Transcodes, TaskStep(j) \/ LoseRunner(j) PROVE JournalKnown'
    <2>1. loop' = loop /\ \A i \in Transcodes : i # j => task'[i] = task[i]
      BY <1>2, OneTask
    <2>2. TaskKnown(j)'
      BY <1>2, TaskKept DEF JournalKnown
    <2>3. task[j].at \in FreeAt =>
             /\ task'[j] = NoTask
             /\ task[j].at = "erase" \/ file' = file
      BY <1>2, FreeTask
    <2>4. task[j].at = "erase" => file.owner = NoJob /\ loop.at \notin ClaimedAt
      BY DEF EraseAlone, ClaimedAt, ProbeAt
    <2>5. ASSUME NEW i \in Transcodes, i # j PROVE TaskKnown(i)'
      <3>1. CASE task[i].at \in FreeAt
        BY <1>d, <2>1, <2>5, <3>1
      <3>2. CASE task[i].at \notin FreeAt
        <4>1. file' = file /\ task'[i] = task[i]
          BY <1>a, <2>1, <2>3, <2>4, <2>5, <3>2
        <4> QED
          BY <4>1 DEF JournalKnown, TaskKnown
      <3> QED
        BY <3>1, <3>2
    <2>6. loop'.at \in ClaimedAt => file'.journal.job = loop'.job
      <3>1. loop.at \in ClaimedAt => file' = file
        BY <1>b, <2>3, <2>4 DEF DispatchAt
      <3> QED
        BY <2>1, <3>1 DEF JournalKnown
    <2> QED
      BY <2>2, <2>5, <2>6 DEF JournalKnown
  <1>3. CASE StopWrite
    BY <1>3, <1>a
      DEF StopWrite, UserIdle, notUser, LockKnown, NoReturn, OwnerKnown,
          FinishAt
  <1>4. CASE RequeuePublish
    BY <1>4, <1>a DEF RequeuePublish, notUser, ProbeKnown, FreeAt
  <1>5. CASE RequeueCreate
      <3>1. /\ file'.journal = file.journal /\ task' = task /\ loop' = loop
            /\ file'.status = file.status \/ file.status = "pending"
        BY <1>5 DEF RequeueCreate, notUser
      <3> QED
        BY <3>1
  <1>6. ASSUME NEW s \in Settings, Replace(s) PROVE JournalKnown'
    BY <1>6, <1>a DEF Replace, Unsettled, notUser
  <1>7. CASE Remove
      <3>1. /\ file.owner = NoJob /\ task' = task /\ loop' = loop
        BY <1>7 DEF Remove, Unsettled, notUser
      <3>2. \A i \in Transcodes : task'[i].at \in FreeAt
        BY <3>1, <1>a
      <3>3. loop.at \notin ClaimedAt
        BY <3>1, <1>b DEF OwnerKnown, DispatchAt
      <3> QED
        BY <3>1, <3>2, <3>3, <1>d
  <1>8. CASE StopRead \/ (\E k \in Jobs : StopFailJob(k)) \/ RequeueRead \/
             (\E k \in Jobs : RequeueFailJob(k))
    BY <1>8 DEF StopRead, StopFailJob, RequeueRead, RequeueFailJob, notUser
  <1>9. CASE UNCHANGED vars
    BY <1>9 DEF vars
  <1> QED
    BY <1>1, <1>2, <1>3, <1>4, <1>5, <1>6, <1>7, <1>8, <1>9
      DEF Next, StopStep, RequeueStep

\* A task goes on to erase a journal from its release only.
LEMMA EraseStart ==
  ASSUME NEW j \in Transcodes, TypeOK, task'[j].at = "erase",
         TaskStep(j) \/ LoseRunner(j)
  PROVE  Release(j) /\ CanRelease(j) /\ task[j].res = "replaced"
  <1> USE DEF TypeOK, TaskAt, NoTask
  <1>1. CASE CommitStep(j)
    <2>1. CASE FinalizeRead(j)
      BY <2>1 DEF FinalizeRead, TaskAt, TaskTo, TaskEnds, notTask
    <2>2. CASE Begin(j)
      BY <2>2 DEF Begin, TaskAt, TaskTo, Transitions, notTask
    <2>3. CASE ValidateOutput(j)
      BY <2>3 DEF ValidateOutput, TaskAt, TaskTo, Attempt, notTask
    <2>4. CASE BeforeFilters(j)
      BY <2>4 DEF BeforeFilters, TaskAt, TaskTo, TaskEnds, notTask
    <2>5. CASE RunFilters(j)
      BY <2>5 DEF RunFilters, TaskAt, TaskTo, notTask
    <2>6. CASE Commit(j)
      BY <2>6, CommitEffect
    <2>7. CASE Promote(j)
      BY <2>7 DEF Promote, TaskAt, TaskTo, Transitions, notTask
    <2>8. CASE Link(j)
      BY <2>8 DEF Link, TaskAt, TaskTo, Attempt, notTask
    <2>9. CASE JournalCommitted(j)
      BY <2>9 DEF JournalCommitted, TaskAt, TaskTo, Transitions, notTask
    <2>10. CASE Persist(j)
      BY <2>10 DEF Persist, TaskAt, TaskTo, notTask
    <2>11. CASE MarkReplaced(j)
      BY <2>11 DEF MarkReplaced, TaskAt, TaskTo, notTask
    <2>12. CASE Complete(j)
      BY <2>12 DEF Complete, TaskAt, TaskTo, CompleteIfRunning, notTask
    <2>13. CASE TaskRecount(j)
      BY <2>13 DEF TaskRecount, TaskAt, notTask
    <2>14. CASE TaskAggregate(j)
      BY <2>14 DEF TaskAggregate, TaskAt, Recomputed, notTask
    <2>15. CASE JournalCleaned(j)
      BY <2>15 DEF JournalCleaned, TaskAt, TaskTo, notTask
    <2>16. CASE Unlink(j)
      BY <2>16 DEF Unlink, TaskAt, TaskTo, notTask
    <2>17. CASE Unjournal(j)
      BY <2>17 DEF Unjournal, TaskAt, TaskTo, notTask
    <2>18. CASE Release(j)
      BY <2>18 DEF Release, TaskAt, TaskTo, Released, CanRelease, notTask
    <2>19. CASE EraseJournal(j)
      BY <2>19 DEF EraseJournal, TaskAt, TaskEnds, notTask
    <2>20. CASE Settle(j)
      BY <2>20 DEF Settle, TaskAt, TaskEnds, FailIfActive, notTask
    <2> QED
      BY <1>1, <2>1, <2>2, <2>3, <2>4, <2>5, <2>6, <2>7, <2>8, <2>9, <2>10,
         <2>11, <2>12, <2>13, <2>14, <2>15, <2>16, <2>17, <2>18, <2>19, <2>20
        DEF CommitStep
  <1>2. CASE AbortStep(j)
    <2>1. CASE StopCheck(j)
      BY <2>1 DEF StopCheck, TaskAt, TaskTo, TaskEnds, notTask
    <2>2. CASE StopClean(j)
      BY <2>2 DEF StopClean, TaskAt, TaskTo, notTask
    <2>3. CASE StopComplete(j)
      BY <2>3 DEF StopComplete, TaskAt, TaskTo, CompleteIfRunning, notTask
    <2>4. CASE StopRelease(j)
      BY <2>4 DEF StopRelease, TaskAt, TaskEnds, Released, notTask
    <2>5. CASE FailRead(j)
      BY <2>5 DEF FailRead, TaskAt, TaskTo, notTask
    <2>6. CASE FailClaim(j)
      BY <2>6 DEF FailClaim, TaskAt, TaskTo, Transitions, notTask
    <2>7. CASE FailWrite(j)
      BY <2>7, FailWriteEffect
    <2>8. CASE FailTask(j)
      BY <2>8 DEF FailTask, TaskAt, TaskTo, FailIfActive, notTask
    <2>9. CASE Recover(j)
      BY <2>9 DEF Recover, TaskAt, TaskTo, notTask
    <2>10. CASE ReportUnrecovered(j)
      BY <2>10 DEF ReportUnrecovered, TaskAt, TaskTo, notTask
    <2> QED
      BY <1>2, <2>1, <2>2, <2>3, <2>4, <2>5, <2>6, <2>7, <2>8, <2>9, <2>10
        DEF AbortStep
  <1>3. CASE LostStep(j)
    <2>1. CASE LostRead(j)
      BY <2>1 DEF LostRead, TaskAt, TaskTo, TaskEnds, BelongsTo, notTask
    <2>2. CASE Retire(j)
      BY <2>2
        DEF Retire, TaskAt, TaskTo, RetireOver, Transitions, Retired, Released,
            notTask
    <2>3. CASE RequeueLost(j)
      BY <2>3 DEF RequeueLost, TaskAt, TaskEnds, notTask
    <2>4. CASE RetireStopped(j)
      BY <2>4 DEF RetireStopped, TaskAt, TaskTo, Retired, Released, notTask
    <2>5. CASE FailLostJob(j)
      BY <2>5 DEF FailLostJob, TaskAt, TaskEnds, notTask
    <2> QED
      BY <1>3, <2>1, <2>2, <2>3, <2>4, <2>5 DEF LostStep
  <1>4. CASE Report(j)
    BY <1>4 DEF Report, TaskAt, notTask
  <1>5. CASE LoseRunner(j)
    BY <1>5 DEF LoseRunner, TaskAt, TaskTo, notTask
  <1> QED
    BY <1>1, <1>2, <1>3, <1>4, <1>5 DEF TaskStep

\* Nobody claims or changes the file between the release of an overwrite and
\* the erasure of its journal.
LEMMA EraseKept ==
  TypeOK /\ LoopKnown /\ LockKnown /\ HandedOver /\ OwnerKnown /\ ProbeKnown /\ NoReturn /\
  JournalKnown /\ EraseAlone /\ [Next]_vars
    => EraseAlone'
  <1> SUFFICES ASSUME TypeOK, LoopKnown, LockKnown, HandedOver, OwnerKnown,
                      ProbeKnown, NoReturn, JournalKnown, EraseAlone,
                      [Next]_vars
               PROVE  EraseAlone'
    OBVIOUS
  <1>a. \A j \in Transcodes : task[j].at \notin FreeAt =>
           /\ file.owner = j /\ j # NoJob /\ loop.at \notin DispatchAt
           /\ \A i \in Transcodes : i # j => task[i].at \in FreeAt
    BY Alone
  <1>b. loop.at \in DispatchAt =>
           /\ loop.job \in Transcodes /\ loop.job # NoJob
           /\ file.owner \in {NoJob, loop.job}
           /\ \A j \in Transcodes : task[j].at \in FreeAt
    BY Alone
  <1> USE DEF TypeOK, Files, EraseAlone, ProbeAt, LoopIdle
  <1>1. CASE LoopStep
    <2>1. ASSUME NEW g \in Gens, TakeProbe(g) PROVE EraseAlone'
      BY <2>1 DEF TakeProbe, LoopAt, notLoop
    <2>2. CASE ProbeClaim
      BY <2>2 DEF ProbeClaim, LoopAt, LoopTo, notLoop
    <2>3. CASE ProbeQueued
      BY <2>3, ProbeQueuedEffect DEF OwnsProbe
    <2>4. CASE ProbeFailed
      BY <2>4 DEF ProbeFailed, LoopAt, LoopTo, OwnsProbe, notLoop
    <2>5. CASE ProbeNoMatch
      BY <2>5 DEF ProbeNoMatch, LoopAt, LoopTo, OwnsProbe, notLoop
    <2>6. CASE ProbeCheck
      BY <2>6, ProbeCheckEffect DEF OwnsProbe
    <2>7. CASE ProbeEnqueue
      BY <2>7 DEF ProbeEnqueue, LoopAt, notLoop
    <2>8. CASE ProbePublish
      BY <2>8 DEF ProbePublish, LoopAt, LoopTo, OwnsProbe, notLoop
    <2>9. CASE ProbeFence
      BY <2>9 DEF ProbeFence, LoopAt, LoopTo, notLoop
    <2>10. CASE ProbeDone
      BY <2>10 DEF ProbeDone, LoopAt, LoopStops, CompleteIfRunning, notLoop
    <2>11. ASSUME NEW j \in Transcodes, TakeTranscode(j) PROVE EraseAlone'
      BY <2>11 DEF TakeTranscode, LoopAt, notLoop
    <2>12. CASE PrepareRead
      BY <2>12 DEF PrepareRead, LoopAt, LoopTo, Unpreparable, notLoop
    <2>13. CASE RecordCollision
      BY <2>13 DEF RecordCollision, LoopAt, LoopTo, notLoop
    <2>14. CASE ClaimFile
      BY <2>14 DEF ClaimFile, LoopAt, LoopTo, Claimed, Unpreparable, notLoop
    <2>15. CASE PatchJob
      BY <2>15 DEF PatchJob, LoopAt, LoopTo, notLoop
    <2>16. CASE RollBackClaim
      BY <2>16 DEF RollBackClaim, LoopAt, LoopTo, Released, notLoop
    <2>17. CASE ValidatePrepared
      BY <2>17
        DEF ValidatePrepared, LoopAt, LoopTo, PreparedTaskMatches, notLoop
    <2>18. CASE Assign
      BY <2>18 DEF Assign, LoopAt, LoopStops, notLoop
    <2>19. CASE NoRunnerLeft
      BY <2>19 DEF NoRunnerLeft, LoopAt, LoopTo, notLoop
    <2>20. CASE Reset
      BY <2>20 DEF Reset, LoopAt, LoopTo, LoopStops, Released, notLoop
    <2>21. CASE FailJob
      BY <2>21 DEF FailJob, LoopAt, LoopTo, FailIfActive, notLoop
    <2>22. CASE LoopRecount
      BY <2>22 DEF LoopRecount, LoopAt, notLoop
    <2>23. CASE LoopAggregate
      BY <2>23 DEF LoopAggregate, LoopAt, LoopStops, Recomputed, notLoop
    <2>24. CASE CompleteSkipped
      BY <2>24
        DEF CompleteSkipped, LoopAt, LoopStops, CompleteIfRunning, notLoop
    <2> QED
      BY <1>1, <2>1, <2>2, <2>3, <2>4, <2>5, <2>6, <2>7, <2>8, <2>9, <2>10,
         <2>11, <2>12, <2>13, <2>14, <2>15, <2>16, <2>17, <2>18, <2>19, <2>20,
         <2>21, <2>22, <2>23, <2>24
        DEF LoopStep
  <1>2. ASSUME NEW j \in Transcodes, TaskStep(j) \/ LoseRunner(j) PROVE EraseAlone'
    <2>1. /\ loop' = loop /\ task[j].at # "none"
          /\ \A i \in Transcodes : i # j => task'[i] = task[i]
      BY <1>2, OneTask
    <2>2. ASSUME NEW i \in Transcodes, i # j, task'[i].at = "erase"
          PROVE  UNCHANGED <<file, lock, loop, task[i]>>
      <3>1. task[i].at = "erase"
        BY <2>1, <2>2
      <3>2. /\ file.owner = NoJob /\ file.journal.job = i
            /\ task[j].at \in FreeAt
        BY <3>1, <1>a DEF EraseAlone
      <3>3. task[j].at # "erase"
        BY <3>2, <2>2 DEF EraseAlone
      <3> QED
        BY <1>2, <2>1, <2>2, <3>2, <3>3, FreeTask
    <2>3. ASSUME task'[j].at = "erase"
          PROVE  Release(j) /\ CanRelease(j) /\ task[j].res = "replaced"
      BY <1>2, <2>3, EraseStart DEF TypeOK
    <2>4. ASSUME task'[j].at = "erase"
          PROVE  /\ file'.owner = NoJob /\ file'.status = "replaced" /\ lock' # "stop"
                 /\ file'.journal = [job |-> j, phase |-> "cleaned"]
                 /\ loop'.at \in ProbeAt \union {"idle", "read", "complete"}
      <3>1. /\ task[j].at = "release" /\ task[j].res = "replaced" /\ lock = "free" /\ lock' = lock
            /\ file' = Released(file)
        BY <2>3, <2>4 DEF Release, TaskAt
      <3>2. file.status = "replaced" /\ file.journal = [job |-> j, phase |-> "cleaned"]
        BY <3>1 DEF JournalKnown, TaskKnown
      <3>3. loop.at \notin DispatchAt
        BY <3>1, <1>a DEF FreeAt
      <3>4. loop.at \in ProbeAt \union {"idle"}
        BY <3>3 DEF TypeOK, LoopSteps, DispatchAt, UnownedAt, ClaimedAt, ProbeAt
      <3> QED
        BY <2>1, <3>1, <3>2, <3>4 DEF Released, TypeOK, Files
    <2>5. ASSUME NEW i \in Transcodes, task'[i].at = "erase"
          PROVE  /\ file'.owner = NoJob /\ file'.status = "replaced" /\ lock' # "stop"
                 /\ file'.journal = [job |-> i, phase |-> "cleaned"]
                 /\ loop'.at \in ProbeAt \union {"idle", "read", "complete"}
      BY <2>2, <2>4, <2>5 DEF EraseAlone
    <2> QED
      BY <2>5 DEF EraseAlone
  <1>3. CASE StopRead
    BY <1>3 DEF StopRead, notUser, Stoppable
  <1>4. CASE StopWrite
    BY <1>4 DEF StopWrite, UserIdle, notUser, LockKnown
  <1>5. CASE RequeueRead
    BY <1>5 DEF RequeueRead, Unsettled, notUser, NoJournal
  <1>6. CASE RequeuePublish
    BY <1>6 DEF RequeuePublish, notUser, ProbeKnown, NoJournal
  <1>7. CASE RequeueCreate
    BY <1>7 DEF RequeueCreate, UserIdle, notUser, ProbeKnown, NoJournal
  <1>8. ASSUME NEW s \in Settings, Replace(s) PROVE EraseAlone'
    BY <1>8 DEF Replace, Unsettled, notUser, NoJournal
  <1>9. CASE Remove
    BY <1>9 DEF Remove, Unsettled, notUser, NoJournal
  <1>10. CASE (\E k \in Jobs : StopFailJob(k)) \/
              (\E k \in Jobs : RequeueFailJob(k))
    BY <1>10 DEF StopFailJob, RequeueFailJob, notUser
  <1>11. CASE UNCHANGED vars
    BY <1>11 DEF vars
  <1> QED
    BY <1>1, <1>2, <1>3, <1>4, <1>5, <1>6, <1>7, <1>8, <1>9, <1>10, <1>11
      DEF Next, StopStep, RequeueStep

-----------------------------------------------------------------------------
(***************************************************************************)
(* What a requeue leaves of the older generations.                         *)
(***************************************************************************)
\* Nobody but the loop moves the loop, and nobody but a requeue the requeue.
LEMMA LoopStill == TypeOK /\ [Next]_vars /\ ~LoopStep => loop' = loop
  <1> SUFFICES ASSUME TypeOK, [Next]_vars, ~LoopStep PROVE loop' = loop
    OBVIOUS
  <1>1. ASSUME NEW j \in Transcodes, TaskStep(j) \/ LoseRunner(j) PROVE loop' = loop
    BY <1>1, OneTask
  <1>2. CASE StopStep \/ RequeueStep \/ (\E s \in Settings : Replace(s)) \/ Remove \/ UNCHANGED vars
    <2>1. loop' = loop
      BY <1>2 DEF StopStep, StopRead, StopWrite, StopFailJob, RequeueStep, RequeueRead,
          RequeueFailJob, RequeuePublish, RequeueCreate, Replace, Remove, notUser, vars
    <2> QED
      BY <2>1
  <1> QED
    BY <1>1, <1>2 DEF Next

\* A job that the loop queues for a probe the file has lost is failed by the
\* fence before the loop leaves that probe.
LEMMA EnqueuedKept ==
  ASSUME TypeOK, LoopKnown, [Next]_vars,
         NEW j \in Transcodes, Enqueued(j), file.probe # Gen(j)
  PROVE  ~Active(j)' \/ Enqueued(j)'
  <1>1. /\ loop.at \in EnqueueAt /\ Gen(loop.job) = Gen(j) /\ loop.job = ProbeJob(Gen(j))
    BY JobGens, ProbeJobs DEF Enqueued
  <1>2. ASSUME loop'.at \in EnqueueAt, loop'.job = loop.job PROVE Enqueued(j)'
    BY <1>1, <1>2 DEF Enqueued, ProbeJob, Gen
  <1>3. CASE LoopStep
    <2>1. CASE ProbeCheck
      <3>1. loop'.job = loop.job /\ loop'.at \in {"probe-enqueue", "probe-publish"}
        BY <2>1 DEF ProbeCheck, TypeOK
      <3> QED
        BY <1>2, <3>1 DEF EnqueueAt
    <2>2. CASE ProbeEnqueue
      <3>1. loop'.job = loop.job /\ loop'.at \in {"probe-check", "probe-publish"}
        BY <2>2 DEF ProbeEnqueue, TypeOK
      <3> QED
        BY <1>2, <3>1 DEF EnqueueAt
    <2>3. CASE ProbePublish
      <3>1. loop'.job = loop.job /\ loop'.at = "probe-fence"
        BY <1>1, <2>3 DEF ProbePublish, OwnsProbe, LoopTo, TypeOK
      <3> QED
        BY <1>2, <3>1 DEF EnqueueAt
    <2>4. CASE ProbeFence
      <3>1. job'[j] = IF Active(j) THEN "failed" ELSE job[j]
        BY <1>1, <2>4, JobGens DEF ProbeFence, ActiveTranscodes
      <3> QED
        BY <3>1 DEF Active
    <2> QED
      BY <1>1, <1>3, <2>1, <2>2, <2>3, <2>4
      DEF LoopStep, EnqueueAt, LoopAt, TakeProbe, ProbeClaim, ProbeQueued, ProbeFailed,
          ProbeNoMatch, ProbeDone, TakeTranscode, PrepareRead, RecordCollision, ClaimFile,
          PatchJob, RollBackClaim, ValidatePrepared, Assign, NoRunnerLeft, Reset, FailJob,
          LoopRecount, LoopAggregate, CompleteSkipped
  <1>4. CASE ~LoopStep
    BY <1>1, <1>2, <1>4, LoopStill
  <1> QED
    BY <1>3, <1>4

\* What a requeue lists, it fails.
LEMMA RequeueMove ==
  TypeOK /\ [Next]_vars /\ requeue'.at = "fail" =>
    \/ requeue.at = "idle" /\ requeue'.jobs = Outstanding /\ job' = job
    \/ /\ requeue.at = "fail"
       /\ \A k \in requeue.jobs : k \in requeue'.jobs \/ job'[k] \notin {"pending", "running"}
  <1> SUFFICES ASSUME TypeOK, [Next]_vars, requeue'.at = "fail"
               PROVE  \/ requeue.at = "idle" /\ requeue'.jobs = Outstanding /\ job' = job
                      \/ /\ requeue.at = "fail"
                         /\ \A k \in requeue.jobs :
                               k \in requeue'.jobs \/ job'[k] \notin {"pending", "running"}
    OBVIOUS
  <1>1. CASE LoopStep
    <2>1. requeue' = requeue
      BY <1>1 DEF LoopStep, notLoop, TakeProbe, ProbeClaim, ProbeQueued, ProbeFailed, ProbeNoMatch,
          ProbeCheck, ProbeEnqueue, ProbePublish, ProbeFence, ProbeDone,
          TakeTranscode, PrepareRead, RecordCollision, ClaimFile, PatchJob,
          RollBackClaim, ValidatePrepared, Assign, NoRunnerLeft, Reset,
          FailJob, LoopRecount, LoopAggregate, CompleteSkipped
    <2> QED
      BY <2>1
  <1>2. ASSUME NEW j \in Transcodes, TaskStep(j) \/ LoseRunner(j) PROVE requeue' = requeue
    BY <1>2, OneTask
  <1>3. CASE StopStep \/ (\E s \in Settings : Replace(s)) \/ Remove \/ UNCHANGED vars
    <2>1. requeue' = requeue
      BY <1>3 DEF StopStep, StopRead, StopWrite, StopFailJob, Replace, Remove, notUser, vars
    <2> QED
      BY <2>1
  <1>4. CASE RequeueRead
    BY <1>4 DEF RequeueRead
  <1>5. ASSUME NEW k \in Jobs, RequeueFailJob(k)
        PROVE  /\ requeue.at = "fail"
               /\ \A i \in requeue.jobs : i \in requeue'.jobs \/ job'[i] \notin {"pending", "running"}
    <2>1. job'[k] \notin {"pending", "running"}
      BY <1>5 DEF RequeueFailJob, FailIfActive, Active, TypeOK
    <2>2. requeue.at = "fail" /\ requeue'.jobs = requeue.jobs \ {k}
      BY <1>5 DEF RequeueFailJob, TypeOK
    <2> QED
      BY <2>1, <2>2
  <1>6. CASE RequeuePublish \/ RequeueCreate
    BY <1>6 DEF RequeuePublish, RequeueCreate, UserIdle, TypeOK
  <1> QED
    BY <1>1, <1>2, <1>3, <1>4, <1>5, <1>6 DEF Next, RequeueStep

\* Of an older generation only what the loop is queueing is left, and a requeue
\* has the rest in hand.
LEMMA OldKept ==
  /\ TypeOK /\ LoopKnown /\ OwnerKnown /\ ProbeKnown /\ OldKnown /\ [Next]_vars
  => OldKnown'
  <1> SUFFICES ASSUME TypeOK, LoopKnown, OwnerKnown, ProbeKnown, OldKnown, [Next]_vars
               PROVE  OldKnown'
    OBVIOUS
  <1>1. LoopMoves /\ \A j \in Jobs : JobMoves(j)
    BY LoopMove, JobsMove
  <1>2. CASE gen' = gen + 1 /\ requeue.at = "fail" /\ requeue.jobs = {} /\ requeue'.at # "fail"
             /\ UNCHANGED <<job, loop>>
    <2>1. Outstanding' = Outstanding /\ \A j \in Jobs : Enqueued(j)' <=> Enqueued(j)
      BY <1>2 DEF Outstanding, Active, Enqueued, ProbeJob, Gen
    <2>2. \A j \in Outstanding : j \in Transcodes /\ Enqueued(j)
      BY <1>2 DEF OldKnown
    <2>3. Outstanding \subseteq Jobs
      BY DEF Outstanding
    <2> QED
      BY <1>2, <2>1, <2>2, <2>3 DEF OldKnown
  <1>3. CASE gen' = gen
    <2>1. ASSUME NEW j \in Jobs, Active(j)', ~Active(j)
          PROVE  (j \in Transcodes /\ Enqueued(j)') \/ (Gen(j) = gen /\ requeue'.at = "idle")
      <3>1. CASE loop.at = "probe-enqueue" /\ j = <<Gen(loop.job), loop.next>>
                   /\ loop'.at \in {"probe-check", "probe-publish"}
        <4>1. loop.job = ProbeJob(Gen(loop.job)) /\ Gen(loop.job) \in Gens /\ loop.next \in Settings
          BY <3>1, ProbeJobs DEF LoopKnown, ProbeAt
        <4>2. j \in Transcodes /\ Gen(j) = Gen(loop.job)
          BY <3>1, <4>1, TranscodeJobs
        <4>3. loop'.job = loop.job
          BY <1>1, <3>1 DEF LoopMoves, LoopIdle
        <4> QED
          BY <3>1, <4>1, <4>2, <4>3 DEF Enqueued, EnqueueAt, ProbeJob, Gen
      <3>2. CASE j = ProbeJob(gen) /\ requeue'.at = "idle"
        BY <3>2, ProbeJobs DEF TypeOK
      <3> QED
        BY <1>1, <2>1, <3>1, <3>2 DEF JobMoves, Active
    <2>2. ASSUME NEW j \in Transcodes, Active(j)', Enqueued(j), Gen(j) # file.probe
          PROVE  Enqueued(j)'
      BY <2>2, EnqueuedKept
    <2>3. ASSUME NEW j \in Jobs, Active(j)', Gen(j) < gen
          PROVE  j \in Transcodes /\ Enqueued(j)'
      <3>1. Gen(j) # gen /\ Gen(j) # 0
        BY <2>3, JobGens DEF TypeOK, Gens
      <3>2. CASE Active(j)
        <4>1. j \in Transcodes /\ Enqueued(j)
          BY <2>3, <3>2 DEF OldKnown, Outstanding
        <4>2. Gen(j) # file.probe
          BY <3>1 DEF ProbeKnown
        <4> QED
          BY <2>2, <2>3, <4>1, <4>2
      <3> QED
        BY <2>1, <2>3, <3>1, <3>2
    <2>4. ASSUME NEW j \in Jobs, Active(j)', requeue'.at = "fail"
          PROVE  j \in requeue'.jobs \/ (j \in Transcodes /\ Enqueued(j)')
      <3>1. CASE requeue.at = "idle" /\ requeue'.jobs = Outstanding /\ job' = job
        BY <2>4, <3>1 DEF Outstanding, Active
      <3>2. CASE /\ requeue.at = "fail"
                 /\ \A k \in requeue.jobs :
                       k \in requeue'.jobs \/ job'[k] \notin {"pending", "running"}
        <4>1. CASE ~Active(j)
          BY <2>1, <2>4, <4>1
        <4>2. CASE Active(j) /\ j \in requeue.jobs
          BY <2>4, <3>2, <4>2 DEF Active
        <4>3. CASE j \in Transcodes /\ Enqueued(j)
          <5>1. Gen(j) # file.probe
            BY <3>2, <4>3, JobGens DEF ProbeKnown, Gens
          <5> QED
            BY <2>2, <2>4, <4>3, <5>1
        <4> QED
          BY <3>2, <4>1, <4>2, <4>3 DEF OldKnown, Outstanding
      <3> QED
        BY <2>4, <3>1, <3>2, RequeueMove
    <2> QED
      BY <1>3, <2>3, <2>4 DEF OldKnown, Outstanding
  <1> QED
    BY <1>2, <1>3, GenMove

\* What moves a task is its own step or its assignment.
LEMMA TaskActs ==
  ASSUME TypeOK, [Next]_vars, NEW j \in Transcodes
  PROVE  \/ task'[j] = task[j]
         \/ TaskStep(j) \/ LoseRunner(j)
         \/ loop.at = "assign" /\ loop.job = j /\ Assign
  <1>1. ASSUME NEW i \in Transcodes, TaskStep(i) \/ LoseRunner(i)
        PROVE  task'[j] = task[j] \/ TaskStep(j) \/ LoseRunner(j)
    BY <1>1, OneTask
  <1>2. CASE LoopStep /\ ~Assign
    <2>1. task' = task
      BY <1>2 DEF LoopStep, notLoop, TakeProbe, ProbeClaim, ProbeQueued, ProbeFailed, ProbeNoMatch,
          ProbeCheck, ProbeEnqueue, ProbePublish, ProbeFence, ProbeDone,
          TakeTranscode, PrepareRead, RecordCollision, ClaimFile, PatchJob,
          RollBackClaim, ValidatePrepared, NoRunnerLeft, Reset,
          FailJob, LoopRecount, LoopAggregate, CompleteSkipped
    <2> QED
      BY <2>1
  <1>3. CASE Assign
    <2>1. loop.at = "assign" /\ task' = [task EXCEPT ![loop.job].at = "exec"]
      BY <1>3 DEF Assign, LoopAt
    <2> QED
      BY <1>3, <2>1 DEF TypeOK
  <1>4. CASE StopStep \/ RequeueStep \/ (\E s \in Settings : Replace(s)) \/ Remove \/ UNCHANGED vars
    <2>1. task' = task
      BY <1>4 DEF StopStep, StopRead, StopWrite, StopFailJob, RequeueStep, RequeueRead,
          RequeueFailJob, RequeuePublish, RequeueCreate, Replace, Remove, notUser, vars
    <2> QED
      BY <2>1
  <1> QED
    BY <1>1, <1>2, <1>3, <1>4 DEF Next

\* A task that does not hold the file ends, or is started by the loop.
LEMMA FreeTaskMove ==
  ASSUME TypeOK, [Next]_vars, NEW j \in Transcodes, task[j].at \in FreeAt
  PROVE  \/ task'[j] = task[j] \/ task'[j] = NoTask
         \/ loop.at = "assign" /\ loop.job = j /\ Assign
  BY TaskActs, FreeTask


\* The loop gets to the assignment with a running job that owns the file.
LEMMA AssignMove == TypeOK /\ LoopKnown /\ [Next]_vars => AssignMoves
  <1> SUFFICES ASSUME TypeOK, LoopKnown, [Next]_vars PROVE AssignMoves
    OBVIOUS
  <1> USE DEF TypeOK, AssignMoves, LoopIdle
  <1>1. CASE LoopStep
    <2>1. ASSUME NEW g \in Gens, TakeProbe(g) PROVE AssignMoves
      BY <2>1 DEF TakeProbe, LoopAt, notLoop
    <2>2. CASE ProbeClaim
      BY <2>2 DEF ProbeClaim, LoopAt, LoopTo, notLoop
    <2>3. CASE ProbeQueued
      BY <2>3, ProbeQueuedEffect DEF OwnsProbe
    <2>4. CASE ProbeFailed
      BY <2>4 DEF ProbeFailed, LoopAt, LoopTo, OwnsProbe, notLoop
    <2>5. CASE ProbeNoMatch
      BY <2>5 DEF ProbeNoMatch, LoopAt, LoopTo, OwnsProbe, notLoop
    <2>6. CASE ProbeCheck
      BY <2>6, ProbeCheckEffect DEF OwnsProbe
    <2>7. CASE ProbeEnqueue
      BY <2>7 DEF ProbeEnqueue, LoopAt, notLoop
    <2>8. CASE ProbePublish
      BY <2>8 DEF ProbePublish, LoopAt, LoopTo, OwnsProbe, notLoop
    <2>9. CASE ProbeFence
      BY <2>9 DEF ProbeFence, LoopAt, LoopTo, notLoop
    <2>10. CASE ProbeDone
      BY <2>10 DEF ProbeDone, LoopAt, LoopStops, CompleteIfRunning, notLoop
    <2>11. ASSUME NEW j \in Transcodes, TakeTranscode(j) PROVE AssignMoves
      BY <2>11 DEF TakeTranscode, LoopAt, notLoop
    <2>12. CASE PrepareRead
      BY <2>12 DEF PrepareRead, LoopAt, LoopTo, Unpreparable, notLoop
    <2>13. CASE RecordCollision
      BY <2>13 DEF RecordCollision, LoopAt, LoopTo, notLoop
    <2>14. CASE ClaimFile
      BY <2>14 DEF ClaimFile, LoopAt, LoopTo, Claimed, Unpreparable, notLoop
    <2>15. CASE PatchJob
      BY <2>15 DEF PatchJob, LoopAt, LoopTo, notLoop
    <2>16. CASE RollBackClaim
      BY <2>16 DEF RollBackClaim, LoopAt, LoopTo, Released, notLoop
    <2>17. CASE ValidatePrepared
      BY <2>17
        DEF ValidatePrepared, LoopAt, LoopTo, PreparedTaskMatches, notLoop
    <2>18. CASE Assign
      BY <2>18 DEF Assign, LoopAt, LoopStops, notLoop
    <2>19. CASE NoRunnerLeft
      BY <2>19 DEF NoRunnerLeft, LoopAt, LoopTo, notLoop
    <2>20. CASE Reset
      BY <2>20 DEF Reset, LoopAt, LoopTo, LoopStops, Released, notLoop
    <2>21. CASE FailJob
      BY <2>21 DEF FailJob, LoopAt, LoopTo, FailIfActive, notLoop
    <2>22. CASE LoopRecount
      BY <2>22 DEF LoopRecount, LoopAt, notLoop
    <2>23. CASE LoopAggregate
      BY <2>23 DEF LoopAggregate, LoopAt, LoopStops, Recomputed, notLoop
    <2>24. CASE CompleteSkipped
      BY <2>24
        DEF CompleteSkipped, LoopAt, LoopStops, CompleteIfRunning, notLoop
    <2> QED
      BY <1>1, <2>1, <2>2, <2>3, <2>4, <2>5, <2>6, <2>7, <2>8, <2>9, <2>10,
         <2>11, <2>12, <2>13, <2>14, <2>15, <2>16, <2>17, <2>18, <2>19, <2>20,
         <2>21, <2>22, <2>23, <2>24
        DEF LoopStep
  <1>2. ASSUME NEW j \in Transcodes, CommitStep(j) PROVE AssignMoves
    BY <1>2
      DEF CommitStep, FinalizeRead, Begin, ValidateOutput, BeforeFilters,
          RunFilters, Commit, Promote, Link, JournalCommitted, Persist,
          MarkReplaced, Complete, TaskRecount, TaskAggregate, JournalCleaned,
          Unlink, Unjournal, Release, EraseJournal, Settle, Attempt, notTask
  <1>3. ASSUME NEW j \in Transcodes, AbortStep(j) PROVE AssignMoves
    BY <1>3
      DEF AbortStep, StopCheck, StopClean, StopComplete, StopRelease, FailRead,
          FailClaim, FailWrite, FailTask, Recover, ReportUnrecovered, notTask
  <1>4. ASSUME NEW j \in Transcodes, LostStep(j) PROVE AssignMoves
    BY <1>4
      DEF LostStep, LostRead, Retire, RequeueLost, RetireStopped, FailLostJob,
          RetireOver, notTask
  <1>5. CASE (\E j \in Transcodes : Report(j)) \/
             (\E j \in Transcodes : LoseRunner(j))
    BY <1>5 DEF Report, LoseRunner, notTask
  <1>6. CASE StopRead \/ StopWrite \/ (\E k \in Jobs : StopFailJob(k)) \/
             RequeueRead \/ (\E k \in Jobs : RequeueFailJob(k)) \/ RequeuePublish \/
             RequeueCreate \/ (\E s \in Settings : Replace(s)) \/ Remove
    BY <1>6
      DEF StopRead, StopWrite, StopFailJob, RequeueRead, RequeueFailJob,
          RequeuePublish, RequeueCreate, Replace, Remove, notUser
  <1>7. CASE UNCHANGED vars
    BY <1>7 DEF vars
  <1> QED
    BY <1>1, <1>2, <1>3, <1>4, <1>5, <1>6, <1>7
      DEF Next, TaskStep, StopStep, RequeueStep

\* What is handed out is of the latest generation.
LEMMA CurrentKept ==
  /\ TypeOK /\ LoopKnown /\ OwnerKnown /\ ProbeKnown /\ LaterJobs /\ LoopsJob /\ OldKnown
  /\ CurrentKnown /\ [Next]_vars
  => CurrentKnown'
  <1> SUFFICES ASSUME TypeOK, LoopKnown, OwnerKnown, ProbeKnown, LaterJobs, LoopsJob, OldKnown,
                      CurrentKnown, [Next]_vars
               PROVE  CurrentKnown'
    OBVIOUS
  <1>1. LoopMoves /\ \A j \in Jobs : JobMoves(j)
    BY LoopMove, JobsMove
  <1>2. CASE gen' = gen + 1 /\ requeue.at = "fail" /\ UNCHANGED <<job, loop, task>>
    <2>1. file.owner = NoJob /\ gen + 1 \in Gens /\ gen < gen + 1
      BY <1>2, LifecycleAssumption DEF ProbeKnown, TypeOK, Gens
    <2>2. loop.at # "assign"
      BY <2>1, NoJobApart DEF OwnerKnown, ClaimedAt, LoopKnown, DispatchAt
    <2>3. \A j \in Transcodes : task[j].at \in FreeAt
      BY <2>1, NoJobApart DEF OwnerKnown
    <2>4. \A s \in Settings : job[<<gen + 1, s>>] = "none"
      BY <2>1, TranscodeJobs DEF LaterJobs, TypeOK, Gens
    <2> QED
      BY <1>2, <2>2, <2>3, <2>4 DEF CurrentKnown, Unqueued
  <1>3. CASE gen' = gen
    <2>1. ASSUME NEW j \in Transcodes, Active(j), Gen(j) < gen
          PROVE  Enqueued(j)
      BY <2>1, JobGens DEF OldKnown, Outstanding
    <2>2. loop'.at = "assign" => Gen(loop'.job) = gen
      <3>1. CASE loop' = loop
        BY <3>1 DEF CurrentKnown
      <3>2. CASE loop.at = "validate" /\ loop'.job = loop.job /\ PreparedTaskMatches
        <4>1. loop.job \in Transcodes /\ Active(loop.job)
          BY <3>2 DEF LoopKnown, DispatchAt, ClaimedAt, PreparedTaskMatches, Active
        <4>2. ~Enqueued(loop.job)
          BY <3>2 DEF Enqueued, EnqueueAt
        <4>3. Gen(loop.job) \in Gens /\ Gen(loop.job) <= gen
          BY <3>2, LoopGen
        <4> QED
          BY <2>1, <3>2, <4>1, <4>2, <4>3 DEF TypeOK, Gens
      <3> QED
        BY <3>1, <3>2, AssignMove DEF AssignMoves
    <2>3. ASSUME NEW j \in Transcodes, task'[j].at \notin FreeAt PROVE Gen(j) = gen
      <3>1. CASE task[j].at \in FreeAt
        <4>1. task'[j] # NoTask
          BY <2>3 DEF FreeAt, NoTask
        <4> QED
          BY <2>3, <3>1, <4>1, FreeTaskMove DEF CurrentKnown
      <3>2. CASE task[j].at \notin FreeAt
        BY <3>2 DEF CurrentKnown
      <3> QED
        BY <3>1, <3>2
    <2>4. ASSUME loop'.at \in DispatchAt, Gen(loop'.job) < gen, NEW s \in Settings
          PROVE  job'[<<gen, s>>] = "none"
      <3>1. loop.at \in DispatchAt /\ loop'.job = loop.job
        <4>1. CASE loop.at = "idle" /\ loop'.at = "read" /\ job[loop'.job] = "pending"
                     /\ loop'.job \in Transcodes
          BY <2>1, <2>4, <4>1 DEF Active, Enqueued, EnqueueAt
        <4> QED
          BY <1>1, <2>4, <4>1 DEF LoopMoves, LoopIdle, DispatchAt, UnownedAt, ClaimedAt, ProbeAt
      <3>2. job[<<gen, s>>] = "none"
        BY <2>4, <3>1 DEF CurrentKnown, Unqueued
      <3>3. <<gen, s>> \in Jobs /\ <<gen, s>> # ProbeJob(gen)
        BY TranscodeJobs, ProbeJobs DEF TypeOK
      <3>4. loop.at # "probe-enqueue"
        BY <3>1 DEF DispatchAt, UnownedAt, ClaimedAt
      <3> QED
        BY <1>1, <3>2, <3>3, <3>4 DEF JobMoves, Active
    <2> QED
      BY <1>3, <2>2, <2>3, <2>4 DEF CurrentKnown, Unqueued
  <1> QED
    BY <1>2, <1>3, GenMove

\* The file gets an owner from the claim only.
LEMMA OwnerMove == TypeOK /\ LoopKnown /\ [Next]_vars => OwnerMoves
  <1> SUFFICES ASSUME TypeOK, LoopKnown, [Next]_vars PROVE OwnerMoves
    OBVIOUS
  <1> USE DEF TypeOK, Files, OwnerMoves
  <1>1. CASE LoopStep
    <2>1. CASE ProbeClaim
      BY <2>1 DEF ProbeClaim, LoopAt, LoopTo, notLoop
    <2>2. CASE ProbeQueued
      BY <2>2, ProbeQueuedEffect DEF OwnsProbe
    <2>3. CASE ProbeFailed
      BY <2>3 DEF ProbeFailed, LoopAt, LoopTo, OwnsProbe, notLoop
    <2>4. CASE ProbeNoMatch
      BY <2>4 DEF ProbeNoMatch, LoopAt, LoopTo, OwnsProbe, notLoop
    <2>5. CASE ProbePublish
      BY <2>5 DEF ProbePublish, LoopAt, LoopTo, OwnsProbe, notLoop
    <2>6. CASE RecordCollision
      BY <2>6 DEF RecordCollision, LoopAt, LoopTo, notLoop
    <2>7. CASE ClaimFile
      BY <2>7 DEF ClaimFile, LoopAt, LoopTo, Claimed, Unpreparable, notLoop
    <2>8. CASE RollBackClaim
      BY <2>8 DEF RollBackClaim, LoopAt, LoopTo, Released, notLoop
    <2>9. CASE Reset
      BY <2>9 DEF Reset, LoopAt, LoopTo, LoopStops, Released, notLoop
    <2>10. CASE LoopAggregate
      BY <2>10 DEF LoopAggregate, LoopAt, LoopStops, Recomputed, notLoop
    <2>11. CASE (\E g \in Gens : TakeProbe(g)) \/ ProbeCheck \/ ProbeEnqueue \/
                ProbeFence \/ ProbeDone \/
                (\E j \in Transcodes : TakeTranscode(j)) \/ PrepareRead \/
                PatchJob \/ ValidatePrepared \/ Assign \/ NoRunnerLeft \/ FailJob \/
                LoopRecount \/ CompleteSkipped
      BY <2>11
        DEF TakeProbe, ProbeCheck, ProbeEnqueue, ProbeFence, ProbeDone,
            TakeTranscode, PrepareRead, PatchJob, ValidatePrepared, Assign,
            NoRunnerLeft, FailJob, LoopRecount, CompleteSkipped, notLoop
    <2> QED
      BY <1>1, <2>1, <2>2, <2>3, <2>4, <2>5, <2>6, <2>7, <2>8, <2>9, <2>10,
         <2>11
        DEF LoopStep
  <1>2. ASSUME NEW j \in Transcodes, CommitStep(j) PROVE OwnerMoves
    <2>1. CASE Begin(j)
      BY <2>1 DEF Begin, TaskAt, TaskTo, Transitions, notTask
    <2>2. CASE Commit(j)
      BY <2>2, CommitEffect
    <2>3. CASE Promote(j)
      BY <2>3 DEF Promote, TaskAt, TaskTo, Transitions, notTask
    <2>4. CASE JournalCommitted(j)
      BY <2>4 DEF JournalCommitted, TaskAt, TaskTo, Transitions, notTask
    <2>5. CASE Persist(j)
      BY <2>5 DEF Persist, TaskAt, TaskTo, notTask
    <2>6. CASE MarkReplaced(j)
      BY <2>6 DEF MarkReplaced, TaskAt, TaskTo, notTask
    <2>7. CASE TaskAggregate(j)
      BY <2>7 DEF TaskAggregate, TaskAt, Recomputed, notTask
    <2>8. CASE JournalCleaned(j)
      BY <2>8 DEF JournalCleaned, TaskAt, TaskTo, notTask
    <2>9. CASE Unjournal(j)
      BY <2>9 DEF Unjournal, TaskAt, TaskTo, notTask
    <2>10. CASE Release(j)
      BY <2>10 DEF Release, TaskAt, TaskTo, Released, CanRelease, notTask
    <2>11. CASE EraseJournal(j)
      BY <2>11 DEF EraseJournal, TaskAt, TaskEnds, notTask
    <2>12. CASE FinalizeRead(j) \/ ValidateOutput(j) \/ BeforeFilters(j) \/
                RunFilters(j) \/ Link(j) \/ Complete(j) \/ TaskRecount(j) \/ Unlink(j) \/
                Settle(j)
      BY <2>12
        DEF FinalizeRead, ValidateOutput, Attempt, BeforeFilters, RunFilters,
            Link, Complete, TaskRecount, Unlink, Settle, notTask
    <2> QED
      BY <1>2, <2>1, <2>2, <2>3, <2>4, <2>5, <2>6, <2>7, <2>8, <2>9, <2>10,
         <2>11, <2>12
        DEF CommitStep
  <1>3. ASSUME NEW j \in Transcodes, AbortStep(j) PROVE OwnerMoves
    <2>1. CASE StopClean(j)
      BY <2>1 DEF StopClean, TaskAt, TaskTo, notTask
    <2>2. CASE StopRelease(j)
      BY <2>2 DEF StopRelease, TaskAt, TaskEnds, Released, notTask
    <2>3. CASE FailClaim(j)
      BY <2>3 DEF FailClaim, TaskAt, TaskTo, Transitions, notTask
    <2>4. CASE FailWrite(j)
      BY <2>4, FailWriteEffect
    <2>5. CASE ReportUnrecovered(j)
      BY <2>5 DEF ReportUnrecovered, TaskAt, TaskTo, notTask
    <2>6. CASE StopCheck(j) \/ StopComplete(j) \/ FailRead(j) \/ FailTask(j) \/
               Recover(j)
      BY <2>6 DEF StopCheck, StopComplete, FailRead, FailTask, Recover, notTask
    <2> QED
      BY <1>3, <2>1, <2>2, <2>3, <2>4, <2>5, <2>6 DEF AbortStep
  <1>4. ASSUME NEW j \in Transcodes, LostStep(j) PROVE OwnerMoves
    <2>1. CASE Retire(j)
      BY <2>1
        DEF Retire, TaskAt, TaskTo, RetireOver, Transitions, Retired, Released,
            notTask
    <2>2. CASE RetireStopped(j)
      BY <2>2 DEF RetireStopped, TaskAt, TaskTo, Retired, Released, notTask
    <2>3. CASE LostRead(j) \/ RequeueLost(j) \/ FailLostJob(j)
      BY <2>3 DEF LostRead, RequeueLost, FailLostJob, notTask
    <2> QED
      BY <1>4, <2>1, <2>2, <2>3 DEF LostStep
  <1>5. CASE (\E j \in Transcodes : Report(j)) \/
             (\E j \in Transcodes : LoseRunner(j))
    BY <1>5 DEF Report, LoseRunner, notTask
  <1>6. CASE StopWrite
    BY <1>6 DEF StopWrite, UserIdle, notUser
  <1>7. CASE RequeuePublish
    BY <1>7 DEF RequeuePublish, notUser
  <1>8. CASE RequeueCreate
    BY <1>8 DEF RequeueCreate, UserIdle, notUser
  <1>9. ASSUME NEW s \in Settings, Replace(s) PROVE OwnerMoves
    BY <1>9 DEF Replace, Unsettled, notUser
  <1>10. CASE Remove
    BY <1>10 DEF Remove, Unsettled, notUser
  <1>11. CASE StopRead \/ (\E k \in Jobs : StopFailJob(k)) \/ RequeueRead \/
              (\E k \in Jobs : RequeueFailJob(k))
    BY <1>11 DEF StopRead, StopFailJob, RequeueRead, RequeueFailJob, notUser
  <1>12. CASE UNCHANGED vars
    BY <1>12 DEF vars
  <1> QED
    BY <1>1, <1>2, <1>3, <1>4, <1>5, <1>6, <1>7, <1>8, <1>9, <1>10, <1>11,
       <1>12
      DEF Next, TaskStep, StopStep, RequeueStep

\* The file becomes pending by a requeue only.
LEMMA PendingMove == TypeOK /\ LoopKnown /\ [Next]_vars => PendingMoves
  <1> SUFFICES ASSUME TypeOK, LoopKnown, [Next]_vars PROVE PendingMoves
    OBVIOUS
  <1> USE DEF TypeOK, Files, PendingMoves
  <1>1. CASE LoopStep
    <2>1. CASE ProbeClaim
      BY <2>1 DEF ProbeClaim, LoopAt, LoopTo, notLoop
    <2>2. CASE ProbeQueued
      BY <2>2, ProbeQueuedEffect DEF OwnsProbe
    <2>3. CASE ProbeFailed
      BY <2>3 DEF ProbeFailed, LoopAt, LoopTo, OwnsProbe, notLoop
    <2>4. CASE ProbeNoMatch
      BY <2>4 DEF ProbeNoMatch, LoopAt, LoopTo, OwnsProbe, notLoop
    <2>5. CASE ProbePublish
      BY <2>5 DEF ProbePublish, LoopAt, LoopTo, OwnsProbe, notLoop
    <2>6. CASE RecordCollision
      BY <2>6 DEF RecordCollision, LoopAt, LoopTo, notLoop
    <2>7. CASE ClaimFile
      BY <2>7 DEF ClaimFile, LoopAt, LoopTo, Claimed, Unpreparable, notLoop
    <2>8. CASE RollBackClaim
      BY <2>8 DEF RollBackClaim, LoopAt, LoopTo, Released, notLoop
    <2>9. CASE Reset
      BY <2>9 DEF Reset, LoopAt, LoopTo, LoopStops, Released, notLoop
    <2>10. CASE LoopAggregate
      BY <2>10
        DEF LoopAggregate, LoopAt, LoopStops, Recomputed, notLoop, Derive
    <2>11. CASE (\E g \in Gens : TakeProbe(g)) \/ ProbeCheck \/ ProbeEnqueue \/
                ProbeFence \/ ProbeDone \/
                (\E j \in Transcodes : TakeTranscode(j)) \/ PrepareRead \/
                PatchJob \/ ValidatePrepared \/ Assign \/ NoRunnerLeft \/ FailJob \/
                LoopRecount \/ CompleteSkipped
      BY <2>11
        DEF TakeProbe, ProbeCheck, ProbeEnqueue, ProbeFence, ProbeDone,
            TakeTranscode, PrepareRead, PatchJob, ValidatePrepared, Assign,
            NoRunnerLeft, FailJob, LoopRecount, CompleteSkipped, notLoop
    <2> QED
      BY <1>1, <2>1, <2>2, <2>3, <2>4, <2>5, <2>6, <2>7, <2>8, <2>9, <2>10,
         <2>11
        DEF LoopStep
  <1>2. ASSUME NEW j \in Transcodes, CommitStep(j) PROVE PendingMoves
    <2>1. CASE Begin(j)
      BY <2>1 DEF Begin, TaskAt, TaskTo, Transitions, notTask
    <2>2. CASE Commit(j)
      BY <2>2, CommitEffect
    <2>3. CASE Promote(j)
      BY <2>3 DEF Promote, TaskAt, TaskTo, Transitions, notTask
    <2>4. CASE JournalCommitted(j)
      BY <2>4 DEF JournalCommitted, TaskAt, TaskTo, Transitions, notTask
    <2>5. CASE Persist(j)
      BY <2>5 DEF Persist, TaskAt, TaskTo, notTask
    <2>6. CASE MarkReplaced(j)
      BY <2>6 DEF MarkReplaced, TaskAt, TaskTo, notTask
    <2>7. CASE TaskAggregate(j)
      BY <2>7 DEF TaskAggregate, TaskAt, Recomputed, notTask, Derive
    <2>8. CASE JournalCleaned(j)
      BY <2>8 DEF JournalCleaned, TaskAt, TaskTo, notTask
    <2>9. CASE Unjournal(j)
      BY <2>9 DEF Unjournal, TaskAt, TaskTo, notTask
    <2>10. CASE Release(j)
      BY <2>10 DEF Release, TaskAt, TaskTo, Released, CanRelease, notTask
    <2>11. CASE EraseJournal(j)
      BY <2>11 DEF EraseJournal, TaskAt, TaskEnds, notTask
    <2>12. CASE FinalizeRead(j) \/ ValidateOutput(j) \/ BeforeFilters(j) \/
                RunFilters(j) \/ Link(j) \/ Complete(j) \/ TaskRecount(j) \/ Unlink(j) \/
                Settle(j)
      BY <2>12
        DEF FinalizeRead, ValidateOutput, Attempt, BeforeFilters, RunFilters,
            Link, Complete, TaskRecount, Unlink, Settle, notTask
    <2> QED
      BY <1>2, <2>1, <2>2, <2>3, <2>4, <2>5, <2>6, <2>7, <2>8, <2>9, <2>10,
         <2>11, <2>12
        DEF CommitStep
  <1>3. ASSUME NEW j \in Transcodes, AbortStep(j) PROVE PendingMoves
    <2>1. CASE StopClean(j)
      BY <2>1 DEF StopClean, TaskAt, TaskTo, notTask
    <2>2. CASE StopRelease(j)
      BY <2>2 DEF StopRelease, TaskAt, TaskEnds, Released, notTask
    <2>3. CASE FailClaim(j)
      BY <2>3 DEF FailClaim, TaskAt, TaskTo, Transitions, notTask
    <2>4. CASE FailWrite(j)
      BY <2>4, FailWriteEffect
    <2>5. CASE ReportUnrecovered(j)
      BY <2>5 DEF ReportUnrecovered, TaskAt, TaskTo, notTask
    <2>6. CASE StopCheck(j) \/ StopComplete(j) \/ FailRead(j) \/ FailTask(j) \/
               Recover(j)
      BY <2>6 DEF StopCheck, StopComplete, FailRead, FailTask, Recover, notTask
    <2> QED
      BY <1>3, <2>1, <2>2, <2>3, <2>4, <2>5, <2>6 DEF AbortStep
  <1>4. ASSUME NEW j \in Transcodes, LostStep(j) PROVE PendingMoves
    <2>1. CASE Retire(j)
      BY <2>1
        DEF Retire, TaskAt, TaskTo, RetireOver, Transitions, Retired, Released,
            notTask
    <2>2. CASE RetireStopped(j)
      BY <2>2 DEF RetireStopped, TaskAt, TaskTo, Retired, Released, notTask
    <2>3. CASE LostRead(j) \/ RequeueLost(j) \/ FailLostJob(j)
      BY <2>3 DEF LostRead, RequeueLost, FailLostJob, notTask
    <2> QED
      BY <1>4, <2>1, <2>2, <2>3 DEF LostStep
  <1>5. CASE (\E j \in Transcodes : Report(j)) \/
             (\E j \in Transcodes : LoseRunner(j))
    BY <1>5 DEF Report, LoseRunner, notTask
  <1>6. CASE StopWrite
    BY <1>6 DEF StopWrite, UserIdle, notUser
  <1>7. CASE RequeuePublish
    BY <1>7 DEF RequeuePublish, notUser
  <1>8. CASE RequeueCreate
    BY <1>8 DEF RequeueCreate, UserIdle, notUser
  <1>9. ASSUME NEW s \in Settings, Replace(s) PROVE PendingMoves
    BY <1>9 DEF Replace, Unsettled, notUser
  <1>10. CASE Remove
    BY <1>10 DEF Remove, Unsettled, notUser
  <1>11. CASE StopRead \/ (\E k \in Jobs : StopFailJob(k)) \/ RequeueRead \/
              (\E k \in Jobs : RequeueFailJob(k))
    BY <1>11 DEF StopRead, StopFailJob, RequeueRead, RequeueFailJob, notUser
  <1>12. CASE UNCHANGED vars
    BY <1>12 DEF vars
  <1> QED
    BY <1>1, <1>2, <1>3, <1>4, <1>5, <1>6, <1>7, <1>8, <1>9, <1>10, <1>11,
       <1>12
      DEF Next, TaskStep, StopStep, RequeueStep

-----------------------------------------------------------------------------
(***************************************************************************)
(* Results and the cancel flag.                                            *)
(***************************************************************************)
\* A result is written in these ways only.
LEMMA ResultsMove ==
  TypeOK /\ LoopKnown /\ OwnerKnown /\ JournalKnown /\ [Next]_vars
    => (\A r \in Settings : ResultMoves(r))
  <1> SUFFICES ASSUME TypeOK, LoopKnown, OwnerKnown, JournalKnown, [Next]_vars
               PROVE  (\A r \in Settings : ResultMoves(r))
    OBVIOUS
  <1> USE DEF TypeOK, Files, ResultMoves, NoResults
  <1>1. CASE LoopStep
    <2>1. CASE ProbeClaim
      BY <2>1 DEF ProbeClaim, LoopAt, LoopTo, notLoop
    <2>2. CASE ProbeQueued
      BY <2>2, ProbeQueuedEffect DEF OwnsProbe
    <2>3. CASE ProbeFailed
      BY <2>3 DEF ProbeFailed, LoopAt, LoopTo, OwnsProbe, notLoop
    <2>4. CASE ProbeNoMatch
      BY <2>4 DEF ProbeNoMatch, LoopAt, LoopTo, OwnsProbe, notLoop
    <2>5. CASE ProbePublish
      BY <2>5 DEF ProbePublish, LoopAt, LoopTo, OwnsProbe, notLoop
    <2>6. CASE RecordCollision
      BY <2>6 DEF RecordCollision, LoopAt, LoopTo, notLoop
    <2>7. CASE ClaimFile
      BY <2>7 DEF ClaimFile, LoopAt, LoopTo, Claimed, Unpreparable, notLoop
    <2>8. CASE RollBackClaim
      BY <2>8 DEF RollBackClaim, LoopAt, LoopTo, Released, notLoop
    <2>9. CASE Reset
      BY <2>9 DEF Reset, LoopAt, LoopTo, LoopStops, Released, notLoop
    <2>10. CASE LoopAggregate
      BY <2>10 DEF LoopAggregate, LoopAt, LoopStops, Recomputed, notLoop
    <2>11. CASE (\E g \in Gens : TakeProbe(g)) \/ ProbeCheck \/ ProbeEnqueue \/
                ProbeFence \/ ProbeDone \/
                (\E j \in Transcodes : TakeTranscode(j)) \/ PrepareRead \/
                PatchJob \/ ValidatePrepared \/ Assign \/ NoRunnerLeft \/ FailJob \/
                LoopRecount \/ CompleteSkipped
      BY <2>11
        DEF TakeProbe, ProbeCheck, ProbeEnqueue, ProbeFence, ProbeDone,
            TakeTranscode, PrepareRead, PatchJob, ValidatePrepared, Assign,
            NoRunnerLeft, FailJob, LoopRecount, CompleteSkipped, notLoop
    <2> QED
      BY <1>1, <2>1, <2>2, <2>3, <2>4, <2>5, <2>6, <2>7, <2>8, <2>9, <2>10,
         <2>11
        DEF LoopStep
  <1>2. ASSUME NEW j \in Transcodes, CommitStep(j) PROVE (\A r \in Settings : ResultMoves(r))
    <2>1. CASE Begin(j)
      BY <2>1 DEF Begin, TaskAt, TaskTo, Transitions, notTask
    <2>2. CASE Commit(j)
      BY <2>2, CommitEffect
    <2>3. CASE Promote(j)
      BY <2>3 DEF Promote, TaskAt, TaskTo, Transitions, notTask
    <2>4. CASE JournalCommitted(j)
      BY <2>4 DEF JournalCommitted, TaskAt, TaskTo, Transitions, notTask
    <2>5. CASE Persist(j)
      <3>1. file.owner = j /\ Setting(j) \in Settings
        BY <2>5, JobGens DEF OwnerKnown, FreeAt, Persist, TaskAt
      <3>2. CASE /\ file' = [file EXCEPT !.results[Setting(j)] = task[j].res]
                 /\ TaskTo(j, IF task[j].res = "replaced" THEN "mark" ELSE "complete")
        <4>1. task'[j].at \in {"mark", "complete"} /\ task'[j].res = task[j].res
          BY <3>2 DEF TaskTo
        <4>2. \A s \in Settings :
                 file'.results[s] = IF s = Setting(j) THEN task[j].res ELSE file.results[s]
          BY <3>2
        <4> QED
          BY <2>5, <3>1, <4>1, <4>2 DEF Persist, TaskAt
      <3> QED
        BY <2>5, <3>2 DEF Persist
    <2>6. CASE MarkReplaced(j)
      BY <2>6 DEF MarkReplaced, TaskAt, TaskTo, notTask
    <2>7. CASE TaskAggregate(j)
      BY <2>7 DEF TaskAggregate, TaskAt, Recomputed, notTask
    <2>8. CASE JournalCleaned(j)
      BY <2>8 DEF JournalCleaned, TaskAt, TaskTo, notTask
    <2>9. CASE Unjournal(j)
      BY <2>9 DEF Unjournal, TaskAt, TaskTo, notTask
    <2>10. CASE Release(j)
      BY <2>10 DEF Release, TaskAt, TaskTo, Released, CanRelease, notTask
    <2>11. CASE EraseJournal(j)
      BY <2>11 DEF EraseJournal, TaskAt, TaskEnds, notTask
    <2>12. CASE FinalizeRead(j) \/ ValidateOutput(j) \/ BeforeFilters(j) \/
                RunFilters(j) \/ Link(j) \/ Complete(j) \/ TaskRecount(j) \/ Unlink(j) \/
                Settle(j)
      BY <2>12
        DEF FinalizeRead, ValidateOutput, Attempt, BeforeFilters, RunFilters,
            Link, Complete, TaskRecount, Unlink, Settle, notTask
    <2> QED
      BY <1>2, <2>1, <2>2, <2>3, <2>4, <2>5, <2>6, <2>7, <2>8, <2>9, <2>10,
         <2>11, <2>12
        DEF CommitStep
  <1>3. ASSUME NEW j \in Transcodes, AbortStep(j) PROVE (\A r \in Settings : ResultMoves(r))
    <2>1. CASE StopClean(j)
      BY <2>1 DEF StopClean, TaskAt, TaskTo, notTask
    <2>2. CASE StopRelease(j)
      BY <2>2 DEF StopRelease, TaskAt, TaskEnds, Released, notTask
    <2>3. CASE FailClaim(j)
      BY <2>3 DEF FailClaim, TaskAt, TaskTo, Transitions, notTask
    <2>4. CASE FailWrite(j)
      <3>1. CASE file' = file
        BY <3>1
      <3>2. CASE /\ file.owner = j /\ task'[j].at = "fail-job" /\ task'[j].res = "failed"
                 /\ file'.results = [file.results EXCEPT ![Setting(j)] = "failed"]
        <4>1. \A s \in Settings :
                 file'.results[s] = IF s = Setting(j) THEN "failed" ELSE file.results[s]
          BY <3>2
        <4> QED
          BY <2>4, <3>2, <4>1, FailWriteEffect
      <3> QED
        BY <2>4, <3>1, <3>2, FailWriteEffect
    <2>5. CASE ReportUnrecovered(j)
      BY <2>5 DEF ReportUnrecovered, TaskAt, TaskTo, notTask
    <2>6. CASE StopCheck(j) \/ StopComplete(j) \/ FailRead(j) \/ FailTask(j) \/
               Recover(j)
      BY <2>6 DEF StopCheck, StopComplete, FailRead, FailTask, Recover, notTask
    <2> QED
      BY <1>3, <2>1, <2>2, <2>3, <2>4, <2>5, <2>6 DEF AbortStep
  <1>4. ASSUME NEW j \in Transcodes, LostStep(j) PROVE (\A r \in Settings : ResultMoves(r))
    <2>1. CASE Retire(j)
      BY <2>1
        DEF Retire, TaskAt, TaskTo, RetireOver, Transitions, Retired, Released,
            notTask
    <2>2. CASE RetireStopped(j)
      BY <2>2 DEF RetireStopped, TaskAt, TaskTo, Retired, Released, notTask
    <2>3. CASE LostRead(j) \/ RequeueLost(j) \/ FailLostJob(j)
      BY <2>3 DEF LostRead, RequeueLost, FailLostJob, notTask
    <2> QED
      BY <1>4, <2>1, <2>2, <2>3 DEF LostStep
  <1>5. CASE (\E j \in Transcodes : Report(j)) \/
             (\E j \in Transcodes : LoseRunner(j))
    BY <1>5 DEF Report, LoseRunner, notTask
  <1>6. CASE StopWrite
    BY <1>6 DEF StopWrite, UserIdle, notUser
  <1>7. CASE RequeuePublish
    BY <1>7 DEF RequeuePublish, notUser
  <1>8. CASE RequeueCreate
    BY <1>8 DEF RequeueCreate, UserIdle, notUser
  <1>9. ASSUME NEW s \in Settings, Replace(s) PROVE (\A r \in Settings : ResultMoves(r))
    BY <1>9 DEF Replace, Unsettled, notUser
  <1>10. CASE Remove
    BY <1>10 DEF Remove, Unsettled, notUser
  <1>11. CASE StopRead \/ (\E k \in Jobs : StopFailJob(k)) \/ RequeueRead \/
              (\E k \in Jobs : RequeueFailJob(k))
    BY <1>11 DEF StopRead, StopFailJob, RequeueRead, RequeueFailJob, notUser
  <1>12. CASE UNCHANGED vars
    BY <1>12 DEF vars
  <1> QED
    BY <1>1, <1>2, <1>3, <1>4, <1>5, <1>6, <1>7, <1>8, <1>9, <1>10, <1>11,
       <1>12
      DEF Next, TaskStep, StopStep, RequeueStep

\* The loop probes for a pending file.
LEMMA ProbingMove == TypeOK /\ LoopKnown /\ [Next]_vars => ProbingMoves
  <1> SUFFICES ASSUME TypeOK, LoopKnown, [Next]_vars PROVE ProbingMoves
    OBVIOUS
  <1> USE DEF TypeOK, ProbingMoves, ProbingAt, EnqueueAt, LoopIdle
  <1>1. CASE LoopStep
    <2>1. ASSUME NEW g \in Gens, TakeProbe(g) PROVE ProbingMoves
      BY <2>1 DEF TakeProbe, LoopAt, notLoop
    <2>2. CASE ProbeClaim
      BY <2>2 DEF ProbeClaim, LoopAt, LoopTo, notLoop
    <2>3. CASE ProbeQueued
      BY <2>3, ProbeQueuedEffect DEF OwnsProbe
    <2>4. CASE ProbeFailed
      BY <2>4 DEF ProbeFailed, LoopAt, LoopTo, OwnsProbe, notLoop
    <2>5. CASE ProbeNoMatch
      BY <2>5 DEF ProbeNoMatch, LoopAt, LoopTo, OwnsProbe, notLoop
    <2>6. CASE ProbeCheck
      BY <2>6, ProbeCheckEffect DEF OwnsProbe
    <2>7. CASE ProbeEnqueue
      BY <2>7 DEF ProbeEnqueue, LoopAt, notLoop
    <2>8. CASE ProbePublish
      BY <2>8 DEF ProbePublish, LoopAt, LoopTo, OwnsProbe, notLoop
    <2>9. CASE ProbeFence
      BY <2>9 DEF ProbeFence, LoopAt, LoopTo, notLoop
    <2>10. CASE ProbeDone
      BY <2>10 DEF ProbeDone, LoopAt, LoopStops, CompleteIfRunning, notLoop
    <2>11. ASSUME NEW j \in Transcodes, TakeTranscode(j) PROVE ProbingMoves
      BY <2>11 DEF TakeTranscode, LoopAt, notLoop
    <2>12. CASE PrepareRead
      BY <2>12 DEF PrepareRead, LoopAt, LoopTo, Unpreparable, notLoop
    <2>13. CASE RecordCollision
      BY <2>13 DEF RecordCollision, LoopAt, LoopTo, notLoop
    <2>14. CASE ClaimFile
      BY <2>14 DEF ClaimFile, LoopAt, LoopTo, Claimed, Unpreparable, notLoop
    <2>15. CASE PatchJob
      BY <2>15 DEF PatchJob, LoopAt, LoopTo, notLoop
    <2>16. CASE RollBackClaim
      BY <2>16 DEF RollBackClaim, LoopAt, LoopTo, Released, notLoop
    <2>17. CASE ValidatePrepared
      BY <2>17
        DEF ValidatePrepared, LoopAt, LoopTo, PreparedTaskMatches, notLoop
    <2>18. CASE Assign
      BY <2>18 DEF Assign, LoopAt, LoopStops, notLoop
    <2>19. CASE NoRunnerLeft
      BY <2>19 DEF NoRunnerLeft, LoopAt, LoopTo, notLoop
    <2>20. CASE Reset
      BY <2>20 DEF Reset, LoopAt, LoopTo, LoopStops, Released, notLoop
    <2>21. CASE FailJob
      BY <2>21 DEF FailJob, LoopAt, LoopTo, FailIfActive, notLoop
    <2>22. CASE LoopRecount
      BY <2>22 DEF LoopRecount, LoopAt, notLoop
    <2>23. CASE LoopAggregate
      BY <2>23 DEF LoopAggregate, LoopAt, LoopStops, Recomputed, notLoop
    <2>24. CASE CompleteSkipped
      BY <2>24
        DEF CompleteSkipped, LoopAt, LoopStops, CompleteIfRunning, notLoop
    <2> QED
      BY <1>1, <2>1, <2>2, <2>3, <2>4, <2>5, <2>6, <2>7, <2>8, <2>9, <2>10,
         <2>11, <2>12, <2>13, <2>14, <2>15, <2>16, <2>17, <2>18, <2>19, <2>20,
         <2>21, <2>22, <2>23, <2>24
        DEF LoopStep
  <1>2. ASSUME NEW j \in Transcodes, CommitStep(j) PROVE ProbingMoves
    BY <1>2
      DEF CommitStep, FinalizeRead, Begin, ValidateOutput, BeforeFilters,
          RunFilters, Commit, Promote, Link, JournalCommitted, Persist,
          MarkReplaced, Complete, TaskRecount, TaskAggregate, JournalCleaned,
          Unlink, Unjournal, Release, EraseJournal, Settle, Attempt, notTask
  <1>3. ASSUME NEW j \in Transcodes, AbortStep(j) PROVE ProbingMoves
    BY <1>3
      DEF AbortStep, StopCheck, StopClean, StopComplete, StopRelease, FailRead,
          FailClaim, FailWrite, FailTask, Recover, ReportUnrecovered, notTask
  <1>4. ASSUME NEW j \in Transcodes, LostStep(j) PROVE ProbingMoves
    BY <1>4
      DEF LostStep, LostRead, Retire, RequeueLost, RetireStopped, FailLostJob,
          RetireOver, notTask
  <1>5. CASE (\E j \in Transcodes : Report(j)) \/
             (\E j \in Transcodes : LoseRunner(j))
    BY <1>5 DEF Report, LoseRunner, notTask
  <1>6. CASE StopRead \/ StopWrite \/ (\E k \in Jobs : StopFailJob(k)) \/
             RequeueRead \/ (\E k \in Jobs : RequeueFailJob(k)) \/ RequeuePublish \/
             RequeueCreate \/ (\E s \in Settings : Replace(s)) \/ Remove
    BY <1>6
      DEF StopRead, StopWrite, StopFailJob, RequeueRead, RequeueFailJob,
          RequeuePublish, RequeueCreate, Replace, Remove, notUser
  <1>7. CASE UNCHANGED vars
    BY <1>7 DEF vars
  <1> QED
    BY <1>1, <1>2, <1>3, <1>4, <1>5, <1>6, <1>7
      DEF Next, TaskStep, StopStep, RequeueStep

\* A failed preparation ends with its job failed.
LEMMA FailMove == TypeOK /\ LoopKnown /\ [Next]_vars => FailMoves
  <1> SUFFICES ASSUME TypeOK, LoopKnown, [Next]_vars PROVE FailMoves
    OBVIOUS
  <1> USE DEF TypeOK, FailMoves, LoopIdle
  <1>1. CASE LoopStep
    <2>1. ASSUME NEW g \in Gens, TakeProbe(g) PROVE FailMoves
      BY <2>1 DEF TakeProbe, LoopAt, notLoop
    <2>2. CASE ProbeClaim
      BY <2>2 DEF ProbeClaim, LoopAt, LoopTo, notLoop
    <2>3. CASE ProbeQueued
      BY <2>3, ProbeQueuedEffect DEF OwnsProbe
    <2>4. CASE ProbeFailed
      BY <2>4 DEF ProbeFailed, LoopAt, LoopTo, OwnsProbe, notLoop
    <2>5. CASE ProbeNoMatch
      BY <2>5 DEF ProbeNoMatch, LoopAt, LoopTo, OwnsProbe, notLoop
    <2>6. CASE ProbeCheck
      BY <2>6, ProbeCheckEffect DEF OwnsProbe
    <2>7. CASE ProbeEnqueue
      BY <2>7 DEF ProbeEnqueue, LoopAt, notLoop
    <2>8. CASE ProbePublish
      BY <2>8 DEF ProbePublish, LoopAt, LoopTo, OwnsProbe, notLoop
    <2>9. CASE ProbeFence
      BY <2>9 DEF ProbeFence, LoopAt, LoopTo, notLoop
    <2>10. CASE ProbeDone
      BY <2>10 DEF ProbeDone, LoopAt, LoopStops, CompleteIfRunning, notLoop
    <2>11. ASSUME NEW j \in Transcodes, TakeTranscode(j) PROVE FailMoves
      BY <2>11 DEF TakeTranscode, LoopAt, notLoop
    <2>12. CASE PrepareRead
      BY <2>12 DEF PrepareRead, LoopAt, LoopTo, Unpreparable, notLoop
    <2>13. CASE RecordCollision
      BY <2>13 DEF RecordCollision, LoopAt, LoopTo, notLoop
    <2>14. CASE ClaimFile
      BY <2>14 DEF ClaimFile, LoopAt, LoopTo, Claimed, Unpreparable, notLoop
    <2>15. CASE PatchJob
      BY <2>15 DEF PatchJob, LoopAt, LoopTo, notLoop
    <2>16. CASE RollBackClaim
      BY <2>16 DEF RollBackClaim, LoopAt, LoopTo, Released, notLoop
    <2>17. CASE ValidatePrepared
      BY <2>17
        DEF ValidatePrepared, LoopAt, LoopTo, PreparedTaskMatches, notLoop
    <2>18. CASE Assign
      BY <2>18 DEF Assign, LoopAt, LoopStops, notLoop
    <2>19. CASE NoRunnerLeft
      BY <2>19 DEF NoRunnerLeft, LoopAt, LoopTo, notLoop
    <2>20. CASE Reset
      BY <2>20 DEF Reset, LoopAt, LoopTo, LoopStops, Released, notLoop
    <2>21. CASE FailJob
      BY <2>21, JobGens
        DEF FailJob, LoopAt, LoopTo, FailIfActive, notLoop, Active, LoopKnown,
            DispatchAt, UnownedAt
    <2>22. CASE LoopRecount
      BY <2>22 DEF LoopRecount, LoopAt, notLoop
    <2>23. CASE LoopAggregate
      BY <2>23 DEF LoopAggregate, LoopAt, LoopStops, Recomputed, notLoop
    <2>24. CASE CompleteSkipped
      BY <2>24
        DEF CompleteSkipped, LoopAt, LoopStops, CompleteIfRunning, notLoop
    <2> QED
      BY <1>1, <2>1, <2>2, <2>3, <2>4, <2>5, <2>6, <2>7, <2>8, <2>9, <2>10,
         <2>11, <2>12, <2>13, <2>14, <2>15, <2>16, <2>17, <2>18, <2>19, <2>20,
         <2>21, <2>22, <2>23, <2>24
        DEF LoopStep
  <1>2. ASSUME NEW j \in Transcodes, CommitStep(j) PROVE FailMoves
    BY <1>2
      DEF CommitStep, FinalizeRead, Begin, ValidateOutput, BeforeFilters,
          RunFilters, Commit, Promote, Link, JournalCommitted, Persist,
          MarkReplaced, Complete, TaskRecount, TaskAggregate, JournalCleaned,
          Unlink, Unjournal, Release, EraseJournal, Settle, Attempt, notTask
  <1>3. ASSUME NEW j \in Transcodes, AbortStep(j) PROVE FailMoves
    BY <1>3
      DEF AbortStep, StopCheck, StopClean, StopComplete, StopRelease, FailRead,
          FailClaim, FailWrite, FailTask, Recover, ReportUnrecovered, notTask
  <1>4. ASSUME NEW j \in Transcodes, LostStep(j) PROVE FailMoves
    BY <1>4
      DEF LostStep, LostRead, Retire, RequeueLost, RetireStopped, FailLostJob,
          RetireOver, notTask
  <1>5. CASE (\E j \in Transcodes : Report(j)) \/
             (\E j \in Transcodes : LoseRunner(j))
    BY <1>5 DEF Report, LoseRunner, notTask
  <1>6. CASE StopRead \/ StopWrite \/ (\E k \in Jobs : StopFailJob(k)) \/
             RequeueRead \/ (\E k \in Jobs : RequeueFailJob(k)) \/ RequeuePublish \/
             RequeueCreate \/ (\E s \in Settings : Replace(s)) \/ Remove
    BY <1>6
      DEF StopRead, StopWrite, StopFailJob, RequeueRead, RequeueFailJob,
          RequeuePublish, RequeueCreate, Replace, Remove, notUser
  <1>7. CASE UNCHANGED vars
    BY <1>7 DEF vars
  <1> QED
    BY <1>1, <1>2, <1>3, <1>4, <1>5, <1>6, <1>7
      DEF Next, TaskStep, StopStep, RequeueStep

\* A task that has recorded its result ends its job next.
LEMMA RecordStep ==
  ASSUME NEW j \in Transcodes, TypeOK, HandedOver, task[j].at \in RecordedAt,
         TaskStep(j) \/ LoseRunner(j)
  PROVE  task'[j].at \in RecordedAt \/ job'[j] \notin {"pending", "running"}
  <1> USE DEF TypeOK, RecordedAt, TaskAt, NoTask
  <1>1. CASE CommitStep(j)
    <2>1. CASE FinalizeRead(j)
      BY <2>1 DEF FinalizeRead, TaskAt, TaskTo, TaskEnds, notTask
    <2>2. CASE Begin(j)
      BY <2>2 DEF Begin, TaskAt, TaskTo, Transitions, notTask
    <2>3. CASE ValidateOutput(j)
      BY <2>3 DEF ValidateOutput, TaskAt, TaskTo, Attempt, notTask
    <2>4. CASE BeforeFilters(j)
      BY <2>4 DEF BeforeFilters, TaskAt, TaskTo, TaskEnds, notTask
    <2>5. CASE RunFilters(j)
      BY <2>5 DEF RunFilters, TaskAt, TaskTo, notTask
    <2>6. CASE Commit(j)
      BY <2>6, CommitEffect
    <2>7. CASE Promote(j)
      BY <2>7 DEF Promote, TaskAt, TaskTo, Transitions, notTask
    <2>8. CASE Link(j)
      BY <2>8 DEF Link, TaskAt, TaskTo, Attempt, notTask
    <2>9. CASE JournalCommitted(j)
      BY <2>9 DEF JournalCommitted, TaskAt, TaskTo, Transitions, notTask
    <2>10. CASE Persist(j)
      BY <2>10 DEF Persist, TaskAt, TaskTo, notTask
    <2>11. CASE MarkReplaced(j)
      BY <2>11 DEF MarkReplaced, TaskAt, TaskTo, notTask
    <2>12. CASE Complete(j)
      BY <2>12, JobGens
        DEF Complete, TaskAt, TaskTo, CompleteIfRunning, notTask, HandedOver,
            Active
    <2>13. CASE TaskRecount(j)
      BY <2>13 DEF TaskRecount, TaskAt, notTask
    <2>14. CASE TaskAggregate(j)
      BY <2>14 DEF TaskAggregate, TaskAt, Recomputed, notTask
    <2>15. CASE JournalCleaned(j)
      BY <2>15 DEF JournalCleaned, TaskAt, TaskTo, notTask
    <2>16. CASE Unlink(j)
      BY <2>16 DEF Unlink, TaskAt, TaskTo, notTask
    <2>17. CASE Unjournal(j)
      BY <2>17 DEF Unjournal, TaskAt, TaskTo, notTask
    <2>18. CASE Release(j)
      BY <2>18 DEF Release, TaskAt, TaskTo, Released, CanRelease, notTask
    <2>19. CASE EraseJournal(j)
      BY <2>19 DEF EraseJournal, TaskAt, TaskEnds, notTask
    <2>20. CASE Settle(j)
      BY <2>20 DEF Settle, TaskAt, TaskEnds, FailIfActive, notTask
    <2> QED
      BY <1>1, <2>1, <2>2, <2>3, <2>4, <2>5, <2>6, <2>7, <2>8, <2>9, <2>10,
         <2>11, <2>12, <2>13, <2>14, <2>15, <2>16, <2>17, <2>18, <2>19, <2>20
        DEF CommitStep
  <1>2. CASE AbortStep(j)
    <2>1. CASE StopCheck(j)
      BY <2>1 DEF StopCheck, TaskAt, TaskTo, TaskEnds, notTask
    <2>2. CASE StopClean(j)
      BY <2>2 DEF StopClean, TaskAt, TaskTo, notTask
    <2>3. CASE StopComplete(j)
      BY <2>3 DEF StopComplete, TaskAt, TaskTo, CompleteIfRunning, notTask
    <2>4. CASE StopRelease(j)
      BY <2>4 DEF StopRelease, TaskAt, TaskEnds, Released, notTask
    <2>5. CASE FailRead(j)
      BY <2>5 DEF FailRead, TaskAt, TaskTo, notTask
    <2>6. CASE FailClaim(j)
      BY <2>6 DEF FailClaim, TaskAt, TaskTo, Transitions, notTask
    <2>7. CASE FailWrite(j)
      BY <2>7, FailWriteEffect
    <2>8. CASE FailTask(j)
      BY <2>8, JobGens
        DEF FailTask, TaskAt, TaskTo, FailIfActive, notTask, HandedOver, Active
    <2>9. CASE Recover(j)
      BY <2>9 DEF Recover, TaskAt, TaskTo, notTask
    <2>10. CASE ReportUnrecovered(j)
      BY <2>10 DEF ReportUnrecovered, TaskAt, TaskTo, notTask
    <2> QED
      BY <1>2, <2>1, <2>2, <2>3, <2>4, <2>5, <2>6, <2>7, <2>8, <2>9, <2>10
        DEF AbortStep
  <1>3. CASE LostStep(j)
    <2>1. CASE LostRead(j)
      BY <2>1 DEF LostRead, TaskAt, TaskTo, TaskEnds, BelongsTo, notTask
    <2>2. CASE Retire(j)
      BY <2>2
        DEF Retire, TaskAt, TaskTo, RetireOver, Transitions, Retired, Released,
            notTask
    <2>3. CASE RequeueLost(j)
      BY <2>3 DEF RequeueLost, TaskAt, TaskEnds, notTask
    <2>4. CASE RetireStopped(j)
      BY <2>4 DEF RetireStopped, TaskAt, TaskTo, Retired, Released, notTask
    <2>5. CASE FailLostJob(j)
      BY <2>5 DEF FailLostJob, TaskAt, TaskEnds, notTask
    <2> QED
      BY <1>3, <2>1, <2>2, <2>3, <2>4, <2>5 DEF LostStep
  <1>4. CASE Report(j)
    BY <1>4 DEF Report, TaskAt, notTask
  <1>5. CASE LoseRunner(j)
    BY <1>5 DEF LoseRunner, TaskAt, TaskTo, notTask
  <1> QED
    BY <1>1, <1>2, <1>3, <1>4, <1>5 DEF TaskStep

\* ... whoever moves.
LEMMA RecordedMove ==
  ASSUME TypeOK, LoopKnown, HandedOver, [Next]_vars, NEW j \in Transcodes, task[j].at \in RecordedAt
  PROVE  task'[j].at \in RecordedAt \/ job'[j] \notin {"pending", "running"}
  <1>1. ~(loop.at = "assign" /\ loop.job = j)
    BY DEF HandedOver, DispatchAt, ClaimedAt, RecordedAt
  <1> QED
    BY <1>1, TaskActs, RecordStep

\* Where a task has no result yet, it came from such a place.
LEMMA UnrecordedBack ==
  ASSUME NEW j \in Transcodes, TypeOK, task'[j].at \in UnrecordedAt,
         TaskStep(j) \/ LoseRunner(j)
  PROVE  task[j].at \in UnrecordedAt
  <1> USE DEF TypeOK, UnrecordedAt, TaskAt, NoTask
  <1>1. CASE CommitStep(j)
    <2>1. CASE FinalizeRead(j)
      BY <2>1 DEF FinalizeRead, TaskAt, TaskTo, TaskEnds, notTask
    <2>2. CASE Begin(j)
      BY <2>2 DEF Begin, TaskAt, TaskTo, Transitions, notTask
    <2>3. CASE ValidateOutput(j)
      BY <2>3 DEF ValidateOutput, TaskAt, TaskTo, Attempt, notTask
    <2>4. CASE BeforeFilters(j)
      BY <2>4 DEF BeforeFilters, TaskAt, TaskTo, TaskEnds, notTask
    <2>5. CASE RunFilters(j)
      BY <2>5 DEF RunFilters, TaskAt, TaskTo, notTask
    <2>6. CASE Commit(j)
      BY <2>6, CommitEffect
    <2>7. CASE Promote(j)
      BY <2>7 DEF Promote, TaskAt, TaskTo, Transitions, notTask
    <2>8. CASE Link(j)
      BY <2>8 DEF Link, TaskAt, TaskTo, Attempt, notTask
    <2>9. CASE JournalCommitted(j)
      BY <2>9 DEF JournalCommitted, TaskAt, TaskTo, Transitions, notTask
    <2>10. CASE Persist(j)
      BY <2>10 DEF Persist, TaskAt, TaskTo, notTask
    <2>11. CASE MarkReplaced(j)
      BY <2>11 DEF MarkReplaced, TaskAt, TaskTo, notTask
    <2>12. CASE Complete(j)
      BY <2>12 DEF Complete, TaskAt, TaskTo, CompleteIfRunning, notTask
    <2>13. CASE TaskRecount(j)
      BY <2>13 DEF TaskRecount, TaskAt, notTask
    <2>14. CASE TaskAggregate(j)
      BY <2>14 DEF TaskAggregate, TaskAt, Recomputed, notTask
    <2>15. CASE JournalCleaned(j)
      BY <2>15 DEF JournalCleaned, TaskAt, TaskTo, notTask
    <2>16. CASE Unlink(j)
      BY <2>16 DEF Unlink, TaskAt, TaskTo, notTask
    <2>17. CASE Unjournal(j)
      BY <2>17 DEF Unjournal, TaskAt, TaskTo, notTask
    <2>18. CASE Release(j)
      BY <2>18 DEF Release, TaskAt, TaskTo, Released, CanRelease, notTask
    <2>19. CASE EraseJournal(j)
      BY <2>19 DEF EraseJournal, TaskAt, TaskEnds, notTask
    <2>20. CASE Settle(j)
      BY <2>20 DEF Settle, TaskAt, TaskEnds, FailIfActive, notTask
    <2> QED
      BY <1>1, <2>1, <2>2, <2>3, <2>4, <2>5, <2>6, <2>7, <2>8, <2>9, <2>10,
         <2>11, <2>12, <2>13, <2>14, <2>15, <2>16, <2>17, <2>18, <2>19, <2>20
        DEF CommitStep
  <1>2. CASE AbortStep(j)
    <2>1. CASE StopCheck(j)
      BY <2>1 DEF StopCheck, TaskAt, TaskTo, TaskEnds, notTask
    <2>2. CASE StopClean(j)
      BY <2>2 DEF StopClean, TaskAt, TaskTo, notTask
    <2>3. CASE StopComplete(j)
      BY <2>3 DEF StopComplete, TaskAt, TaskTo, CompleteIfRunning, notTask
    <2>4. CASE StopRelease(j)
      BY <2>4 DEF StopRelease, TaskAt, TaskEnds, Released, notTask
    <2>5. CASE FailRead(j)
      BY <2>5 DEF FailRead, TaskAt, TaskTo, notTask
    <2>6. CASE FailClaim(j)
      BY <2>6 DEF FailClaim, TaskAt, TaskTo, Transitions, notTask
    <2>7. CASE FailWrite(j)
      BY <2>7, FailWriteEffect
    <2>8. CASE FailTask(j)
      BY <2>8 DEF FailTask, TaskAt, TaskTo, FailIfActive, notTask
    <2>9. CASE Recover(j)
      BY <2>9 DEF Recover, TaskAt, TaskTo, notTask
    <2>10. CASE ReportUnrecovered(j)
      BY <2>10 DEF ReportUnrecovered, TaskAt, TaskTo, notTask
    <2> QED
      BY <1>2, <2>1, <2>2, <2>3, <2>4, <2>5, <2>6, <2>7, <2>8, <2>9, <2>10
        DEF AbortStep
  <1>3. CASE LostStep(j)
    <2>1. CASE LostRead(j)
      BY <2>1 DEF LostRead, TaskAt, TaskTo, TaskEnds, BelongsTo, notTask
    <2>2. CASE Retire(j)
      BY <2>2
        DEF Retire, TaskAt, TaskTo, RetireOver, Transitions, Retired, Released,
            notTask
    <2>3. CASE RequeueLost(j)
      BY <2>3 DEF RequeueLost, TaskAt, TaskEnds, notTask
    <2>4. CASE RetireStopped(j)
      BY <2>4 DEF RetireStopped, TaskAt, TaskTo, Retired, Released, notTask
    <2>5. CASE FailLostJob(j)
      BY <2>5 DEF FailLostJob, TaskAt, TaskEnds, notTask
    <2> QED
      BY <1>3, <2>1, <2>2, <2>3, <2>4, <2>5 DEF LostStep
  <1>4. CASE Report(j)
    BY <1>4 DEF Report, TaskAt, notTask
  <1>5. CASE LoseRunner(j)
    BY <1>5 DEF LoseRunner, TaskAt, TaskTo, notTask
  <1> QED
    BY <1>1, <1>2, <1>3, <1>4, <1>5 DEF TaskStep

\* A setting of the latest generation has no result while its job is to run.
LEMMA ResultKept ==
  /\ TypeOK /\ TypeOK' /\ LoopKnown /\ OwnerKnown /\ HandedOver /\ LaterJobs /\ LoopsJob
  /\ JournalKnown /\ CurrentKnown /\ CurrentKnown' /\ ResultKnown /\ [Next]_vars
  => ResultKnown'
  <1> SUFFICES ASSUME TypeOK, TypeOK', LoopKnown, OwnerKnown, HandedOver, LaterJobs, LoopsJob,
                      JournalKnown, CurrentKnown, CurrentKnown', ResultKnown, [Next]_vars
               PROVE  ResultKnown'
    OBVIOUS
  <1>a. \A j \in Transcodes : task[j].at \notin FreeAt =>
           /\ file.owner = j /\ j # NoJob /\ loop.at \notin DispatchAt
           /\ \A i \in Transcodes : i # j => task[i].at \in FreeAt
    BY Alone
  <1>b. loop.at \in DispatchAt =>
           /\ loop.job \in Transcodes /\ loop.job # NoJob
           /\ file.owner \in {NoJob, loop.job}
           /\ \A j \in Transcodes : task[j].at \in FreeAt
    BY Alone
  <1>1. /\ \A j \in Jobs : JobMoves(j)
        /\ \A s \in Settings : ResultMoves(s)
        /\ OwnerMoves /\ PendingMoves /\ AssignMoves /\ ProbingMoves /\ FailMoves
    BY JobsMove, ResultsMove, OwnerMove, PendingMove, AssignMove, ProbingMove, FailMove
  <1>2. CASE gen' = gen + 1 /\ file'.owner = NoJob /\ file'.results = NoResults
             /\ UNCHANGED <<job, loop, task>>
    <2>1. \A s \in Settings : file'.results[s] = "none"
      BY <1>2 DEF NoResults
    <2>2. loop'.at = "assign" => loop'.job \in Transcodes
      BY <1>2 DEF LoopKnown, DispatchAt, ClaimedAt
    <2> QED
      BY <1>2, <2>1, <2>2, JobGens DEF ResultKnown
  <1>3. CASE gen' = gen
    <2>1. ASSUME file.owner = NoJob, file.results = NoResults,
                 loop.at # "claim" \/ file'.status = "pending",
                 loop.at # "collide" \/ file'.status = "pending"
          PROVE  file'.owner = NoJob /\ file'.results = NoResults
      <3>1. file'.owner = NoJob
        BY <1>1, <2>1 DEF OwnerMoves, Claimed, TypeOK, Files
      <3>2. ASSUME NEW s \in Settings PROVE file'.results[s] = "none"
        <4>1. file.results[s] = "none" /\ file.owner \notin Transcodes
          BY <2>1, NoJobApart DEF NoResults
        <4> QED
          BY <1>1, <2>1, <4>1 DEF ResultMoves
      <3>3. file'.results \in [Settings -> Outcomes]
        BY DEF TypeOK, Files
      <3> QED
        BY <3>1, <3>2, <3>3 DEF NoResults
    <2>2. file'.status = "pending" => file'.owner = NoJob /\ file'.results = NoResults
      <3>1. file'.status = "pending" => file.status = "pending"
        BY <1>1, <1>3 DEF PendingMoves, TypeOK, Gens
      <3> QED
        BY <2>1, <3>1 DEF ResultKnown
    <2>3. loop'.at \in ProbingAt => file'.owner = NoJob /\ file'.results = NoResults
      <3>1. loop'.at \in ProbingAt =>
               loop.at \in ProbingAt \/ (loop.at = "probe-claim" /\ file.status = "pending")
        BY <1>1 DEF ProbingMoves
      <3>2. loop.at \in ProbingAt \/ loop.at = "probe-claim" => loop.at \notin {"claim", "collide"}
        BY DEF ProbingAt, EnqueueAt
      <3> QED
        BY <2>1, <3>1, <3>2 DEF ResultKnown
    <2>4. ASSUME NEW s \in Settings, file.results[s] = "none", loop.at # "collide",
                 file.owner \in Transcodes =>
                    task[file.owner].at \notin {"persist", "fail-write"}
          PROVE  file'.results[s] = "none"
      BY <1>1, <2>4 DEF ResultMoves
    <2>5. ASSUME NEW s \in Settings, file'.results[s] # "none"
          PROVE  \/ job'[<<gen, s>>] \notin {"pending", "running"}
                 \/ task'[<<gen, s>>].at \in RecordedAt
                 \/ loop'.job = <<gen, s>> /\ loop'.at \in {"reset-error", "fail"}
      <3> DEFINE j == <<gen, s>>
      <3>1. /\ j \in Transcodes /\ j \in Jobs /\ Gen(j) = gen /\ Setting(j) = s
            /\ j # ProbeJob(gen)
        BY TranscodeJobs, ProbeJobs DEF TypeOK
      <3>2. CASE file.results[s] # "none"
        <4>1. loop.at # "probe-enqueue"
          BY <3>2 DEF ResultKnown, ProbingAt, EnqueueAt, NoResults
        <4>2. CASE ~Active(j)
          <5>1. job[j] \notin {"pending", "running"}
            BY <4>2 DEF Active
          <5> QED
            BY <1>1, <3>1, <4>1, <5>1 DEF JobMoves, Active
        <4>3. CASE task[j].at \in RecordedAt
          BY <3>1, <4>3, RecordedMove
        <4>4. CASE loop.job = j /\ loop.at \in {"reset-error", "fail"}
          BY <1>1, <4>4 DEF FailMoves
        <4> QED
          BY <3>2, <4>2, <4>3, <4>4 DEF ResultKnown
      <3>3. CASE /\ loop.at = "collide" /\ Setting(loop.job) = s /\ job' = job
                 /\ loop'.at = "reset-error" /\ loop'.job = loop.job
        <4>1. loop.at \in DispatchAt /\ loop.job \in Transcodes
          BY <3>3 DEF LoopKnown, DispatchAt, UnownedAt
        <4>2. Gen(loop.job) \in Gens /\ Gen(loop.job) <= gen
          BY <3>3, LoopGen
        <4>3. CASE Gen(loop.job) = gen
          BY <3>3, <4>1, <4>3, TranscodeParts
        <4>4. CASE Gen(loop.job) < gen
          BY <3>3, <4>1, <4>4 DEF CurrentKnown, Unqueued
        <4>5. Gen(loop.job) = gen \/ Gen(loop.job) < gen
          <5>1. \A a, b \in Gens : a <= b => a = b \/ a < b
            BY LifecycleAssumption DEF Gens
          <5> QED
            BY <4>2, <5>1 DEF TypeOK
        <4> QED
          BY <4>3, <4>4, <4>5
      <3>4. CASE /\ file.owner \in Transcodes /\ Setting(file.owner) = s
                 /\ task[file.owner].at \in {"persist", "fail-write"}
                 /\ task'[file.owner].at \in {"mark", "complete", "fail-job"}
        <4>1. Gen(file.owner) = gen
          BY <3>4 DEF CurrentKnown, FreeAt
        <4>2. file.owner = j
          BY <3>4, <4>1, TranscodeParts
        <4> QED
          BY <3>4, <4>2 DEF RecordedAt
      <3> QED
        BY <1>1, <2>5, <3>2, <3>3, <3>4 DEF ResultMoves
    <2>6. ASSUME loop'.at = "assign" PROVE file'.results[Setting(loop'.job)] = "none"
      <3>1. loop.at \in {"validate", "assign"} /\ loop'.job = loop.job
        BY <1>1, <2>6 DEF AssignMoves
      <3>2. /\ loop.job \in Transcodes /\ Setting(loop.job) \in Settings
            /\ \A j \in Transcodes : task[j].at \in FreeAt
        BY <1>b, <3>1, JobGens DEF DispatchAt, ClaimedAt
      <3>3. file.results[Setting(loop.job)] = "none"
        <4>1. CASE loop.at = "assign"
          BY <4>1 DEF ResultKnown
        <4>2. CASE loop.at = "validate"
          <5>1. Active(loop.job)
            BY <1>1, <2>6, <4>2 DEF AssignMoves, PreparedTaskMatches, Active
          <5>2. loop.job = <<gen, Setting(loop.job)>>
            BY <1>3, <2>6, <3>1, <3>2, TranscodeParts DEF CurrentKnown
          <5>3. task[loop.job].at \notin RecordedAt
            BY <3>2 DEF FreeAt, RecordedAt
          <5> QED
            BY <3>2, <4>2, <5>1, <5>2, <5>3 DEF ResultKnown
        <4> QED
          BY <3>1, <4>1, <4>2
      <3>4. file.owner \in Transcodes => task[file.owner].at \notin {"persist", "fail-write"}
        BY <3>2 DEF FreeAt
      <3> QED
        BY <2>4, <3>1, <3>2, <3>3, <3>4
    <2>7. ASSUME NEW j \in Transcodes, task'[j].at \in UnrecordedAt
          PROVE  file'.results[Setting(j)] = "none"
      <3>1. CASE task[j].at \in UnrecordedAt
        <4>1. task[j].at \notin FreeAt /\ file.results[Setting(j)] = "none"
          BY <3>1 DEF ResultKnown, UnrecordedAt, FreeAt
        <4>2. /\ file.owner = j /\ loop.at # "collide" /\ Setting(j) \in Settings
              /\ task[j].at \notin {"persist", "fail-write"}
          BY <1>a, <3>1, <4>1, JobGens DEF DispatchAt, UnownedAt, UnrecordedAt
        <4> QED
          BY <2>4, <4>1, <4>2
      <3>2. CASE loop.at = "assign" /\ loop.job = j /\ Assign
        BY <3>2 DEF Assign, ResultKnown
      <3>3. CASE TaskStep(j) \/ LoseRunner(j)
        <4>1. task[j].at \in UnrecordedAt
          BY <2>7, <3>3, UnrecordedBack
        <4> QED
          BY <3>1, <4>1
      <3>4. CASE task'[j] = task[j]
        BY <2>7, <3>1, <3>4
      <3> QED
        BY <3>2, <3>3, <3>4, TaskActs
    <2> QED
      BY <1>3, <2>2, <2>3, <2>5, <2>6, <2>7 DEF ResultKnown, Active
  <1> QED
    BY <1>2, <1>3, GenMove

\* Whoever clears a stop, clears its mark.
LEMMA CancelTask ==
  ASSUME NEW j \in Transcodes, TypeOK, OwnerKnown, NoReturn, CancelKnown,
         task'[j].at \notin FreeAt, file'.cancelled,
         TaskStep(j) \/ LoseRunner(j)
  PROVE  file'.status = "stopped"
  <1> USE DEF TypeOK, Files, NoReturn, OwnerKnown, FreeAt, FinishAt, CancelKnown,
        Stopped, NoTask
  <1>1. CASE CommitStep(j)
    <2>1. CASE FinalizeRead(j)
      BY <2>1 DEF FinalizeRead, TaskAt, TaskTo, TaskEnds, notTask
    <2>2. CASE Begin(j)
      BY <2>2 DEF Begin, TaskAt, TaskTo, Transitions, notTask
    <2>3. CASE ValidateOutput(j)
      BY <2>3 DEF ValidateOutput, TaskAt, TaskTo, Attempt, notTask
    <2>4. CASE BeforeFilters(j)
      BY <2>4 DEF BeforeFilters, TaskAt, TaskTo, TaskEnds, notTask
    <2>5. CASE RunFilters(j)
      BY <2>5 DEF RunFilters, TaskAt, TaskTo, notTask
    <2>6. CASE Commit(j)
      BY <2>6, CommitEffect
    <2>7. CASE Promote(j)
      BY <2>7 DEF Promote, TaskAt, TaskTo, Transitions, notTask
    <2>8. CASE Link(j)
      BY <2>8 DEF Link, TaskAt, TaskTo, Attempt, notTask
    <2>9. CASE JournalCommitted(j)
      BY <2>9 DEF JournalCommitted, TaskAt, TaskTo, Transitions, notTask
    <2>10. CASE Persist(j)
      BY <2>10 DEF Persist, TaskAt, TaskTo, notTask
    <2>11. CASE MarkReplaced(j)
      BY <2>11 DEF MarkReplaced, TaskAt, TaskTo, notTask
    <2>12. CASE Complete(j)
      BY <2>12 DEF Complete, TaskAt, TaskTo, CompleteIfRunning, notTask
    <2>13. CASE TaskRecount(j)
      BY <2>13 DEF TaskRecount, TaskAt, notTask
    <2>14. CASE TaskAggregate(j)
      BY <2>14 DEF TaskAggregate, TaskAt, Recomputed, notTask, Derive
    <2>15. CASE JournalCleaned(j)
      BY <2>15 DEF JournalCleaned, TaskAt, TaskTo, notTask
    <2>16. CASE Unlink(j)
      BY <2>16 DEF Unlink, TaskAt, TaskTo, notTask
    <2>17. CASE Unjournal(j)
      BY <2>17 DEF Unjournal, TaskAt, TaskTo, notTask
    <2>18. CASE Release(j)
      BY <2>18 DEF Release, TaskAt, TaskTo, Released, CanRelease, notTask
    <2>19. CASE EraseJournal(j)
      BY <2>19 DEF EraseJournal, TaskAt, TaskEnds, notTask
    <2>20. CASE Settle(j)
      BY <2>20 DEF Settle, TaskAt, TaskEnds, FailIfActive, notTask
    <2> QED
      BY <1>1, <2>1, <2>2, <2>3, <2>4, <2>5, <2>6, <2>7, <2>8, <2>9, <2>10,
         <2>11, <2>12, <2>13, <2>14, <2>15, <2>16, <2>17, <2>18, <2>19, <2>20
        DEF CommitStep
  <1>2. CASE AbortStep(j)
    <2>1. CASE StopCheck(j)
      BY <2>1 DEF StopCheck, TaskAt, TaskTo, TaskEnds, notTask
    <2>2. CASE StopClean(j)
      BY <2>2 DEF StopClean, TaskAt, TaskTo, notTask
    <2>3. CASE StopComplete(j)
      BY <2>3 DEF StopComplete, TaskAt, TaskTo, CompleteIfRunning, notTask
    <2>4. CASE StopRelease(j)
      BY <2>4 DEF StopRelease, TaskAt, TaskEnds, Released, notTask
    <2>5. CASE FailRead(j)
      BY <2>5 DEF FailRead, TaskAt, TaskTo, notTask
    <2>6. CASE FailClaim(j)
      BY <2>6 DEF FailClaim, TaskAt, TaskTo, Transitions, notTask
    <2>7. CASE FailWrite(j)
      BY <2>7, FailWriteEffect
    <2>8. CASE FailTask(j)
      BY <2>8 DEF FailTask, TaskAt, TaskTo, FailIfActive, notTask
    <2>9. CASE Recover(j)
      BY <2>9 DEF Recover, TaskAt, TaskTo, notTask
    <2>10. CASE ReportUnrecovered(j)
      BY <2>10 DEF ReportUnrecovered, TaskAt, TaskTo, notTask
    <2> QED
      BY <1>2, <2>1, <2>2, <2>3, <2>4, <2>5, <2>6, <2>7, <2>8, <2>9, <2>10
        DEF AbortStep
  <1>3. CASE LostStep(j)
    <2>1. CASE LostRead(j)
      BY <2>1 DEF LostRead, TaskAt, TaskTo, TaskEnds, BelongsTo, notTask
    <2>2. CASE Retire(j)
      BY <2>2
        DEF Retire, TaskAt, TaskTo, RetireOver, Transitions, Retired, Released,
            notTask
    <2>3. CASE RequeueLost(j)
      BY <2>3 DEF RequeueLost, TaskAt, TaskEnds, notTask
    <2>4. CASE RetireStopped(j)
      BY <2>4 DEF RetireStopped, TaskAt, TaskTo, Retired, Released, notTask
    <2>5. CASE FailLostJob(j)
      BY <2>5 DEF FailLostJob, TaskAt, TaskEnds, notTask
    <2> QED
      BY <1>3, <2>1, <2>2, <2>3, <2>4, <2>5 DEF LostStep
  <1>4. CASE Report(j)
    BY <1>4 DEF Report, TaskAt, notTask
  <1>5. CASE LoseRunner(j)
    BY <1>5 DEF LoseRunner, TaskAt, TaskTo, notTask
  <1> QED
    BY <1>1, <1>2, <1>3, <1>4, <1>5 DEF TaskStep

\* A cancelled file that somebody works on is stopped.
LEMMA CancelKept ==
  TypeOK /\ LoopKnown /\ HandedOver /\ OwnerKnown /\ ProbeKnown /\ NoReturn /\ ResultKnown /\
  CancelKnown /\ [Next]_vars
    => CancelKnown'
  <1> SUFFICES ASSUME TypeOK, LoopKnown, HandedOver, OwnerKnown, ProbeKnown,
                      NoReturn, ResultKnown, CancelKnown, [Next]_vars
               PROVE  CancelKnown'
    OBVIOUS
  <1>a. \A j \in Transcodes : task[j].at \notin FreeAt =>
           /\ file.owner = j /\ j # NoJob /\ loop.at \notin DispatchAt
           /\ \A i \in Transcodes : i # j => task[i].at \in FreeAt
    BY Alone
  <1>b. loop.at \in DispatchAt =>
           /\ loop.job \in Transcodes /\ loop.job # NoJob
           /\ file.owner \in {NoJob, loop.job}
           /\ \A j \in Transcodes : task[j].at \in FreeAt
    BY Alone
  <1> USE DEF TypeOK, Files, CancelKnown, LoopIdle, ClaimedAt
  <1>1. CASE LoopStep
    <2>1. ASSUME NEW g \in Gens, TakeProbe(g) PROVE CancelKnown'
      BY <2>1 DEF TakeProbe, LoopAt, notLoop
    <2>2. CASE ProbeClaim
      BY <2>2
        DEF ProbeClaim, LoopAt, LoopTo, notLoop, DispatchAt, UnownedAt,
            ResultKnown
    <2>3. CASE ProbeQueued
      BY <2>3, ProbeQueuedEffect
        DEF OwnsProbe, DispatchAt, UnownedAt, ResultKnown
    <2>4. CASE ProbeFailed
      BY <2>4
        DEF ProbeFailed, LoopAt, LoopTo, OwnsProbe, notLoop, DispatchAt,
            UnownedAt, ResultKnown
    <2>5. CASE ProbeNoMatch
      BY <2>5
        DEF ProbeNoMatch, LoopAt, LoopTo, OwnsProbe, notLoop, DispatchAt,
            UnownedAt, ResultKnown
    <2>6. CASE ProbeCheck
      BY <2>6, ProbeCheckEffect DEF OwnsProbe
    <2>7. CASE ProbeEnqueue
      BY <2>7 DEF ProbeEnqueue, LoopAt, notLoop
    <2>8. CASE ProbePublish
      BY <2>8 DEF ProbePublish, LoopAt, LoopTo, OwnsProbe, notLoop
    <2>9. CASE ProbeFence
      BY <2>9 DEF ProbeFence, LoopAt, LoopTo, notLoop
    <2>10. CASE ProbeDone
      BY <2>10 DEF ProbeDone, LoopAt, LoopStops, CompleteIfRunning, notLoop
    <2>11. ASSUME NEW j \in Transcodes, TakeTranscode(j) PROVE CancelKnown'
      BY <2>11 DEF TakeTranscode, LoopAt, notLoop
    <2>12. CASE PrepareRead
      BY <2>12 DEF PrepareRead, LoopAt, LoopTo, Unpreparable, notLoop
    <2>13. CASE RecordCollision
      BY <2>13, <1>b
        DEF RecordCollision, LoopAt, LoopTo, notLoop, DispatchAt, UnownedAt,
            ResultKnown
    <2>14. CASE ClaimFile
      BY <2>14, <1>b
        DEF ClaimFile, LoopAt, LoopTo, Claimed, Unpreparable, notLoop,
            DispatchAt, UnownedAt, ResultKnown
    <2>15. CASE PatchJob
      BY <2>15 DEF PatchJob, LoopAt, LoopTo, notLoop
    <2>16. CASE RollBackClaim
      BY <2>16, <1>b
        DEF RollBackClaim, LoopAt, LoopTo, Released, notLoop, DispatchAt,
            UnownedAt, ResultKnown
    <2>17. CASE ValidatePrepared
      BY <2>17
        DEF ValidatePrepared, LoopAt, LoopTo, PreparedTaskMatches, notLoop
    <2>18. CASE Assign
      BY <2>18 DEF Assign, LoopAt, LoopStops, notLoop, FreeAt
    <2>19. CASE NoRunnerLeft
      BY <2>19 DEF NoRunnerLeft, LoopAt, LoopTo, notLoop
    <2>20. CASE Reset
      BY <2>20, <1>b
        DEF Reset, LoopAt, LoopTo, LoopStops, Released, notLoop, DispatchAt,
            UnownedAt, ResultKnown
    <2>21. CASE FailJob
      BY <2>21 DEF FailJob, LoopAt, LoopTo, FailIfActive, notLoop
    <2>22. CASE LoopRecount
      BY <2>22 DEF LoopRecount, LoopAt, notLoop
    <2>23. CASE LoopAggregate
      BY <2>23, <1>b
        DEF LoopAggregate, LoopAt, LoopStops, Recomputed, notLoop, DispatchAt,
            UnownedAt, ResultKnown
    <2>24. CASE CompleteSkipped
      BY <2>24
        DEF CompleteSkipped, LoopAt, LoopStops, CompleteIfRunning, notLoop
    <2> QED
      BY <1>1, <2>1, <2>2, <2>3, <2>4, <2>5, <2>6, <2>7, <2>8, <2>9, <2>10,
         <2>11, <2>12, <2>13, <2>14, <2>15, <2>16, <2>17, <2>18, <2>19, <2>20,
         <2>21, <2>22, <2>23, <2>24
        DEF LoopStep
  <1>2. ASSUME NEW j \in Transcodes, TaskStep(j) \/ LoseRunner(j) PROVE CancelKnown'
    <2>1. \A i \in Transcodes : i # j => task'[i] = task[i]
      BY <1>2, OneTask
    <2>2. CASE task[j].at \in FreeAt
      <3>1. file'.status = file.status /\ file'.cancelled = file.cancelled /\ loop' = loop
        BY <1>2, <2>2, FreeTask, OneTask DEF TypeOK, Files
      <3>2. task'[j].at \in FreeAt
        BY <1>2, <2>2, FreeTask DEF FreeAt, NoTask
      <3> QED
        BY <2>1, <3>1, <3>2 DEF CancelKnown
    <2>3. CASE task[j].at \notin FreeAt
      <3>1. loop'.at \notin ClaimedAt /\ \A i \in Transcodes : i # j => task'[i].at \in FreeAt
        BY <1>2, <1>a, <2>1, <2>3, OneTask DEF DispatchAt
      <3>2. file'.cancelled /\ task'[j].at \notin FreeAt => file'.status = "stopped"
        BY <1>2, CancelTask
      <3> QED
        BY <3>1, <3>2 DEF CancelKnown
    <2> QED
      BY <2>2, <2>3
  <1>3. CASE StopWrite
    BY <1>3 DEF StopWrite, UserIdle, notUser
  <1>4. CASE RequeuePublish
    BY <1>4
      DEF RequeuePublish, notUser, OwnerKnown, ResultKnown, ProbeKnown,
          DispatchAt
  <1>5. CASE RequeueCreate
    BY <1>5
      DEF RequeueCreate, UserIdle, notUser, OwnerKnown, ResultKnown,
          ProbeKnown, DispatchAt
  <1>6. ASSUME NEW s \in Settings, Replace(s) PROVE CancelKnown'
    BY <1>6, <1>a, <1>b
      DEF Replace, Unsettled, notUser, OwnerKnown, ResultKnown, ProbeKnown,
          DispatchAt
  <1>7. CASE Remove
    BY <1>7
      DEF Remove, Unsettled, notUser, OwnerKnown, ResultKnown, ProbeKnown,
          DispatchAt
  <1>8. CASE StopRead \/ (\E k \in Jobs : StopFailJob(k)) \/ RequeueRead \/
             (\E k \in Jobs : RequeueFailJob(k))
    BY <1>8 DEF StopRead, StopFailJob, RequeueRead, RequeueFailJob, notUser
  <1>9. CASE UNCHANGED vars
    BY <1>9 DEF vars
  <1> QED
    BY <1>1, <1>2, <1>3, <1>4, <1>5, <1>6, <1>7, <1>8, <1>9
      DEF Next, StopStep, RequeueStep

-----------------------------------------------------------------------------
(***************************************************************************)
(* The status shows the results.                                           *)
(***************************************************************************)
\* The status and the results, unmoved, show what they showed.
StatusStays == gen' = gen /\ file'.status = file.status /\ file'.results = file.results

\* A job that ended without a result keeps having none while results stay.
LEMMA UnattemptedStays ==
  ASSUME TypeOK, gen' = gen, file'.results = file.results,
         \A j \in Jobs : JobMoves(j), Unattempted
  PROVE  Unattempted'
  <1>1. PICK s \in Settings : job[<<gen, s>>] # "none" /\ file.results[s] = "none"
    BY DEF Unattempted
  <1>2. <<gen, s>> \in Jobs
    BY TranscodeJobs DEF TypeOK
  <1>3. job'[<<gen, s>>] # "none"
    BY <1>1, <1>2 DEF JobMoves
  <1> QED
    BY <1>1, <1>3 DEF Unattempted

\* A status that shows its results does so while both stay.
LEMMA ShownStays ==
  ASSUME TypeOK, StatusStays, \A j \in Jobs : JobMoves(j), Shown
  PROVE  Shown'
  <1>1. Unattempted => Unattempted'
    BY UnattemptedStays DEF StatusStays
  <1>2. Derive(file, FALSE, FALSE) = Derive(file, FALSE, FALSE)'
    BY DEF Derive, StatusStays
  <1> QED
    BY <1>1, <1>2 DEF Shown, StatusStays, NoResults

\* What a recount writes is shown.
LEMMA RecountShows ==
  ASSUME TypeOK, NEW ignored, file.owner \in {NoJob, ignored}, NEW listed \in BOOLEAN,
         file' = Recomputed(file, ignored, listed), gen' = gen,
         \A j \in Jobs : JobMoves(j), listed => Unattempted
  PROVE  Shown'
  <1>1. file'.results = file.results
    BY DEF Recomputed, TypeOK, Files
  <1>2. CASE file.status = "missing"
    BY <1>2 DEF Recomputed, Shown
  <1>3. CASE file.status # "missing"
    <2>1. file'.status = Derive(file, FALSE, listed)
      BY <1>3 DEF Recomputed, TypeOK, Files, Derive
    <2>2. CASE file.status = "stopped"
      BY <2>1, <2>2 DEF Derive, Shown
    <2>3. CASE file.status # "stopped" /\ listed
      <3>1. file'.status = "queued" /\ Unattempted'
        BY <1>1, <2>1, <2>3, UnattemptedStays DEF Derive
      <3> QED
        BY <3>1 DEF Shown
    <2>4. CASE file.status # "stopped" /\ ~listed
      <3>1. file'.status \in {"replaced", "transcoded", "failed", "rejected", "queued"}
            /\ file'.status = Derive(file, FALSE, FALSE)
        BY <2>1, <2>4 DEF Derive
      <3>2. Derive(file, FALSE, FALSE)' = file'.status
        BY <1>1, <2>4, <3>1 DEF Derive
      <3> QED
        BY <3>2 DEF Shown
    <2> QED
      BY <2>2, <2>3, <2>4
  <1> QED
    BY <1>2, <1>3

\* What a recount lists is a setting to be attempted.
LEMMA ListedUnattempted ==
  ASSUME TypeOK, OldKnown, ResultKnown, NEW j \in Transcodes, Active(j),
         task[j].at \notin RecordedAt,
         ~(loop.job = j /\ loop.at \in {"reset-error", "fail"}),
         ~(loop.job = ProbeJob(Gen(j)) /\ loop.at \in EnqueueAt), Gen(j) <= gen
  PROVE  Unattempted /\ Gen(j) = gen
  <1>1. Gen(j) = gen
    <2>1. ~(Gen(j) < gen)
      BY JobGens DEF OldKnown, Outstanding, Enqueued
    <2>2. \A a, b \in Gens : a <= b => a = b \/ a < b
      BY LifecycleAssumption DEF Gens
    <2> QED
      BY <2>1, <2>2, JobGens DEF TypeOK
  <1>2. j = <<gen, Setting(j)>> /\ Setting(j) \in Settings
    BY <1>1, TranscodeParts, JobGens
  <1>3. file.results[Setting(j)] = "none"
    BY <1>2 DEF ResultKnown
  <1>4. job[<<gen, Setting(j)>>] # "none"
    BY <1>2 DEF Active
  <1> QED
    BY <1>1, <1>2, <1>3, <1>4 DEF Unattempted

\* While a task holds the file, nobody else moves its status and its results,
\* except for a stop before the point of no return.
Held(j) ==
    task[j].at \notin FreeAt =>
       \/ TaskStep(j) \/ LoseRunner(j)
       \/ StatusStays
       \/ /\ gen' = gen /\ file'.results = file.results
          /\ file'.status = "stopped" /\ file.phase # "committing"

\* Nobody but the task that holds the file moves its status, except for a stop.
LEMMA HeldKept ==
  TypeOK /\ LoopKnown /\ LockKnown /\ HandedOver /\ OwnerKnown /\ ProbeKnown /\ NoReturn /\
  ResultKnown /\ [Next]_vars
    => (\A i \in Transcodes : Held(i))
  <1> SUFFICES ASSUME TypeOK, LoopKnown, LockKnown, HandedOver, OwnerKnown,
                      ProbeKnown, NoReturn, ResultKnown, [Next]_vars
               PROVE  (\A i \in Transcodes : Held(i))
    OBVIOUS
  <1>a. \A j \in Transcodes : task[j].at \notin FreeAt =>
           /\ file.owner = j /\ j # NoJob /\ loop.at \notin DispatchAt
           /\ \A i \in Transcodes : i # j => task[i].at \in FreeAt
    BY Alone
  <1>b. loop.at \in DispatchAt =>
           /\ loop.job \in Transcodes /\ loop.job # NoJob
           /\ file.owner \in {NoJob, loop.job}
           /\ \A j \in Transcodes : task[j].at \in FreeAt
    BY Alone
  <1>c. \A j \in Transcodes : task[j].at \notin FreeAt =>
           /\ file.owner = j /\ file.owner # NoJob /\ file.status # "pending"
           /\ loop.at \notin DispatchAt /\ loop.at \notin ProbingAt
           /\ requeue.at \notin {"fail", "create"}
           /\ file.phase = "committing" => lock # "stop"
    BY <1>a DEF ResultKnown, ProbeKnown, NoReturn
  <1> USE DEF TypeOK, Files, Held, StatusStays
  <1>1. CASE LoopStep
    <2>1. CASE ProbeClaim
      BY <2>1, <1>c
        DEF ProbeClaim, LoopAt, LoopTo, notLoop, ProbingAt, EnqueueAt
    <2>2. CASE ProbeQueued
      BY <2>2, ProbeQueuedEffect, <1>c DEF OwnsProbe, ProbingAt, EnqueueAt
    <2>3. CASE ProbeFailed
      BY <2>3, <1>c
        DEF ProbeFailed, LoopAt, LoopTo, OwnsProbe, notLoop, ProbingAt,
            EnqueueAt
    <2>4. CASE ProbeNoMatch
      BY <2>4, <1>c
        DEF ProbeNoMatch, LoopAt, LoopTo, OwnsProbe, notLoop, ProbingAt,
            EnqueueAt
    <2>5. CASE ProbePublish
      BY <2>5, <1>c
        DEF ProbePublish, LoopAt, LoopTo, OwnsProbe, notLoop, ProbingAt,
            EnqueueAt
    <2>6. CASE RecordCollision
      BY <2>6, <1>c
        DEF RecordCollision, LoopAt, LoopTo, notLoop, DispatchAt, UnownedAt,
            ClaimedAt
    <2>7. CASE ClaimFile
      BY <2>7, <1>c
        DEF ClaimFile, LoopAt, LoopTo, Claimed, Unpreparable, notLoop,
            DispatchAt, UnownedAt, ClaimedAt
    <2>8. CASE RollBackClaim
      BY <2>8, <1>c
        DEF RollBackClaim, LoopAt, LoopTo, Released, notLoop, DispatchAt,
            UnownedAt, ClaimedAt
    <2>9. CASE Reset
      BY <2>9, <1>c
        DEF Reset, LoopAt, LoopTo, LoopStops, Released, notLoop, DispatchAt,
            UnownedAt, ClaimedAt
    <2>10. CASE LoopAggregate
      BY <2>10, <1>c
        DEF LoopAggregate, LoopAt, LoopStops, Recomputed, notLoop, DispatchAt,
            UnownedAt, ClaimedAt
    <2>11. CASE (\E g \in Gens : TakeProbe(g)) \/ ProbeCheck \/ ProbeEnqueue \/
                ProbeFence \/ ProbeDone \/
                (\E j \in Transcodes : TakeTranscode(j)) \/ PrepareRead \/
                PatchJob \/ ValidatePrepared \/ Assign \/ NoRunnerLeft \/ FailJob \/
                LoopRecount \/ CompleteSkipped
      BY <2>11, <1>c
        DEF TakeProbe, ProbeCheck, ProbeEnqueue, ProbeFence, ProbeDone,
            TakeTranscode, PrepareRead, PatchJob, ValidatePrepared, Assign,
            NoRunnerLeft, FailJob, LoopRecount, CompleteSkipped, notLoop
    <2> QED
      BY <1>1, <2>1, <2>2, <2>3, <2>4, <2>5, <2>6, <2>7, <2>8, <2>9, <2>10,
         <2>11
        DEF LoopStep
  <1>2. ASSUME NEW j \in Transcodes, TaskStep(j) \/ LoseRunner(j) PROVE (\A i \in Transcodes : Held(i))
    <2>1. ASSUME NEW i \in Transcodes, task[i].at \notin FreeAt, i # j PROVE StatusStays
      <3>1. task[j].at \in FreeAt
        BY <1>a, <2>1
      <3>2. gen' = gen /\ file'.status = file.status /\ file'.results = file.results
        BY <1>2, <3>1, FreeTask, OneTask DEF TypeOK, Files
      <3> QED
        BY <3>2 DEF StatusStays
    <2> QED
      BY <1>2, <2>1 DEF Held
  <1>3. CASE StopWrite
    BY <1>3, <1>c DEF StopWrite, UserIdle, notUser, LockKnown
  <1>4. CASE RequeuePublish
    BY <1>4, <1>c DEF RequeuePublish, notUser
  <1>5. CASE RequeueCreate
    BY <1>5, <1>c DEF RequeueCreate, UserIdle, notUser
  <1>6. ASSUME NEW s \in Settings, Replace(s) PROVE (\A i \in Transcodes : Held(i))
    BY <1>6, <1>c DEF Replace, Unsettled, notUser
  <1>7. CASE Remove
    BY <1>7, <1>c DEF Remove, Unsettled, notUser
  <1>8. CASE StopRead \/ (\E k \in Jobs : StopFailJob(k)) \/ RequeueRead \/
             (\E k \in Jobs : RequeueFailJob(k))
    BY <1>8, <1>c
      DEF StopRead, StopFailJob, RequeueRead, RequeueFailJob, notUser
  <1>9. CASE UNCHANGED vars
    BY <1>9, <1>c DEF vars
  <1> QED
    BY <1>1, <1>2, <1>3, <1>4, <1>5, <1>6, <1>7, <1>8, <1>9
      DEF Next, StopStep, RequeueStep

\* A task knows what the status of its file shows.
LEMMA StatusTask ==
  ASSUME NEW j \in Transcodes, TypeOK, task[j].at \notin FreeAt, gen' = gen,
         \A k \in Jobs : JobMoves(k), LoopKnown, HandedOver, OwnerKnown,
         NoReturn, CancelKnown, JournalKnown, LaterJobs, OldKnown, ResultKnown,
         StatusOf(j), TaskStep(j) \/ LoseRunner(j)
  PROVE  StatusOf(j)'
  <1>s. StatusStays => (Shown => Shown')
    BY ShownStays
  <1>u. file'.results = file.results => (Unattempted => Unattempted')
    BY UnattemptedStays
  <1>o. file.owner = j /\ (task[j].at \in FinishAt => file.phase = "committing" /\ ~Stopped(file))
    BY DEF OwnerKnown, NoReturn, FreeAt
  <1> USE DEF StatusOf, ShownAt, FreeAt, TypeOK, NoTask
  <1>1. CASE CommitStep(j)
    <2>1. CASE FinalizeRead(j)
      BY <2>1, <1>s, <1>u, <1>o
        DEF FinalizeRead, TaskAt, TaskTo, TaskEnds, notTask, StatusStays, Files
    <2>2. CASE Begin(j)
      BY <2>2, <1>s, <1>u, <1>o
        DEF Begin, TaskAt, TaskTo, Transitions, notTask, StatusStays, Files
    <2>3. CASE ValidateOutput(j)
      BY <2>3, <1>s, <1>u, <1>o
        DEF ValidateOutput, TaskAt, TaskTo, Attempt, notTask, StatusStays,
            Files
    <2>4. CASE BeforeFilters(j)
      BY <2>4, <1>s, <1>u, <1>o
        DEF BeforeFilters, TaskAt, TaskTo, TaskEnds, notTask, StatusStays,
            Files
    <2>5. CASE RunFilters(j)
      BY <2>5, <1>s, <1>u, <1>o
        DEF RunFilters, TaskAt, TaskTo, notTask, StatusStays, Files
    <2>6. CASE Commit(j)
      BY <2>6, CommitEffect, <1>s, <1>u, <1>o DEF StatusStays, Files
    <2>7. CASE Promote(j)
      BY <2>7, <1>s, <1>u, <1>o
        DEF Promote, TaskAt, TaskTo, Transitions, notTask, StatusStays, Files
    <2>8. CASE Link(j)
      BY <2>8, <1>s, <1>u, <1>o
        DEF Link, TaskAt, TaskTo, Attempt, notTask, StatusStays, Files
    <2>9. CASE JournalCommitted(j)
      BY <2>9, <1>s, <1>u, <1>o
        DEF JournalCommitted, TaskAt, TaskTo, Transitions, notTask,
            StatusStays, Files
    <2>10. CASE Persist(j)
      <3>1. Setting(j) \in Settings /\ gen' = gen
        BY JobGens
      <3>2. CASE /\ file' = [file EXCEPT !.results[Setting(j)] = task[j].res]
                 /\ TaskTo(j, IF task[j].res = "replaced" THEN "mark" ELSE "complete")
        <4>1. task'[j].at \in {"mark", "complete"} /\ task'[j].res = task[j].res
          BY <3>2 DEF TaskTo
        <4>2. file'.results[Setting(j)] = task[j].res
          BY <3>1, <3>2 DEF Files
        <4> QED
          BY <4>1, <4>2
      <3>3. CASE TaskTo(j, "recover")
        BY <3>3 DEF TaskTo
      <3> QED
        BY <2>10, <3>2, <3>3 DEF Persist
    <2>11. CASE MarkReplaced(j)
      BY <2>11, <1>s, <1>u, <1>o
        DEF MarkReplaced, TaskAt, TaskTo, notTask, StatusStays, Files
    <2>12. CASE Complete(j)
      <3>1. /\ task[j].at = "complete" /\ task'[j].res = task[j].res
            /\ task'[j].at = IF task[j].res = "replaced" THEN "clean" ELSE "recount"
            /\ StatusStays
        BY <2>12 DEF Complete, TaskAt, TaskTo, StatusStays
      <3>2. task[j].res = "replaced" => Shown
        <4>1. task[j].res = "replaced" => file.status = "replaced"
          BY <3>1 DEF JournalKnown, TaskKnown
        <4>2. task[j].res = "replaced" => file.results[Setting(j)] = "replaced"
          BY <3>1
        <4> QED
          BY <4>1, <4>2, JobGens DEF Shown, Derive
      <3> QED
        BY <3>1, <3>2, <1>s
    <2>13. CASE TaskRecount(j)
      <3>1. /\ task[j].at = "recount" /\ file' = file
            /\ task'[j].at = "aggregate" /\ task'[j].listed = OthersActive(j)
        BY <2>13 DEF TaskRecount, TaskAt
      <3>2. OthersActive(j) => Unattempted
        <4>1. SUFFICES ASSUME NEW i \in Transcodes, i # j, Active(i) PROVE Unattempted
          BY DEF OthersActive, ActiveTranscodes
        <4>2. task[i].at \notin RecordedAt /\ loop.at \notin DispatchAt
          BY <3>1, <4>1, Alone DEF RecordedAt
        <4>3. file.owner # NoJob
          BY <1>o, NoJobApart
        <4>4. loop.at \notin EnqueueAt /\ loop.at \notin {"reset-error", "fail"}
          BY <4>2, <4>3 DEF ResultKnown, ProbingAt, DispatchAt, UnownedAt
        <4>5. Gen(i) <= gen
          <5>1. ~(Gen(i) > gen) /\ Gen(i) \in Gens
            BY <4>1, JobGens DEF LaterJobs, Active
          <5> QED
            BY <5>1 DEF Gens
        <4> QED
          BY <4>1, <4>2, <4>4, <4>5, ListedUnattempted
      <3> QED
        BY <3>1, <3>2, <1>u
    <2>14. CASE TaskAggregate(j)
      BY <2>14, <1>s, <1>u, <1>o
        DEF TaskAggregate, TaskAt, Recomputed, notTask, StatusStays, Files
    <2>15. CASE JournalCleaned(j)
      BY <2>15, <1>s, <1>u, <1>o
        DEF JournalCleaned, TaskAt, TaskTo, notTask, StatusStays, Files
    <2>16. CASE Unlink(j)
      BY <2>16, <1>s, <1>u, <1>o
        DEF Unlink, TaskAt, TaskTo, notTask, StatusStays, Files
    <2>17. CASE Unjournal(j)
      BY <2>17, <1>s, <1>u, <1>o
        DEF Unjournal, TaskAt, TaskTo, notTask, StatusStays, Files
    <2>18. CASE Release(j)
      BY <2>18, <1>s, <1>u, <1>o
        DEF Release, TaskAt, TaskTo, Released, CanRelease, notTask,
            StatusStays, Files
    <2>19. CASE EraseJournal(j)
      BY <2>19, <1>s, <1>u, <1>o
        DEF EraseJournal, TaskAt, TaskEnds, notTask, StatusStays, Files
    <2>20. CASE Settle(j)
      BY <2>20, <1>s, <1>u, <1>o
        DEF Settle, TaskAt, TaskEnds, FailIfActive, notTask, StatusStays, Files
    <2> QED
      BY <1>1, <2>1, <2>2, <2>3, <2>4, <2>5, <2>6, <2>7, <2>8, <2>9, <2>10,
         <2>11, <2>12, <2>13, <2>14, <2>15, <2>16, <2>17, <2>18, <2>19, <2>20
        DEF CommitStep
  <1>2. CASE AbortStep(j)
    <2>1. CASE StopCheck(j)
      BY <2>1, <1>s, <1>u, <1>o
        DEF StopCheck, TaskAt, TaskTo, TaskEnds, notTask, StatusStays, Files
    <2>2. CASE StopClean(j)
      BY <2>2, <1>s, <1>u, <1>o
        DEF StopClean, TaskAt, TaskTo, notTask, StatusStays, Files
    <2>3. CASE StopComplete(j)
      BY <2>3, <1>s, <1>u, <1>o
        DEF StopComplete, TaskAt, TaskTo, CompleteIfRunning, notTask,
            StatusStays, Files
    <2>4. CASE StopRelease(j)
      BY <2>4, <1>s, <1>u, <1>o
        DEF StopRelease, TaskAt, TaskEnds, Released, notTask, StatusStays,
            Files
    <2>5. CASE FailRead(j)
      BY <2>5, <1>s, <1>u, <1>o
        DEF FailRead, TaskAt, TaskTo, notTask, StatusStays, Files
    <2>6. CASE FailClaim(j)
      BY <2>6, <1>s, <1>u, <1>o
        DEF FailClaim, TaskAt, TaskTo, Transitions, notTask, StatusStays, Files
    <2>7. CASE FailWrite(j)
      BY <2>7, FailWriteEffect, <1>s, <1>u, <1>o DEF StatusStays, Files
    <2>8. CASE FailTask(j)
      BY <2>8, <1>s, <1>u, <1>o
        DEF FailTask, TaskAt, TaskTo, FailIfActive, notTask, StatusStays, Files
    <2>9. CASE Recover(j)
      BY <2>9, <1>s, <1>u, <1>o
        DEF Recover, TaskAt, TaskTo, notTask, StatusStays, Files
    <2>10. CASE ReportUnrecovered(j)
      BY <2>10, <1>s, <1>u, <1>o
        DEF ReportUnrecovered, TaskAt, TaskTo, notTask, StatusStays, Files
    <2> QED
      BY <1>2, <2>1, <2>2, <2>3, <2>4, <2>5, <2>6, <2>7, <2>8, <2>9, <2>10
        DEF AbortStep
  <1>3. CASE LostStep(j)
    <2>1. CASE LostRead(j)
      BY <2>1, <1>s, <1>u, <1>o
        DEF LostRead, TaskAt, TaskTo, TaskEnds, BelongsTo, notTask,
            StatusStays, Files
    <2>2. CASE Retire(j)
      <3>1. CASE Transitions(j, TRUE)
        <4>1. task'[j].at \in {"requeue", "lost-job"}
          BY <2>2, <3>1 DEF Retire, RetireOver, TaskTo
        <4> QED
          BY <4>1
      <3>2. CASE ~Transitions(j, TRUE)
        <4>1. task'[j].at = "retire-stopped" /\ file' = file
          BY <2>2, <3>2 DEF Retire, RetireOver, TaskTo
        <4>2. Stopped(file)
          BY <3>2, <1>o DEF Transitions
        <4>3. file.status = "stopped"
          BY <4>2 DEF Stopped, CancelKnown
        <4> QED
          BY <4>1, <4>3
      <3> QED
        BY <3>1, <3>2
    <2>3. CASE RequeueLost(j)
      BY <2>3, <1>s, <1>u, <1>o
        DEF RequeueLost, TaskAt, TaskEnds, notTask, StatusStays, Files
    <2>4. CASE RetireStopped(j)
      BY <2>4, <1>s, <1>u, <1>o
        DEF RetireStopped, TaskAt, TaskTo, Retired, Released, notTask,
            StatusStays, Files
    <2>5. CASE FailLostJob(j)
      BY <2>5, <1>s, <1>u, <1>o
        DEF FailLostJob, TaskAt, TaskEnds, notTask, StatusStays, Files
    <2> QED
      BY <1>3, <2>1, <2>2, <2>3, <2>4, <2>5 DEF LostStep
  <1>4. CASE Report(j)
    BY <1>4, <1>s, <1>u, <1>o DEF Report, TaskAt, notTask, StatusStays, Files
  <1>5. CASE LoseRunner(j)
    BY <1>5, <1>s, <1>u, <1>o
      DEF LoseRunner, TaskAt, TaskTo, notTask, StatusStays, Files
  <1> QED
    BY <1>1, <1>2, <1>3, <1>4, <1>5 DEF TaskStep

\* Every task keeps what it knows of the status, whoever moves.
LEMMA StatusOfKept ==
  /\ TypeOK /\ LoopKnown /\ LockKnown /\ HandedOver /\ OwnerKnown /\ ProbeKnown /\ NoReturn
  /\ CancelKnown /\ JournalKnown /\ LaterJobs /\ OldKnown /\ ResultKnown /\ StatusKnown
  /\ [Next]_vars
  => \A j \in Transcodes : StatusOf(j)'
  <1> SUFFICES ASSUME TypeOK, LoopKnown, LockKnown, HandedOver, OwnerKnown, ProbeKnown, NoReturn,
                      CancelKnown, JournalKnown, LaterJobs, OldKnown, ResultKnown, StatusKnown,
                      [Next]_vars, NEW j \in Transcodes
               PROVE  StatusOf(j)'
    OBVIOUS
  <1>1. \A k \in Jobs : JobMoves(k)
    BY JobsMove
  <1>2. task'[j].at \in FreeAt \union {"exec"} => StatusOf(j)'
    BY DEF StatusOf, FreeAt, ShownAt
  <1>3. StatusOf(j)
    BY DEF StatusKnown
  <1>4. CASE TaskStep(j) \/ LoseRunner(j)
    <2>1. CASE task[j].at \in FreeAt
      <3>1. task'[j].at \in FreeAt
        BY <1>4, <2>1, FreeTask DEF FreeAt, NoTask
      <3> QED
        BY <1>2, <3>1
    <2>2. CASE task[j].at \notin FreeAt
      <3>1. gen' = gen
        BY <1>4, OneTask
      <3> QED
        BY <1>1, <1>3, <1>4, <2>2, <3>1, StatusTask
    <2> QED
      BY <2>1, <2>2
  <1>5. CASE loop.at = "assign" /\ loop.job = j /\ Assign
    <2>1. task'[j].at = "exec"
      BY <1>5 DEF Assign, TypeOK
    <2> QED
      BY <1>2, <2>1
  <1>6. CASE task'[j] = task[j] /\ ~(TaskStep(j) \/ LoseRunner(j))
    <2>1. CASE task[j].at \in FreeAt
      BY <1>2, <1>6, <2>1
    <2>2. CASE task[j].at \notin FreeAt /\ StatusStays
      <3>1. (Shown => Shown') /\ (Unattempted => Unattempted')
        BY <1>1, <2>2, ShownStays, UnattemptedStays DEF StatusStays
      <3> QED
        BY <1>3, <1>6, <2>2, <3>1 DEF StatusOf, StatusStays
    <2>3. CASE /\ task[j].at \notin FreeAt /\ gen' = gen /\ file'.results = file.results
               /\ file'.status = "stopped" /\ file.phase # "committing"
      <3>1. task[j].at \notin FinishAt
        BY <2>3 DEF OwnerKnown
      <3>2. task'[j].at \notin {"aggregate", "mark", "complete"} \union ShownAt
        BY <1>6, <3>1 DEF FinishAt, ShownAt
      <3> QED
        BY <2>3, <3>2 DEF StatusOf, ShownAt
    <2> QED
      BY <1>6, <2>1, <2>2, <2>3, HeldKept DEF Held
  <1> QED
    BY <1>4, <1>5, <1>6, TaskActs

\* A task lets the file go when its status shows the results.
LEMMA OwnerShown ==
  ASSUME NEW j \in Transcodes, TypeOK, task[j].at \notin FreeAt, gen' = gen,
         \A k \in Jobs : JobMoves(k), HandedOver, OwnerKnown, CancelKnown,
         CurrentKnown, ResultKnown, StatusOf(j), TaskStep(j) \/ LoseRunner(j)
  PROVE  file'.owner = j \/ Shown'
  <1>s. StatusStays => (Shown => Shown')
    BY ShownStays
  <1>o. file.owner = j
    BY DEF OwnerKnown
  <1>u. file'.results = file.results => (Unattempted => Unattempted')
    BY UnattemptedStays
  <1> USE DEF StatusOf, ShownAt, FreeAt, TypeOK, NoTask
  <1>1. CASE CommitStep(j)
    <2>1. CASE FinalizeRead(j)
      BY <2>1, <1>o DEF FinalizeRead, TaskAt, TaskTo, TaskEnds, notTask, Files
    <2>2. CASE Begin(j)
      BY <2>2, <1>o DEF Begin, TaskAt, TaskTo, Transitions, notTask, Files
    <2>3. CASE ValidateOutput(j)
      BY <2>3, <1>o DEF ValidateOutput, TaskAt, TaskTo, Attempt, notTask, Files
    <2>4. CASE BeforeFilters(j)
      BY <2>4, <1>o DEF BeforeFilters, TaskAt, TaskTo, TaskEnds, notTask, Files
    <2>5. CASE RunFilters(j)
      BY <2>5, <1>o DEF RunFilters, TaskAt, TaskTo, notTask, Files
    <2>6. CASE Commit(j)
      BY <2>6, CommitEffect, <1>o DEF Files
    <2>7. CASE Promote(j)
      BY <2>7, <1>o DEF Promote, TaskAt, TaskTo, Transitions, notTask, Files
    <2>8. CASE Link(j)
      BY <2>8, <1>o DEF Link, TaskAt, TaskTo, Attempt, notTask, Files
    <2>9. CASE JournalCommitted(j)
      BY <2>9, <1>o
        DEF JournalCommitted, TaskAt, TaskTo, Transitions, notTask, Files
    <2>10. CASE Persist(j)
      BY <2>10, <1>o DEF Persist, TaskAt, TaskTo, notTask, Files
    <2>11. CASE MarkReplaced(j)
      BY <2>11, <1>o DEF MarkReplaced, TaskAt, TaskTo, notTask, Files
    <2>12. CASE Complete(j)
      BY <2>12, <1>o
        DEF Complete, TaskAt, TaskTo, CompleteIfRunning, notTask, Files
    <2>13. CASE TaskRecount(j)
      BY <2>13, <1>o DEF TaskRecount, TaskAt, notTask, Files
    <2>14. CASE TaskAggregate(j)
      BY <2>14, <1>o DEF TaskAggregate, TaskAt, Recomputed, notTask, Files
    <2>15. CASE JournalCleaned(j)
      BY <2>15, <1>o DEF JournalCleaned, TaskAt, TaskTo, notTask, Files
    <2>16. CASE Unlink(j)
      BY <2>16, <1>o DEF Unlink, TaskAt, TaskTo, notTask, Files
    <2>17. CASE Unjournal(j)
      BY <2>17, <1>o DEF Unjournal, TaskAt, TaskTo, notTask, Files
    <2>18. CASE Release(j)
      BY <2>18, <1>o, <1>s
        DEF Release, TaskAt, TaskTo, Released, CanRelease, notTask,
            StatusStays, Files
    <2>19. CASE EraseJournal(j)
      BY <2>19, <1>o DEF EraseJournal, TaskAt, TaskEnds, notTask, Files
    <2>20. CASE Settle(j)
      BY <2>20, <1>o DEF Settle, TaskAt, TaskEnds, FailIfActive, notTask, Files
    <2> QED
      BY <1>1, <2>1, <2>2, <2>3, <2>4, <2>5, <2>6, <2>7, <2>8, <2>9, <2>10,
         <2>11, <2>12, <2>13, <2>14, <2>15, <2>16, <2>17, <2>18, <2>19, <2>20
        DEF CommitStep
  <1>2. CASE AbortStep(j)
    <2>1. CASE StopCheck(j)
      BY <2>1, <1>o DEF StopCheck, TaskAt, TaskTo, TaskEnds, notTask, Files
    <2>2. CASE StopClean(j)
      BY <2>2, <1>o DEF StopClean, TaskAt, TaskTo, notTask, Files
    <2>3. CASE StopComplete(j)
      BY <2>3, <1>o
        DEF StopComplete, TaskAt, TaskTo, CompleteIfRunning, notTask, Files
    <2>4. CASE StopRelease(j)
      BY <2>4, <1>o
        DEF StopRelease, TaskAt, TaskEnds, Released, notTask, Files, Shown
    <2>5. CASE FailRead(j)
      BY <2>5, <1>o DEF FailRead, TaskAt, TaskTo, notTask, Files
    <2>6. CASE FailClaim(j)
      BY <2>6, <1>o DEF FailClaim, TaskAt, TaskTo, Transitions, notTask, Files
    <2>7. CASE FailWrite(j)
      BY <2>7, FailWriteEffect, <1>o DEF Files
    <2>8. CASE FailTask(j)
      BY <2>8, <1>o DEF FailTask, TaskAt, TaskTo, FailIfActive, notTask, Files
    <2>9. CASE Recover(j)
      BY <2>9, <1>o DEF Recover, TaskAt, TaskTo, notTask, Files
    <2>10. CASE ReportUnrecovered(j)
      BY <2>10, <1>o DEF ReportUnrecovered, TaskAt, TaskTo, notTask, Files
    <2> QED
      BY <1>2, <2>1, <2>2, <2>3, <2>4, <2>5, <2>6, <2>7, <2>8, <2>9, <2>10
        DEF AbortStep
  <1>3. CASE LostStep(j)
    <2>1. CASE LostRead(j)
      BY <2>1, <1>o
        DEF LostRead, TaskAt, TaskTo, TaskEnds, BelongsTo, notTask, Files
    <2>2. CASE Retire(j)
      <3>1. CASE Transitions(j, TRUE)
        <4>1. file'.status \in {"queued", "failed"} /\ file'.results = file.results
              /\ task[j].at \in UnrecordedAt
          BY <2>2, <3>1 DEF Retire, RetireOver, Retired, Released, TaskAt, Files, UnrecordedAt
        <4>2. /\ file.results[Setting(j)] = "none" /\ Setting(j) \in Settings
              /\ j = <<gen, Setting(j)>> /\ job[j] # "none"
          BY <4>1, JobGens, TranscodeParts DEF ResultKnown, CurrentKnown, HandedOver
        <4>3. Unattempted
          BY <4>2 DEF Unattempted
        <4> QED
          BY <4>1, <4>3, <1>u DEF Shown
      <3>2. CASE ~Transitions(j, TRUE)
        BY <2>2, <3>2, <1>o DEF Retire, RetireOver
      <3> QED
        BY <3>1, <3>2
    <2>3. CASE RequeueLost(j)
      BY <2>3, <1>o DEF RequeueLost, TaskAt, TaskEnds, notTask, Files
    <2>4. CASE RetireStopped(j)
      BY <2>4, <1>o
        DEF RetireStopped, TaskAt, TaskTo, Retired, Released, notTask, Files,
            Shown
    <2>5. CASE FailLostJob(j)
      BY <2>5, <1>o DEF FailLostJob, TaskAt, TaskEnds, notTask, Files
    <2> QED
      BY <1>3, <2>1, <2>2, <2>3, <2>4, <2>5 DEF LostStep
  <1>4. CASE Report(j)
    BY <1>4, <1>o DEF Report, TaskAt, notTask, Files
  <1>5. CASE LoseRunner(j)
    BY <1>5, <1>o DEF LoseRunner, TaskAt, TaskTo, notTask, Files
  <1> QED
    BY <1>1, <1>2, <1>3, <1>4, <1>5 DEF TaskStep

\* A file that nobody owns shows its results, unless the loop is about to
\* recount them.
LEMMA FileShown ==
  TypeOK /\ LoopKnown /\ LockKnown /\ HandedOver /\ OwnerKnown /\ ProbeKnown /\ NoReturn /\
  CancelKnown /\ JournalKnown /\ LaterJobs /\ LoopsJob /\ OldKnown /\ CurrentKnown /\
  ResultKnown /\ StatusKnown /\ [Next]_vars
    => (Shown' \/ file'.owner # NoJob \/ loop'.at \in FailAt)
  <1> SUFFICES ASSUME TypeOK, LoopKnown, LockKnown, HandedOver, OwnerKnown,
                      ProbeKnown, NoReturn, CancelKnown, JournalKnown,
                      LaterJobs, LoopsJob, OldKnown, CurrentKnown, ResultKnown,
                      StatusKnown, [Next]_vars
               PROVE  (Shown' \/ file'.owner # NoJob \/ loop'.at \in FailAt)
    OBVIOUS
  <1>a. \A j \in Transcodes : task[j].at \notin FreeAt =>
           /\ file.owner = j /\ j # NoJob /\ loop.at \notin DispatchAt
           /\ \A i \in Transcodes : i # j => task[i].at \in FreeAt
    BY Alone
  <1>b. loop.at \in DispatchAt =>
           /\ loop.job \in Transcodes /\ loop.job # NoJob
           /\ file.owner \in {NoJob, loop.job}
           /\ \A j \in Transcodes : task[j].at \in FreeAt
    BY Alone
  <1>j. \A k \in Jobs : JobMoves(k)
    BY JobsMove
  <1>s. StatusStays => (Shown => Shown')
    BY <1>j, ShownStays
  <1>p. Shown \/ file.owner # NoJob \/ loop.at \in FailAt
    BY DEF StatusKnown
  <1> USE DEF TypeOK, Files, StatusStays, FailAt, LoopIdle
  <1>1. CASE LoopStep
    <2>1. ASSUME NEW g \in Gens, TakeProbe(g) PROVE (Shown' \/ file'.owner # NoJob \/ loop'.at \in FailAt)
      BY <2>1, <1>s, <1>p DEF TakeProbe, LoopAt, notLoop
    <2>2. CASE ProbeClaim
      BY <2>2, <1>s, <1>p DEF ProbeClaim, LoopAt, LoopTo, notLoop
    <2>3. CASE ProbeQueued
      BY <2>3, ProbeQueuedEffect, <1>s, <1>p
        DEF OwnsProbe, Shown, ResultKnown, ProbingAt, EnqueueAt
    <2>4. CASE ProbeFailed
      BY <2>4, <1>s, <1>p
        DEF ProbeFailed, LoopAt, LoopTo, OwnsProbe, notLoop, Shown,
            ResultKnown, ProbingAt, EnqueueAt
    <2>5. CASE ProbeNoMatch
      BY <2>5, <1>s, <1>p
        DEF ProbeNoMatch, LoopAt, LoopTo, OwnsProbe, notLoop, Shown,
            ResultKnown, ProbingAt, EnqueueAt
    <2>6. CASE ProbeCheck
      BY <2>6, ProbeCheckEffect, <1>s, <1>p DEF OwnsProbe
    <2>7. CASE ProbeEnqueue
      BY <2>7, <1>s, <1>p DEF ProbeEnqueue, LoopAt, notLoop
    <2>8. CASE ProbePublish
      BY <2>8, <1>s, <1>p DEF ProbePublish, LoopAt, LoopTo, OwnsProbe, notLoop
    <2>9. CASE ProbeFence
      BY <2>9, <1>s, <1>p DEF ProbeFence, LoopAt, LoopTo, notLoop
    <2>10. CASE ProbeDone
      BY <2>10, <1>s, <1>p
        DEF ProbeDone, LoopAt, LoopStops, CompleteIfRunning, notLoop
    <2>11. ASSUME NEW j \in Transcodes, TakeTranscode(j) PROVE (Shown' \/ file'.owner # NoJob \/ loop'.at \in FailAt)
      BY <2>11, <1>s, <1>p DEF TakeTranscode, LoopAt, notLoop
    <2>12. CASE PrepareRead
      BY <2>12, <1>s, <1>p
        DEF PrepareRead, LoopAt, LoopTo, Unpreparable, notLoop
    <2>13. CASE RecordCollision
      BY <2>13, <1>s, <1>p DEF RecordCollision, LoopAt, LoopTo, notLoop
    <2>14. CASE ClaimFile
      BY <2>14, <1>s, <1>p, <1>b
        DEF ClaimFile, LoopAt, LoopTo, Claimed, Unpreparable, notLoop,
            DispatchAt, UnownedAt
    <2>15. CASE PatchJob
      BY <2>15, <1>s, <1>p DEF PatchJob, LoopAt, LoopTo, notLoop
    <2>16. CASE RollBackClaim
      BY <2>16, <1>s, <1>p DEF RollBackClaim, LoopAt, LoopTo, Released, notLoop
    <2>17. CASE ValidatePrepared
      BY <2>17, <1>s, <1>p
        DEF ValidatePrepared, LoopAt, LoopTo, PreparedTaskMatches, notLoop
    <2>18. CASE Assign
      BY <2>18, <1>s, <1>p DEF Assign, LoopAt, LoopStops, notLoop
    <2>19. CASE NoRunnerLeft
      BY <2>19, <1>s, <1>p DEF NoRunnerLeft, LoopAt, LoopTo, notLoop
    <2>20. CASE Reset
      <3>1. CASE loop.at = "reset-error"
        <4>1. loop'.at = "fail"
          BY <2>20, <3>1 DEF Reset, LoopAt, LoopTo
        <4> QED
          BY <4>1
      <3>2. CASE loop.at = "reset" /\ file.owner = NoJob
        <4>1. StatusStays
          BY <2>20, <3>2, <1>b DEF Reset, notLoop, DispatchAt
        <4> QED
          BY <3>2, <4>1, <1>s, <1>p
      <3>3. CASE loop.at = "reset" /\ file.owner = loop.job /\ job[loop.job] # "running"
        <4>1. file' = file
          BY <2>20, <3>3 DEF Reset
        <4> QED
          BY <3>3, <4>1, <1>b DEF DispatchAt
      <3>4. CASE loop.at = "reset" /\ file.owner = loop.job /\ job[loop.job] = "running"
        <4>1. file'.status \in {"stopped", "queued"} /\ file'.results = file.results
          BY <2>20, <3>4 DEF Reset, Released
        <4>2. loop.job \in Transcodes /\ task[loop.job].at \notin RecordedAt /\ Active(loop.job)
          BY <3>4, <1>b DEF DispatchAt, FreeAt, RecordedAt, Active
        <4>3. loop.job # ProbeJob(Gen(loop.job)) /\ Gen(loop.job) <= gen
          BY <3>4, <4>2, LoopGen, JobGens, ProbeJobs
        <4>4. Unattempted
          BY <3>4, <4>2, <4>3, ListedUnattempted
        <4>5. Unattempted'
          BY <2>20, <4>1, <4>4, <1>j, UnattemptedStays DEF Reset, notLoop
        <4> QED
          BY <4>1, <4>5 DEF Shown
      <3> QED
        BY <2>20, <3>1, <3>2, <3>3, <3>4, <1>b DEF Reset, DispatchAt
    <2>21. CASE FailJob
      BY <2>21, <1>s, <1>p DEF FailJob, LoopAt, LoopTo, FailIfActive, notLoop
    <2>22. CASE LoopRecount
      BY <2>22, <1>s, <1>p DEF LoopRecount, LoopAt, notLoop
    <2>23. CASE LoopAggregate
      <3>1. loop.at = "aggregate" /\ file.owner = NoJob
        BY <2>23 DEF LoopAggregate, LoopAt, OwnerKnown, UnownedAt
      <3>2. loop.listed => Unattempted
        BY <3>1 DEF StatusKnown
      <3>3. file' = Recomputed(file, NoJob, loop.listed) /\ gen' = gen /\ loop.listed \in BOOLEAN
        BY <2>23 DEF LoopAggregate, notLoop
      <3> QED
        BY <1>j, <3>1, <3>2, <3>3, RecountShows
    <2>24. CASE CompleteSkipped
      BY <2>24, <1>s, <1>p
        DEF CompleteSkipped, LoopAt, LoopStops, CompleteIfRunning, notLoop
    <2> QED
      BY <1>1, <2>1, <2>2, <2>3, <2>4, <2>5, <2>6, <2>7, <2>8, <2>9, <2>10,
         <2>11, <2>12, <2>13, <2>14, <2>15, <2>16, <2>17, <2>18, <2>19, <2>20,
         <2>21, <2>22, <2>23, <2>24
        DEF LoopStep
  <1>2. ASSUME NEW j \in Transcodes, TaskStep(j) \/ LoseRunner(j) PROVE (Shown' \/ file'.owner # NoJob \/ loop'.at \in FailAt)
    <2>1. CASE task[j].at \in FreeAt
      <3>1. StatusStays /\ file'.owner = file.owner /\ loop' = loop
        BY <1>2, <2>1, FreeTask, OneTask
      <3> QED
        BY <3>1, <1>s, <1>p
    <2>2. CASE task[j].at \notin FreeAt
      <3>1. gen' = gen /\ StatusOf(j) /\ j # NoJob
        BY <1>2, OneTask, NoJobApart DEF StatusKnown
      <3> QED
        BY <1>2, <1>j, <2>2, <3>1, OwnerShown
    <2> QED
      BY <2>1, <2>2
  <1>3. CASE StopWrite
    BY <1>3, <1>s, <1>p DEF StopWrite, UserIdle, notUser, Shown
  <1>4. CASE RequeuePublish
    BY <1>4, <1>s, <1>p DEF RequeuePublish, notUser, Shown
  <1>5. CASE RequeueCreate
    BY <1>5, <1>s, <1>p
      DEF RequeueCreate, UserIdle, notUser, Shown, ResultKnown
  <1>6. ASSUME NEW s \in Settings, Replace(s) PROVE (Shown' \/ file'.owner # NoJob \/ loop'.at \in FailAt)
    BY <1>6, <1>s, <1>p DEF Replace, Unsettled, notUser, Shown, Derive
  <1>7. CASE Remove
    BY <1>7, <1>s, <1>p DEF Remove, Unsettled, notUser, Shown
  <1>8. CASE StopRead \/ (\E k \in Jobs : StopFailJob(k)) \/ RequeueRead \/
             (\E k \in Jobs : RequeueFailJob(k))
    BY <1>8, <1>s, <1>p
      DEF StopRead, StopFailJob, RequeueRead, RequeueFailJob, notUser
  <1>9. CASE UNCHANGED vars
    BY <1>9, <1>s, <1>p DEF vars
  <1> QED
    BY <1>1, <1>2, <1>3, <1>4, <1>5, <1>6, <1>7, <1>8, <1>9
      DEF Next, StopStep, RequeueStep

\* The loop aggregates after it has listed.
LEMMA RecountMove == TypeOK /\ LoopKnown /\ [Next]_vars => RecountMoves
  <1> SUFFICES ASSUME TypeOK, LoopKnown, [Next]_vars PROVE RecountMoves
    OBVIOUS
  <1> USE DEF TypeOK, RecountMoves, LoopIdle
  <1>1. CASE LoopStep
    <2>1. ASSUME NEW g \in Gens, TakeProbe(g) PROVE RecountMoves
      BY <2>1 DEF TakeProbe, LoopAt, notLoop
    <2>2. CASE ProbeClaim
      BY <2>2 DEF ProbeClaim, LoopAt, LoopTo, notLoop
    <2>3. CASE ProbeQueued
      BY <2>3, ProbeQueuedEffect DEF OwnsProbe
    <2>4. CASE ProbeFailed
      BY <2>4 DEF ProbeFailed, LoopAt, LoopTo, OwnsProbe, notLoop
    <2>5. CASE ProbeNoMatch
      BY <2>5 DEF ProbeNoMatch, LoopAt, LoopTo, OwnsProbe, notLoop
    <2>6. CASE ProbeCheck
      BY <2>6, ProbeCheckEffect DEF OwnsProbe
    <2>7. CASE ProbeEnqueue
      BY <2>7 DEF ProbeEnqueue, LoopAt, notLoop
    <2>8. CASE ProbePublish
      BY <2>8 DEF ProbePublish, LoopAt, LoopTo, OwnsProbe, notLoop
    <2>9. CASE ProbeFence
      BY <2>9 DEF ProbeFence, LoopAt, LoopTo, notLoop
    <2>10. CASE ProbeDone
      BY <2>10 DEF ProbeDone, LoopAt, LoopStops, CompleteIfRunning, notLoop
    <2>11. ASSUME NEW j \in Transcodes, TakeTranscode(j) PROVE RecountMoves
      BY <2>11 DEF TakeTranscode, LoopAt, notLoop
    <2>12. CASE PrepareRead
      BY <2>12 DEF PrepareRead, LoopAt, LoopTo, Unpreparable, notLoop
    <2>13. CASE RecordCollision
      BY <2>13 DEF RecordCollision, LoopAt, LoopTo, notLoop
    <2>14. CASE ClaimFile
      BY <2>14 DEF ClaimFile, LoopAt, LoopTo, Claimed, Unpreparable, notLoop
    <2>15. CASE PatchJob
      BY <2>15 DEF PatchJob, LoopAt, LoopTo, notLoop
    <2>16. CASE RollBackClaim
      BY <2>16 DEF RollBackClaim, LoopAt, LoopTo, Released, notLoop
    <2>17. CASE ValidatePrepared
      BY <2>17
        DEF ValidatePrepared, LoopAt, LoopTo, PreparedTaskMatches, notLoop
    <2>18. CASE Assign
      BY <2>18 DEF Assign, LoopAt, LoopStops, notLoop
    <2>19. CASE NoRunnerLeft
      BY <2>19 DEF NoRunnerLeft, LoopAt, LoopTo, notLoop
    <2>20. CASE Reset
      BY <2>20 DEF Reset, LoopAt, LoopTo, LoopStops, Released, notLoop
    <2>21. CASE FailJob
      BY <2>21 DEF FailJob, LoopAt, LoopTo, FailIfActive, notLoop
    <2>22. CASE LoopRecount
      BY <2>22 DEF LoopRecount, LoopAt, notLoop
    <2>23. CASE LoopAggregate
      BY <2>23 DEF LoopAggregate, LoopAt, LoopStops, Recomputed, notLoop
    <2>24. CASE CompleteSkipped
      BY <2>24
        DEF CompleteSkipped, LoopAt, LoopStops, CompleteIfRunning, notLoop
    <2> QED
      BY <1>1, <2>1, <2>2, <2>3, <2>4, <2>5, <2>6, <2>7, <2>8, <2>9, <2>10,
         <2>11, <2>12, <2>13, <2>14, <2>15, <2>16, <2>17, <2>18, <2>19, <2>20,
         <2>21, <2>22, <2>23, <2>24
        DEF LoopStep
  <1>2. ASSUME NEW j \in Transcodes, CommitStep(j) PROVE RecountMoves
    BY <1>2
      DEF CommitStep, FinalizeRead, Begin, ValidateOutput, BeforeFilters,
          RunFilters, Commit, Promote, Link, JournalCommitted, Persist,
          MarkReplaced, Complete, TaskRecount, TaskAggregate, JournalCleaned,
          Unlink, Unjournal, Release, EraseJournal, Settle, Attempt, notTask
  <1>3. ASSUME NEW j \in Transcodes, AbortStep(j) PROVE RecountMoves
    BY <1>3
      DEF AbortStep, StopCheck, StopClean, StopComplete, StopRelease, FailRead,
          FailClaim, FailWrite, FailTask, Recover, ReportUnrecovered, notTask
  <1>4. ASSUME NEW j \in Transcodes, LostStep(j) PROVE RecountMoves
    BY <1>4
      DEF LostStep, LostRead, Retire, RequeueLost, RetireStopped, FailLostJob,
          RetireOver, notTask
  <1>5. CASE (\E j \in Transcodes : Report(j)) \/
             (\E j \in Transcodes : LoseRunner(j))
    BY <1>5 DEF Report, LoseRunner, notTask
  <1>6. CASE StopRead \/ StopWrite \/ (\E k \in Jobs : StopFailJob(k)) \/
             RequeueRead \/ (\E k \in Jobs : RequeueFailJob(k)) \/ RequeuePublish \/
             RequeueCreate \/ (\E s \in Settings : Replace(s)) \/ Remove
    BY <1>6
      DEF StopRead, StopWrite, StopFailJob, RequeueRead, RequeueFailJob,
          RequeuePublish, RequeueCreate, Replace, Remove, notUser
  <1>7. CASE UNCHANGED vars
    BY <1>7 DEF vars
  <1> QED
    BY <1>1, <1>2, <1>3, <1>4, <1>5, <1>6, <1>7
      DEF Next, TaskStep, StopStep, RequeueStep

\* While the loop recounts, nobody writes a result.
LEMMA RecountHeld ==
  /\ TypeOK /\ LoopKnown /\ LockKnown /\ HandedOver /\ OwnerKnown /\ [Next]_vars
  /\ loop.at = "aggregate" /\ loop' = loop
  => gen' = gen /\ file'.results = file.results
  <1> SUFFICES ASSUME TypeOK, LoopKnown, LockKnown, HandedOver, OwnerKnown, [Next]_vars,
                      loop.at = "aggregate", loop' = loop
               PROVE  gen' = gen /\ file'.results = file.results
    OBVIOUS
  <1>1. lock = "loop" /\ requeue.at \notin {"fail", "create"}
    BY DEF LockKnown
  <1>2. gen' = gen
    BY <1>1, GenMove
  <1>3. ASSUME NEW j \in Transcodes, TaskStep(j) \/ LoseRunner(j)
        PROVE  file'.results = file.results
    <2>1. task[j].at \in FreeAt
      BY Alone DEF DispatchAt, UnownedAt
    <2> QED
      BY <1>3, <2>1, FreeTask DEF TypeOK, Files
  <1>4. ~LoopStep
    BY DEF LoopStep, LoopAt, LoopStops, LoopIdle, TakeProbe, ProbeClaim, ProbeQueued, ProbeFailed,
        ProbeNoMatch, ProbeCheck, ProbeEnqueue, ProbePublish, ProbeFence, ProbeDone, TakeTranscode,
        PrepareRead, RecordCollision, ClaimFile, PatchJob, RollBackClaim, ValidatePrepared, Assign,
        NoRunnerLeft, Reset, FailJob, LoopRecount, LoopAggregate, CompleteSkipped
  <1>5. CASE StopStep
    BY <1>2, <1>5 DEF StopStep, StopRead, StopWrite, StopFailJob, TypeOK, Files
  <1>6. CASE RequeueStep \/ (\E s \in Settings : Replace(s)) \/ Remove \/ UNCHANGED vars
    <2>1. file' = file
      BY <1>1, <1>6 DEF RequeueStep, RequeueRead, RequeueFailJob, RequeuePublish, RequeueCreate,
          Replace, Remove, vars
    <2> QED
      BY <1>2, <2>1
  <1> QED
    BY <1>2, <1>3, <1>4, <1>5, <1>6 DEF Next

\* What the loop lists for its recount is a setting to be attempted.
LEMMA RecountLists ==
  /\ TypeOK /\ LoopKnown /\ HandedOver /\ OwnerKnown /\ LaterJobs /\ OldKnown /\ ResultKnown
  /\ LoopRecount /\ OthersActive(NoJob)
  => Unattempted
  <1> SUFFICES ASSUME TypeOK, LoopKnown, HandedOver, OwnerKnown, LaterJobs, OldKnown, ResultKnown,
                      LoopRecount, NEW i \in Transcodes, Active(i)
               PROVE  Unattempted
    BY DEF OthersActive, ActiveTranscodes
  <1>1. loop.at = "recount"
    BY DEF LoopRecount, LoopAt
  <1>2. task[i].at \notin RecordedAt
    BY <1>1, Alone DEF DispatchAt, UnownedAt, RecordedAt, FreeAt
  <1>3. ~(Gen(i) > gen) /\ Gen(i) \in Gens
    BY JobGens DEF LaterJobs, Active
  <1>4. Gen(i) <= gen
    BY <1>3, LifecycleAssumption DEF Gens, TypeOK
  <1> QED
    BY <1>1, <1>2, <1>4, ListedUnattempted DEF EnqueueAt

\* The status of a file shows its results wherever nobody is about to write it.
LEMMA StatusKept ==
  /\ TypeOK /\ LoopKnown /\ LockKnown /\ HandedOver /\ OwnerKnown /\ ProbeKnown /\ NoReturn
  /\ CancelKnown /\ JournalKnown /\ LaterJobs /\ LoopsJob /\ OldKnown /\ CurrentKnown
  /\ ResultKnown /\ StatusKnown /\ [Next]_vars
  => StatusKnown'
  <1> SUFFICES ASSUME TypeOK, LoopKnown, LockKnown, HandedOver, OwnerKnown, ProbeKnown, NoReturn,
                      CancelKnown, JournalKnown, LaterJobs, LoopsJob, OldKnown, CurrentKnown,
                      ResultKnown, StatusKnown, [Next]_vars
               PROVE  StatusKnown'
    OBVIOUS
  <1>1. \A k \in Jobs : JobMoves(k)
    BY JobsMove
  <1>2. ASSUME loop'.at = "aggregate", loop'.listed PROVE Unattempted'
    <2>1. CASE loop' = loop
      <3>1. Unattempted /\ gen' = gen /\ file'.results = file.results
        BY <1>2, <2>1, RecountHeld DEF StatusKnown
      <3> QED
        BY <1>1, <3>1, UnattemptedStays
    <2>2. CASE LoopRecount
      <3>1. loop'.listed = OthersActive(NoJob) /\ gen' = gen /\ file' = file
        BY <2>2 DEF LoopRecount, TypeOK, notLoop
      <3>2. Unattempted
        BY <1>2, <2>2, <3>1, RecountLists
      <3> QED
        BY <1>1, <3>1, <3>2, UnattemptedStays
    <2> QED
      BY <1>2, <2>1, <2>2, RecountMove DEF RecountMoves
  <1>3. \A j \in Transcodes : StatusOf(j)'
    BY StatusOfKept
  <1>4. Shown' \/ file'.owner # NoJob \/ loop'.at \in FailAt
    BY FileShown
  <1> QED
    BY <1>2, <1>3, <1>4 DEF StatusKnown

-----------------------------------------------------------------------------
(***************************************************************************)
(* What is running is in somebody's hands.                                 *)
(***************************************************************************)
\* The loop leaves a job that has ended, is handed out, or is dropped.
LEMMA LoopEnd == TypeOK /\ LoopKnown /\ OwnerKnown /\ [Next]_vars => LoopEnds
  <1> SUFFICES ASSUME TypeOK, LoopKnown, OwnerKnown, [Next]_vars PROVE LoopEnds
    OBVIOUS
  <1> USE DEF TypeOK, LoopEnds, LoopIdle
  <1>1. CASE LoopStep
    <2>1. ASSUME NEW g \in Gens, TakeProbe(g) PROVE LoopEnds
      BY <2>1 DEF TakeProbe, LoopAt, notLoop
    <2>2. CASE ProbeClaim
      BY <2>2 DEF ProbeClaim, LoopAt, LoopTo, notLoop
    <2>3. CASE ProbeQueued
      BY <2>3, ProbeQueuedEffect DEF OwnsProbe
    <2>4. CASE ProbeFailed
      BY <2>4 DEF ProbeFailed, LoopAt, LoopTo, OwnsProbe, notLoop
    <2>5. CASE ProbeNoMatch
      BY <2>5 DEF ProbeNoMatch, LoopAt, LoopTo, OwnsProbe, notLoop
    <2>6. CASE ProbeCheck
      BY <2>6, ProbeCheckEffect DEF OwnsProbe
    <2>7. CASE ProbeEnqueue
      BY <2>7 DEF ProbeEnqueue, LoopAt, notLoop
    <2>8. CASE ProbePublish
      BY <2>8 DEF ProbePublish, LoopAt, LoopTo, OwnsProbe, notLoop
    <2>9. CASE ProbeFence
      BY <2>9 DEF ProbeFence, LoopAt, LoopTo, notLoop
    <2>10. CASE ProbeDone
      BY <2>10, ProbeJobs
        DEF ProbeDone, LoopAt, LoopStops, CompleteIfRunning, notLoop,
            LoopKnown, ProbeAt
    <2>11. ASSUME NEW j \in Transcodes, TakeTranscode(j) PROVE LoopEnds
      BY <2>11 DEF TakeTranscode, LoopAt, notLoop
    <2>12. CASE PrepareRead
      BY <2>12 DEF PrepareRead, LoopAt, LoopTo, Unpreparable, notLoop
    <2>13. CASE RecordCollision
      BY <2>13 DEF RecordCollision, LoopAt, LoopTo, notLoop
    <2>14. CASE ClaimFile
      BY <2>14 DEF ClaimFile, LoopAt, LoopTo, Claimed, Unpreparable, notLoop
    <2>15. CASE PatchJob
      BY <2>15 DEF PatchJob, LoopAt, LoopTo, notLoop
    <2>16. CASE RollBackClaim
      BY <2>16 DEF RollBackClaim, LoopAt, LoopTo, Released, notLoop
    <2>17. CASE ValidatePrepared
      BY <2>17
        DEF ValidatePrepared, LoopAt, LoopTo, PreparedTaskMatches, notLoop
    <2>18. CASE Assign
      BY <2>18, JobGens
        DEF Assign, LoopAt, LoopStops, notLoop, LoopKnown, DispatchAt,
            UnownedAt, ClaimedAt, Active, OwnerKnown
    <2>19. CASE NoRunnerLeft
      BY <2>19 DEF NoRunnerLeft, LoopAt, LoopTo, notLoop
    <2>20. CASE Reset
      <3>1. CASE loop.at = "reset-error"
        BY <2>20, <3>1 DEF Reset, LoopAt, LoopTo
      <3>2. CASE loop.at = "reset" /\ job[loop.job] # "running"
        BY <2>20, <3>2, JobGens DEF Reset, LoopAt, LoopStops, LoopKnown, DispatchAt
      <3>3. CASE loop.at = "reset" /\ job[loop.job] = "running"
        <4>1. loop.job \in Jobs /\ file.owner \in {NoJob, loop.job} /\ loop' = LoopIdle
          BY <2>20, <3>3, JobGens DEF Reset, LoopAt, LoopStops, LoopKnown, DispatchAt, OwnerKnown
        <4>2. CASE file.status = "missing" \/ Stopped(file) \/ file.owner = loop.job
          <5>1. job'[loop.job] \in {"failed", "pending"}
            BY <2>20, <3>3, <4>1, <4>2 DEF Reset
          <5> QED
            BY <4>1, <5>1
        <4>3. CASE ~(file.status = "missing" \/ Stopped(file) \/ file.owner = loop.job)
          BY <3>3, <4>1, <4>3 DEF Stopped
        <4> QED
          BY <4>2, <4>3
      <3> QED
        BY <2>20, <3>1, <3>2, <3>3 DEF Reset
    <2>21. CASE FailJob
      BY <2>21, JobGens
        DEF FailJob, LoopAt, LoopTo, FailIfActive, notLoop, LoopKnown,
            DispatchAt, UnownedAt, ClaimedAt, Active, OwnerKnown
    <2>22. CASE LoopRecount
      BY <2>22 DEF LoopRecount, LoopAt, notLoop
    <2>23. CASE LoopAggregate
      BY <2>23 DEF LoopAggregate, LoopAt, LoopStops, Recomputed, notLoop
    <2>24. CASE CompleteSkipped
      BY <2>24, JobGens
        DEF CompleteSkipped, LoopAt, LoopStops, CompleteIfRunning, notLoop,
            LoopKnown, DispatchAt, UnownedAt, ClaimedAt, Active, OwnerKnown
    <2> QED
      BY <1>1, <2>1, <2>2, <2>3, <2>4, <2>5, <2>6, <2>7, <2>8, <2>9, <2>10,
         <2>11, <2>12, <2>13, <2>14, <2>15, <2>16, <2>17, <2>18, <2>19, <2>20,
         <2>21, <2>22, <2>23, <2>24
        DEF LoopStep
  <1>2. ASSUME NEW j \in Transcodes, CommitStep(j) PROVE LoopEnds
    BY <1>2
      DEF CommitStep, FinalizeRead, Begin, ValidateOutput, BeforeFilters,
          RunFilters, Commit, Promote, Link, JournalCommitted, Persist,
          MarkReplaced, Complete, TaskRecount, TaskAggregate, JournalCleaned,
          Unlink, Unjournal, Release, EraseJournal, Settle, Attempt, notTask
  <1>3. ASSUME NEW j \in Transcodes, AbortStep(j) PROVE LoopEnds
    BY <1>3
      DEF AbortStep, StopCheck, StopClean, StopComplete, StopRelease, FailRead,
          FailClaim, FailWrite, FailTask, Recover, ReportUnrecovered, notTask
  <1>4. ASSUME NEW j \in Transcodes, LostStep(j) PROVE LoopEnds
    BY <1>4
      DEF LostStep, LostRead, Retire, RequeueLost, RetireStopped, FailLostJob,
          RetireOver, notTask
  <1>5. CASE (\E j \in Transcodes : Report(j)) \/
             (\E j \in Transcodes : LoseRunner(j))
    BY <1>5 DEF Report, LoseRunner, notTask
  <1>6. CASE StopRead \/ StopWrite \/ (\E k \in Jobs : StopFailJob(k)) \/
             RequeueRead \/ (\E k \in Jobs : RequeueFailJob(k)) \/ RequeuePublish \/
             RequeueCreate \/ (\E s \in Settings : Replace(s)) \/ Remove
    BY <1>6
      DEF StopRead, StopWrite, StopFailJob, RequeueRead, RequeueFailJob,
          RequeuePublish, RequeueCreate, Replace, Remove, notUser
  <1>7. CASE UNCHANGED vars
    BY <1>7 DEF vars
  <1> QED
    BY <1>1, <1>2, <1>3, <1>4, <1>5, <1>6, <1>7
      DEF Next, TaskStep, StopStep, RequeueStep

\* Only the user replaces a file that is about to be claimed.
LEMMA ClaimMove ==
  TypeOK /\ LoopKnown /\ HandedOver /\ OwnerKnown /\ [Next]_vars => ClaimMoves
  <1> SUFFICES ASSUME TypeOK, LoopKnown, HandedOver, OwnerKnown, [Next]_vars
               PROVE  ClaimMoves
    OBVIOUS
  <1>a. \A j \in Transcodes : task[j].at \notin FreeAt =>
           /\ file.owner = j /\ j # NoJob /\ loop.at \notin DispatchAt
           /\ \A i \in Transcodes : i # j => task[i].at \in FreeAt
    BY Alone
  <1>b. loop.at \in DispatchAt =>
           /\ loop.job \in Transcodes /\ loop.job # NoJob
           /\ file.owner \in {NoJob, loop.job}
           /\ \A j \in Transcodes : task[j].at \in FreeAt
    BY Alone
  <1> USE DEF TypeOK, ClaimMoves, LoopIdle, Files
  <1>1. CASE LoopStep
    <2>1. ASSUME NEW g \in Gens, TakeProbe(g) PROVE ClaimMoves
      BY <2>1, <1>b DEF TakeProbe, LoopAt, notLoop
    <2>2. CASE ProbeClaim
      BY <2>2, <1>b DEF ProbeClaim, LoopAt, LoopTo, notLoop
    <2>3. CASE ProbeQueued
      BY <2>3, ProbeQueuedEffect, <1>b DEF OwnsProbe
    <2>4. CASE ProbeFailed
      BY <2>4, <1>b DEF ProbeFailed, LoopAt, LoopTo, OwnsProbe, notLoop
    <2>5. CASE ProbeNoMatch
      BY <2>5, <1>b DEF ProbeNoMatch, LoopAt, LoopTo, OwnsProbe, notLoop
    <2>6. CASE ProbeCheck
      BY <2>6, ProbeCheckEffect, <1>b DEF OwnsProbe
    <2>7. CASE ProbeEnqueue
      BY <2>7, <1>b DEF ProbeEnqueue, LoopAt, notLoop
    <2>8. CASE ProbePublish
      BY <2>8, <1>b DEF ProbePublish, LoopAt, LoopTo, OwnsProbe, notLoop
    <2>9. CASE ProbeFence
      BY <2>9, <1>b DEF ProbeFence, LoopAt, LoopTo, notLoop
    <2>10. CASE ProbeDone
      BY <2>10, <1>b
        DEF ProbeDone, LoopAt, LoopStops, CompleteIfRunning, notLoop
    <2>11. ASSUME NEW j \in Transcodes, TakeTranscode(j) PROVE ClaimMoves
      BY <2>11, <1>b
        DEF TakeTranscode, LoopAt, notLoop, DispatchAt, UnownedAt, FreeAt
    <2>12. CASE PrepareRead
      BY <2>12, <1>b DEF PrepareRead, LoopAt, LoopTo, Unpreparable, notLoop
    <2>13. CASE RecordCollision
      BY <2>13, <1>b DEF RecordCollision, LoopAt, LoopTo, notLoop
    <2>14. CASE ClaimFile
      BY <2>14, <1>b
        DEF ClaimFile, LoopAt, LoopTo, Claimed, Unpreparable, notLoop
    <2>15. CASE PatchJob
      BY <2>15, <1>b DEF PatchJob, LoopAt, LoopTo, notLoop
    <2>16. CASE RollBackClaim
      BY <2>16, <1>b DEF RollBackClaim, LoopAt, LoopTo, Released, notLoop
    <2>17. CASE ValidatePrepared
      BY <2>17, <1>b
        DEF ValidatePrepared, LoopAt, LoopTo, PreparedTaskMatches, notLoop
    <2>18. CASE Assign
      BY <2>18, <1>b DEF Assign, LoopAt, LoopStops, notLoop
    <2>19. CASE NoRunnerLeft
      BY <2>19, <1>b DEF NoRunnerLeft, LoopAt, LoopTo, notLoop
    <2>20. CASE Reset
      BY <2>20, <1>b DEF Reset, LoopAt, LoopTo, LoopStops, Released, notLoop
    <2>21. CASE FailJob
      BY <2>21, <1>b DEF FailJob, LoopAt, LoopTo, FailIfActive, notLoop
    <2>22. CASE LoopRecount
      BY <2>22, <1>b DEF LoopRecount, LoopAt, notLoop
    <2>23. CASE LoopAggregate
      BY <2>23, <1>b DEF LoopAggregate, LoopAt, LoopStops, Recomputed, notLoop
    <2>24. CASE CompleteSkipped
      BY <2>24, <1>b
        DEF CompleteSkipped, LoopAt, LoopStops, CompleteIfRunning, notLoop
    <2> QED
      BY <1>1, <2>1, <2>2, <2>3, <2>4, <2>5, <2>6, <2>7, <2>8, <2>9, <2>10,
         <2>11, <2>12, <2>13, <2>14, <2>15, <2>16, <2>17, <2>18, <2>19, <2>20,
         <2>21, <2>22, <2>23, <2>24
        DEF LoopStep
  <1>2. ASSUME NEW j \in Transcodes, CommitStep(j) PROVE ClaimMoves
    <2>1. CASE Begin(j)
      BY <2>1, <1>a, <1>b
        DEF Begin, TaskAt, TaskTo, Transitions, notTask, DispatchAt, UnownedAt,
            FreeAt
    <2>2. CASE Commit(j)
      BY <2>2, CommitEffect, <1>a, <1>b DEF DispatchAt, UnownedAt, FreeAt
    <2>3. CASE Promote(j)
      BY <2>3, <1>a, <1>b
        DEF Promote, TaskAt, TaskTo, Transitions, notTask, DispatchAt,
            UnownedAt, FreeAt
    <2>4. CASE JournalCommitted(j)
      BY <2>4, <1>a, <1>b
        DEF JournalCommitted, TaskAt, TaskTo, Transitions, notTask, DispatchAt,
            UnownedAt, FreeAt
    <2>5. CASE Persist(j)
      BY <2>5, <1>a, <1>b
        DEF Persist, TaskAt, TaskTo, notTask, DispatchAt, UnownedAt, FreeAt
    <2>6. CASE MarkReplaced(j)
      BY <2>6, <1>a, <1>b
        DEF MarkReplaced, TaskAt, TaskTo, notTask, DispatchAt, UnownedAt,
            FreeAt
    <2>7. CASE TaskAggregate(j)
      BY <2>7, <1>a, <1>b
        DEF TaskAggregate, TaskAt, Recomputed, notTask, DispatchAt, UnownedAt,
            FreeAt
    <2>8. CASE JournalCleaned(j)
      BY <2>8, <1>a, <1>b
        DEF JournalCleaned, TaskAt, TaskTo, notTask, DispatchAt, UnownedAt,
            FreeAt
    <2>9. CASE Unjournal(j)
      BY <2>9, <1>a, <1>b
        DEF Unjournal, TaskAt, TaskTo, notTask, DispatchAt, UnownedAt, FreeAt
    <2>10. CASE Release(j)
      BY <2>10, <1>a, <1>b
        DEF Release, TaskAt, TaskTo, Released, CanRelease, notTask, DispatchAt,
            UnownedAt, FreeAt
    <2>11. CASE EraseJournal(j)
      BY <2>11, <1>a, <1>b
        DEF EraseJournal, TaskAt, TaskEnds, notTask, DispatchAt, UnownedAt,
            FreeAt
    <2>12. CASE FinalizeRead(j) \/ ValidateOutput(j) \/ BeforeFilters(j) \/
                RunFilters(j) \/ Link(j) \/ Complete(j) \/ TaskRecount(j) \/ Unlink(j) \/
                Settle(j)
      BY <2>12
        DEF FinalizeRead, ValidateOutput, Attempt, BeforeFilters, RunFilters,
            Link, Complete, TaskRecount, Unlink, Settle, notTask
    <2> QED
      BY <1>2, <2>1, <2>2, <2>3, <2>4, <2>5, <2>6, <2>7, <2>8, <2>9, <2>10,
         <2>11, <2>12
        DEF CommitStep
  <1>3. ASSUME NEW j \in Transcodes, AbortStep(j) PROVE ClaimMoves
    <2>1. CASE StopClean(j)
      BY <2>1, <1>a, <1>b
        DEF StopClean, TaskAt, TaskTo, notTask, DispatchAt, UnownedAt, FreeAt
    <2>2. CASE StopRelease(j)
      BY <2>2, <1>a, <1>b
        DEF StopRelease, TaskAt, TaskEnds, Released, notTask, DispatchAt,
            UnownedAt, FreeAt
    <2>3. CASE FailClaim(j)
      BY <2>3, <1>a, <1>b
        DEF FailClaim, TaskAt, TaskTo, Transitions, notTask, DispatchAt,
            UnownedAt, FreeAt
    <2>4. CASE FailWrite(j)
      BY <2>4, FailWriteEffect, <1>a, <1>b DEF DispatchAt, UnownedAt, FreeAt
    <2>5. CASE ReportUnrecovered(j)
      BY <2>5, <1>a, <1>b
        DEF ReportUnrecovered, TaskAt, TaskTo, notTask, DispatchAt, UnownedAt,
            FreeAt
    <2>6. CASE StopCheck(j) \/ StopComplete(j) \/ FailRead(j) \/ FailTask(j) \/
               Recover(j)
      BY <2>6 DEF StopCheck, StopComplete, FailRead, FailTask, Recover, notTask
    <2> QED
      BY <1>3, <2>1, <2>2, <2>3, <2>4, <2>5, <2>6 DEF AbortStep
  <1>4. ASSUME NEW j \in Transcodes, LostStep(j) PROVE ClaimMoves
    <2>1. CASE Retire(j)
      BY <2>1, <1>a, <1>b
        DEF Retire, TaskAt, TaskTo, RetireOver, Transitions, Retired, Released,
            notTask, DispatchAt, UnownedAt, FreeAt
    <2>2. CASE RetireStopped(j)
      BY <2>2, <1>a, <1>b
        DEF RetireStopped, TaskAt, TaskTo, Retired, Released, notTask,
            DispatchAt, UnownedAt, FreeAt
    <2>3. CASE LostRead(j) \/ RequeueLost(j) \/ FailLostJob(j)
      BY <2>3 DEF LostRead, RequeueLost, FailLostJob, notTask
    <2> QED
      BY <1>4, <2>1, <2>2, <2>3 DEF LostStep
  <1>5. CASE (\E j \in Transcodes : Report(j)) \/
             (\E j \in Transcodes : LoseRunner(j))
    BY <1>5 DEF Report, LoseRunner, notTask
  <1>6. CASE StopWrite
    BY <1>6 DEF StopWrite, UserIdle, notUser
  <1>7. CASE RequeuePublish
    BY <1>7 DEF RequeuePublish, notUser
  <1>8. CASE RequeueCreate
    BY <1>8 DEF RequeueCreate, UserIdle, notUser
  <1>9. ASSUME NEW s \in Settings, Replace(s) PROVE ClaimMoves
    BY <1>9, <1>b DEF Replace, MetHalfWay, LoopKnown, DispatchAt, UnownedAt
  <1>10. CASE Remove
    BY <1>10 DEF Remove, Unsettled, notUser
  <1>11. CASE StopRead \/ (\E k \in Jobs : StopFailJob(k)) \/ RequeueRead \/
              (\E k \in Jobs : RequeueFailJob(k))
    BY <1>11 DEF StopRead, StopFailJob, RequeueRead, RequeueFailJob, notUser
  <1>12. CASE UNCHANGED vars
    BY <1>12 DEF vars
  <1> QED
    BY <1>1, <1>2, <1>3, <1>4, <1>5, <1>6, <1>7, <1>8, <1>9, <1>10, <1>11,
       <1>12
      DEF Next, TaskStep, StopStep, RequeueStep

\* A reset finds the file that its claim or its run left, or the user replaced.
LEMMA ResetMove ==
  TypeOK /\ LoopKnown /\ HandedOver /\ OwnerKnown /\ ProbeKnown /\ [Next]_vars => ResetMoves
  <1> SUFFICES ASSUME TypeOK, LoopKnown, HandedOver, OwnerKnown, ProbeKnown,
                      [Next]_vars
               PROVE  ResetMoves
    OBVIOUS
  <1>a. \A j \in Transcodes : task[j].at \notin FreeAt =>
           /\ file.owner = j /\ j # NoJob /\ loop.at \notin DispatchAt
           /\ \A i \in Transcodes : i # j => task[i].at \in FreeAt
    BY Alone
  <1>b. loop.at \in DispatchAt =>
           /\ loop.job \in Transcodes /\ loop.job # NoJob
           /\ file.owner \in {NoJob, loop.job}
           /\ \A j \in Transcodes : task[j].at \in FreeAt
    BY Alone
  <1> USE DEF TypeOK, ResetMoves, LoopIdle, Files
  <1>1. CASE LoopStep
    <2>1. ASSUME NEW g \in Gens, TakeProbe(g) PROVE ResetMoves
      BY <2>1, <1>b DEF TakeProbe, LoopAt, notLoop
    <2>2. CASE ProbeClaim
      BY <2>2, <1>b DEF ProbeClaim, LoopAt, LoopTo, notLoop
    <2>3. CASE ProbeQueued
      BY <2>3, ProbeQueuedEffect, <1>b DEF OwnsProbe
    <2>4. CASE ProbeFailed
      BY <2>4, <1>b DEF ProbeFailed, LoopAt, LoopTo, OwnsProbe, notLoop
    <2>5. CASE ProbeNoMatch
      BY <2>5, <1>b DEF ProbeNoMatch, LoopAt, LoopTo, OwnsProbe, notLoop
    <2>6. CASE ProbeCheck
      BY <2>6, ProbeCheckEffect, <1>b DEF OwnsProbe
    <2>7. CASE ProbeEnqueue
      BY <2>7, <1>b DEF ProbeEnqueue, LoopAt, notLoop
    <2>8. CASE ProbePublish
      BY <2>8, <1>b DEF ProbePublish, LoopAt, LoopTo, OwnsProbe, notLoop
    <2>9. CASE ProbeFence
      BY <2>9, <1>b DEF ProbeFence, LoopAt, LoopTo, notLoop
    <2>10. CASE ProbeDone
      BY <2>10, <1>b
        DEF ProbeDone, LoopAt, LoopStops, CompleteIfRunning, notLoop
    <2>11. ASSUME NEW j \in Transcodes, TakeTranscode(j) PROVE ResetMoves
      BY <2>11, <1>b DEF TakeTranscode, LoopAt, notLoop, DispatchAt, FreeAt
    <2>12. CASE PrepareRead
      BY <2>12, <1>b DEF PrepareRead, LoopAt, LoopTo, Unpreparable, notLoop
    <2>13. CASE RecordCollision
      BY <2>13, <1>b DEF RecordCollision, LoopAt, LoopTo, notLoop
    <2>14. CASE ClaimFile
      BY <2>14, <1>b
        DEF ClaimFile, LoopAt, LoopTo, Claimed, Unpreparable, notLoop,
            OwnerKnown, UnownedAt, DispatchAt
    <2>15. CASE PatchJob
      BY <2>15, <1>b DEF PatchJob, LoopAt, LoopTo, notLoop
    <2>16. CASE RollBackClaim
      BY <2>16, <1>b DEF RollBackClaim, LoopAt, LoopTo, Released, notLoop
    <2>17. CASE ValidatePrepared
      BY <2>17, <1>b
        DEF ValidatePrepared, LoopAt, LoopTo, PreparedTaskMatches, notLoop,
            OwnerKnown, ClaimedAt, DispatchAt
    <2>18. CASE Assign
      BY <2>18, <1>b DEF Assign, LoopAt, LoopStops, notLoop
    <2>19. CASE NoRunnerLeft
      BY <2>19, <1>b
        DEF NoRunnerLeft, LoopAt, LoopTo, notLoop, OwnerKnown, ClaimedAt,
            DispatchAt
    <2>20. CASE Reset
      BY <2>20, <1>b
        DEF Reset, LoopAt, LoopTo, LoopStops, Released, notLoop, OwnerKnown,
            ClaimedAt, DispatchAt
    <2>21. CASE FailJob
      BY <2>21, <1>b DEF FailJob, LoopAt, LoopTo, FailIfActive, notLoop
    <2>22. CASE LoopRecount
      BY <2>22, <1>b DEF LoopRecount, LoopAt, notLoop
    <2>23. CASE LoopAggregate
      BY <2>23, <1>b DEF LoopAggregate, LoopAt, LoopStops, Recomputed, notLoop
    <2>24. CASE CompleteSkipped
      BY <2>24, <1>b
        DEF CompleteSkipped, LoopAt, LoopStops, CompleteIfRunning, notLoop
    <2> QED
      BY <1>1, <2>1, <2>2, <2>3, <2>4, <2>5, <2>6, <2>7, <2>8, <2>9, <2>10,
         <2>11, <2>12, <2>13, <2>14, <2>15, <2>16, <2>17, <2>18, <2>19, <2>20,
         <2>21, <2>22, <2>23, <2>24
        DEF LoopStep
  <1>2. ASSUME NEW j \in Transcodes, CommitStep(j) PROVE ResetMoves
    <2>1. CASE Begin(j)
      BY <2>1, <1>a, <1>b
        DEF Begin, TaskAt, TaskTo, Transitions, notTask, DispatchAt, FreeAt
    <2>2. CASE Commit(j)
      BY <2>2, CommitEffect, <1>a, <1>b DEF DispatchAt, FreeAt
    <2>3. CASE Promote(j)
      BY <2>3, <1>a, <1>b
        DEF Promote, TaskAt, TaskTo, Transitions, notTask, DispatchAt, FreeAt
    <2>4. CASE JournalCommitted(j)
      BY <2>4, <1>a, <1>b
        DEF JournalCommitted, TaskAt, TaskTo, Transitions, notTask, DispatchAt,
            FreeAt
    <2>5. CASE Persist(j)
      BY <2>5, <1>a, <1>b
        DEF Persist, TaskAt, TaskTo, notTask, DispatchAt, FreeAt
    <2>6. CASE MarkReplaced(j)
      BY <2>6, <1>a, <1>b
        DEF MarkReplaced, TaskAt, TaskTo, notTask, DispatchAt, FreeAt
    <2>7. CASE TaskAggregate(j)
      BY <2>7, <1>a, <1>b
        DEF TaskAggregate, TaskAt, Recomputed, notTask, DispatchAt, FreeAt
    <2>8. CASE JournalCleaned(j)
      BY <2>8, <1>a, <1>b
        DEF JournalCleaned, TaskAt, TaskTo, notTask, DispatchAt, FreeAt
    <2>9. CASE Unjournal(j)
      BY <2>9, <1>a, <1>b
        DEF Unjournal, TaskAt, TaskTo, notTask, DispatchAt, FreeAt
    <2>10. CASE Release(j)
      BY <2>10, <1>a, <1>b
        DEF Release, TaskAt, TaskTo, Released, CanRelease, notTask, DispatchAt,
            FreeAt
    <2>11. CASE EraseJournal(j)
      BY <2>11, <1>a, <1>b
        DEF EraseJournal, TaskAt, TaskEnds, notTask, DispatchAt, FreeAt
    <2>12. CASE FinalizeRead(j) \/ ValidateOutput(j) \/ BeforeFilters(j) \/
                RunFilters(j) \/ Link(j) \/ Complete(j) \/ TaskRecount(j) \/ Unlink(j) \/
                Settle(j)
      BY <2>12
        DEF FinalizeRead, ValidateOutput, Attempt, BeforeFilters, RunFilters,
            Link, Complete, TaskRecount, Unlink, Settle, notTask
    <2> QED
      BY <1>2, <2>1, <2>2, <2>3, <2>4, <2>5, <2>6, <2>7, <2>8, <2>9, <2>10,
         <2>11, <2>12
        DEF CommitStep
  <1>3. ASSUME NEW j \in Transcodes, AbortStep(j) PROVE ResetMoves
    <2>1. CASE StopClean(j)
      BY <2>1, <1>a, <1>b
        DEF StopClean, TaskAt, TaskTo, notTask, DispatchAt, FreeAt
    <2>2. CASE StopRelease(j)
      BY <2>2, <1>a, <1>b
        DEF StopRelease, TaskAt, TaskEnds, Released, notTask, DispatchAt,
            FreeAt
    <2>3. CASE FailClaim(j)
      BY <2>3, <1>a, <1>b
        DEF FailClaim, TaskAt, TaskTo, Transitions, notTask, DispatchAt, FreeAt
    <2>4. CASE FailWrite(j)
      BY <2>4, FailWriteEffect, <1>a, <1>b DEF DispatchAt, FreeAt
    <2>5. CASE ReportUnrecovered(j)
      BY <2>5, <1>a, <1>b
        DEF ReportUnrecovered, TaskAt, TaskTo, notTask, DispatchAt, FreeAt
    <2>6. CASE StopCheck(j) \/ StopComplete(j) \/ FailRead(j) \/ FailTask(j) \/
               Recover(j)
      BY <2>6 DEF StopCheck, StopComplete, FailRead, FailTask, Recover, notTask
    <2> QED
      BY <1>3, <2>1, <2>2, <2>3, <2>4, <2>5, <2>6 DEF AbortStep
  <1>4. ASSUME NEW j \in Transcodes, LostStep(j) PROVE ResetMoves
    <2>1. CASE Retire(j)
      BY <2>1, <1>a, <1>b
        DEF Retire, TaskAt, TaskTo, RetireOver, Transitions, Retired, Released,
            notTask, DispatchAt, FreeAt
    <2>2. CASE RetireStopped(j)
      BY <2>2, <1>a, <1>b
        DEF RetireStopped, TaskAt, TaskTo, Retired, Released, notTask,
            DispatchAt, FreeAt
    <2>3. CASE LostRead(j) \/ RequeueLost(j) \/ FailLostJob(j)
      BY <2>3 DEF LostRead, RequeueLost, FailLostJob, notTask
    <2> QED
      BY <1>4, <2>1, <2>2, <2>3 DEF LostStep
  <1>5. CASE (\E j \in Transcodes : Report(j)) \/
             (\E j \in Transcodes : LoseRunner(j))
    BY <1>5 DEF Report, LoseRunner, notTask
  <1>6. CASE StopWrite
    BY <1>6 DEF StopWrite, UserIdle, notUser
  <1>7. CASE RequeuePublish
    BY <1>7 DEF RequeuePublish, notUser, ProbeKnown
  <1>8. CASE RequeueCreate
    BY <1>8 DEF RequeueCreate, UserIdle, notUser
  <1>9. ASSUME NEW s \in Settings, Replace(s) PROVE ResetMoves
    BY <1>9, <1>b, JobGens DEF Replace, MetHalfWay, DispatchAt
  <1>10. CASE Remove
    BY <1>10 DEF Remove, Unsettled, notUser
  <1>11. CASE StopRead \/ (\E k \in Jobs : StopFailJob(k)) \/ RequeueRead \/
              (\E k \in Jobs : RequeueFailJob(k))
    BY <1>11 DEF StopRead, StopFailJob, RequeueRead, RequeueFailJob, notUser
  <1>12. CASE UNCHANGED vars
    BY <1>12 DEF vars
  <1> QED
    BY <1>1, <1>2, <1>3, <1>4, <1>5, <1>6, <1>7, <1>8, <1>9, <1>10, <1>11,
       <1>12
      DEF Next, TaskStep, StopStep, RequeueStep

\* A task does not end while its job runs.
LEMMA TaskRuns ==
  ASSUME NEW j \in Transcodes, TypeOK, task[j].at \in EndedAt => ~Active(j),
         OwnerKnown, task'[j].at = "none", TaskStep(j) \/ LoseRunner(j)
  PROVE  job'[j] # "running"
  <1> USE DEF TypeOK, EndedAt, TaskAt, NoTask, Active
  <1>1. CASE CommitStep(j)
    <2>1. CASE FinalizeRead(j)
      BY <2>1, JobGens DEF FinalizeRead, TaskAt, TaskTo, TaskEnds, notTask
    <2>2. CASE Begin(j)
      BY <2>2, JobGens DEF Begin, TaskAt, TaskTo, Transitions, notTask
    <2>3. CASE ValidateOutput(j)
      BY <2>3, JobGens DEF ValidateOutput, TaskAt, TaskTo, Attempt, notTask
    <2>4. CASE BeforeFilters(j)
      BY <2>4, JobGens
        DEF BeforeFilters, TaskAt, TaskTo, TaskEnds, notTask, OwnerKnown,
            FreeAt
    <2>5. CASE RunFilters(j)
      BY <2>5, JobGens DEF RunFilters, TaskAt, TaskTo, notTask
    <2>6. CASE Commit(j)
      BY <2>6, CommitEffect, JobGens
    <2>7. CASE Promote(j)
      BY <2>7, JobGens DEF Promote, TaskAt, TaskTo, Transitions, notTask
    <2>8. CASE Link(j)
      BY <2>8, JobGens DEF Link, TaskAt, TaskTo, Attempt, notTask
    <2>9. CASE JournalCommitted(j)
      BY <2>9, JobGens
        DEF JournalCommitted, TaskAt, TaskTo, Transitions, notTask
    <2>10. CASE Persist(j)
      BY <2>10, JobGens DEF Persist, TaskAt, TaskTo, notTask
    <2>11. CASE MarkReplaced(j)
      BY <2>11, JobGens DEF MarkReplaced, TaskAt, TaskTo, notTask
    <2>12. CASE Complete(j)
      BY <2>12, JobGens
        DEF Complete, TaskAt, TaskTo, CompleteIfRunning, notTask
    <2>13. CASE TaskRecount(j)
      BY <2>13, JobGens DEF TaskRecount, TaskAt, notTask
    <2>14. CASE TaskAggregate(j)
      BY <2>14, JobGens DEF TaskAggregate, TaskAt, Recomputed, notTask
    <2>15. CASE JournalCleaned(j)
      BY <2>15, JobGens DEF JournalCleaned, TaskAt, TaskTo, notTask
    <2>16. CASE Unlink(j)
      BY <2>16, JobGens DEF Unlink, TaskAt, TaskTo, notTask
    <2>17. CASE Unjournal(j)
      BY <2>17, JobGens DEF Unjournal, TaskAt, TaskTo, notTask
    <2>18. CASE Release(j)
      BY <2>18, JobGens
        DEF Release, TaskAt, TaskTo, Released, CanRelease, notTask
    <2>19. CASE EraseJournal(j)
      BY <2>19, JobGens DEF EraseJournal, TaskAt, TaskEnds, notTask
    <2>20. CASE Settle(j)
      BY <2>20, JobGens DEF Settle, TaskAt, TaskEnds, FailIfActive, notTask
    <2> QED
      BY <1>1, <2>1, <2>2, <2>3, <2>4, <2>5, <2>6, <2>7, <2>8, <2>9, <2>10,
         <2>11, <2>12, <2>13, <2>14, <2>15, <2>16, <2>17, <2>18, <2>19, <2>20
        DEF CommitStep
  <1>2. CASE AbortStep(j)
    <2>1. CASE StopCheck(j)
      BY <2>1, JobGens
        DEF StopCheck, TaskAt, TaskTo, TaskEnds, notTask, OwnerKnown, FreeAt
    <2>2. CASE StopClean(j)
      BY <2>2, JobGens DEF StopClean, TaskAt, TaskTo, notTask
    <2>3. CASE StopComplete(j)
      BY <2>3, JobGens
        DEF StopComplete, TaskAt, TaskTo, CompleteIfRunning, notTask
    <2>4. CASE StopRelease(j)
      BY <2>4, JobGens DEF StopRelease, TaskAt, TaskEnds, Released, notTask
    <2>5. CASE FailRead(j)
      BY <2>5, JobGens DEF FailRead, TaskAt, TaskTo, notTask
    <2>6. CASE FailClaim(j)
      BY <2>6, JobGens DEF FailClaim, TaskAt, TaskTo, Transitions, notTask
    <2>7. CASE FailWrite(j)
      BY <2>7, FailWriteEffect, JobGens
    <2>8. CASE FailTask(j)
      BY <2>8, JobGens DEF FailTask, TaskAt, TaskTo, FailIfActive, notTask
    <2>9. CASE Recover(j)
      BY <2>9, JobGens DEF Recover, TaskAt, TaskTo, notTask
    <2>10. CASE ReportUnrecovered(j)
      BY <2>10, JobGens DEF ReportUnrecovered, TaskAt, TaskTo, notTask
    <2> QED
      BY <1>2, <2>1, <2>2, <2>3, <2>4, <2>5, <2>6, <2>7, <2>8, <2>9, <2>10
        DEF AbortStep
  <1>3. CASE LostStep(j)
    <2>1. CASE LostRead(j)
      BY <2>1, JobGens
        DEF LostRead, TaskAt, TaskTo, TaskEnds, BelongsTo, notTask
    <2>2. CASE Retire(j)
      BY <2>2, JobGens
        DEF Retire, TaskAt, TaskTo, RetireOver, Transitions, Retired, Released,
            notTask
    <2>3. CASE RequeueLost(j)
      BY <2>3, JobGens DEF RequeueLost, TaskAt, TaskEnds, notTask
    <2>4. CASE RetireStopped(j)
      BY <2>4, JobGens
        DEF RetireStopped, TaskAt, TaskTo, Retired, Released, notTask
    <2>5. CASE FailLostJob(j)
      BY <2>5, JobGens DEF FailLostJob, TaskAt, TaskEnds, notTask
    <2> QED
      BY <1>3, <2>1, <2>2, <2>3, <2>4, <2>5 DEF LostStep
  <1>4. CASE Report(j)
    BY <1>4, JobGens DEF Report, TaskAt, notTask
  <1>5. CASE LoseRunner(j)
    BY <1>5, JobGens DEF LoseRunner, TaskAt, TaskTo, notTask
  <1> QED
    BY <1>1, <1>2, <1>3, <1>4, <1>5 DEF TaskStep

\* A task gets to its end with its job, and its job stays ended.
LEMMA TaskEnded ==
  ASSUME NEW j \in Transcodes, TypeOK, HandedOver, task'[j].at \in EndedAt,
         TaskStep(j) \/ LoseRunner(j)
  PROVE  task[j].at \in EndedAt \/ job'[j] \notin {"pending", "running"}
  <1> USE DEF TypeOK, EndedAt, TaskAt, NoTask
  <1>1. CASE CommitStep(j)
    <2>1. CASE FinalizeRead(j)
      BY <2>1 DEF FinalizeRead, TaskAt, TaskTo, TaskEnds, notTask
    <2>2. CASE Begin(j)
      BY <2>2 DEF Begin, TaskAt, TaskTo, Transitions, notTask
    <2>3. CASE ValidateOutput(j)
      BY <2>3 DEF ValidateOutput, TaskAt, TaskTo, Attempt, notTask
    <2>4. CASE BeforeFilters(j)
      BY <2>4 DEF BeforeFilters, TaskAt, TaskTo, TaskEnds, notTask
    <2>5. CASE RunFilters(j)
      BY <2>5 DEF RunFilters, TaskAt, TaskTo, notTask
    <2>6. CASE Commit(j)
      BY <2>6, CommitEffect
    <2>7. CASE Promote(j)
      BY <2>7 DEF Promote, TaskAt, TaskTo, Transitions, notTask
    <2>8. CASE Link(j)
      BY <2>8 DEF Link, TaskAt, TaskTo, Attempt, notTask
    <2>9. CASE JournalCommitted(j)
      BY <2>9 DEF JournalCommitted, TaskAt, TaskTo, Transitions, notTask
    <2>10. CASE Persist(j)
      BY <2>10 DEF Persist, TaskAt, TaskTo, notTask
    <2>11. CASE MarkReplaced(j)
      BY <2>11 DEF MarkReplaced, TaskAt, TaskTo, notTask
    <2>12. CASE Complete(j)
      BY <2>12, JobGens
        DEF Complete, TaskAt, TaskTo, CompleteIfRunning, notTask, HandedOver,
            Active
    <2>13. CASE TaskRecount(j)
      BY <2>13 DEF TaskRecount, TaskAt, notTask
    <2>14. CASE TaskAggregate(j)
      BY <2>14 DEF TaskAggregate, TaskAt, Recomputed, notTask
    <2>15. CASE JournalCleaned(j)
      BY <2>15 DEF JournalCleaned, TaskAt, TaskTo, notTask
    <2>16. CASE Unlink(j)
      BY <2>16 DEF Unlink, TaskAt, TaskTo, notTask
    <2>17. CASE Unjournal(j)
      BY <2>17 DEF Unjournal, TaskAt, TaskTo, notTask
    <2>18. CASE Release(j)
      BY <2>18 DEF Release, TaskAt, TaskTo, Released, CanRelease, notTask
    <2>19. CASE EraseJournal(j)
      BY <2>19 DEF EraseJournal, TaskAt, TaskEnds, notTask
    <2>20. CASE Settle(j)
      BY <2>20 DEF Settle, TaskAt, TaskEnds, FailIfActive, notTask
    <2> QED
      BY <1>1, <2>1, <2>2, <2>3, <2>4, <2>5, <2>6, <2>7, <2>8, <2>9, <2>10,
         <2>11, <2>12, <2>13, <2>14, <2>15, <2>16, <2>17, <2>18, <2>19, <2>20
        DEF CommitStep
  <1>2. CASE AbortStep(j)
    <2>1. CASE StopCheck(j)
      BY <2>1 DEF StopCheck, TaskAt, TaskTo, TaskEnds, notTask
    <2>2. CASE StopClean(j)
      BY <2>2 DEF StopClean, TaskAt, TaskTo, notTask
    <2>3. CASE StopComplete(j)
      BY <2>3, JobGens
        DEF StopComplete, TaskAt, TaskTo, CompleteIfRunning, notTask,
            HandedOver, Active
    <2>4. CASE StopRelease(j)
      BY <2>4 DEF StopRelease, TaskAt, TaskEnds, Released, notTask
    <2>5. CASE FailRead(j)
      BY <2>5 DEF FailRead, TaskAt, TaskTo, notTask
    <2>6. CASE FailClaim(j)
      BY <2>6 DEF FailClaim, TaskAt, TaskTo, Transitions, notTask
    <2>7. CASE FailWrite(j)
      BY <2>7, FailWriteEffect
    <2>8. CASE FailTask(j)
      BY <2>8, JobGens
        DEF FailTask, TaskAt, TaskTo, FailIfActive, notTask, HandedOver, Active
    <2>9. CASE Recover(j)
      BY <2>9 DEF Recover, TaskAt, TaskTo, notTask
    <2>10. CASE ReportUnrecovered(j)
      BY <2>10 DEF ReportUnrecovered, TaskAt, TaskTo, notTask
    <2> QED
      BY <1>2, <2>1, <2>2, <2>3, <2>4, <2>5, <2>6, <2>7, <2>8, <2>9, <2>10
        DEF AbortStep
  <1>3. CASE LostStep(j)
    <2>1. CASE LostRead(j)
      BY <2>1 DEF LostRead, TaskAt, TaskTo, TaskEnds, BelongsTo, notTask
    <2>2. CASE Retire(j)
      BY <2>2
        DEF Retire, TaskAt, TaskTo, RetireOver, Transitions, Retired, Released,
            notTask
    <2>3. CASE RequeueLost(j)
      BY <2>3 DEF RequeueLost, TaskAt, TaskEnds, notTask
    <2>4. CASE RetireStopped(j)
      BY <2>4 DEF RetireStopped, TaskAt, TaskTo, Retired, Released, notTask
    <2>5. CASE FailLostJob(j)
      BY <2>5 DEF FailLostJob, TaskAt, TaskEnds, notTask
    <2> QED
      BY <1>3, <2>1, <2>2, <2>3, <2>4, <2>5 DEF LostStep
  <1>4. CASE Report(j)
    BY <1>4 DEF Report, TaskAt, notTask
  <1>5. CASE LoseRunner(j)
    BY <1>5 DEF LoseRunner, TaskAt, TaskTo, notTask
  <1> QED
    BY <1>1, <1>2, <1>3, <1>4, <1>5 DEF TaskStep

\* Who was overtaken by a replace stays so.
LEMMA OvertakenGrows == [Next]_vars => overtaken \subseteq overtaken'
  <1> SUFFICES ASSUME [Next]_vars PROVE overtaken \subseteq overtaken'
    OBVIOUS
  <1>1. CASE LoopStep
    BY <1>1
      DEF LoopStep, TakeProbe, ProbeClaim, ProbeQueued, ProbeFailed,
          ProbeNoMatch, ProbeCheck, ProbeEnqueue, ProbePublish, ProbeFence,
          ProbeDone, TakeTranscode, PrepareRead, RecordCollision, ClaimFile,
          PatchJob, RollBackClaim, ValidatePrepared, Assign, NoRunnerLeft,
          Reset, FailJob, LoopRecount, LoopAggregate, CompleteSkipped, notLoop
  <1>2. ASSUME NEW j \in Transcodes, CommitStep(j) PROVE overtaken \subseteq overtaken'
    BY <1>2
      DEF CommitStep, FinalizeRead, Begin, ValidateOutput, BeforeFilters,
          RunFilters, Commit, Promote, Link, JournalCommitted, Persist,
          MarkReplaced, Complete, TaskRecount, TaskAggregate, JournalCleaned,
          Unlink, Unjournal, Release, EraseJournal, Settle, Attempt, notTask
  <1>3. ASSUME NEW j \in Transcodes, AbortStep(j) \/ LostStep(j)
        PROVE  overtaken \subseteq overtaken'
    BY <1>3
      DEF AbortStep, StopCheck, StopClean, StopComplete, StopRelease, FailRead,
          FailClaim, FailWrite, FailTask, Recover, ReportUnrecovered, LostStep,
          LostRead, Retire, RequeueLost, RetireStopped, FailLostJob, RetireOver, notTask
  <1>4. ASSUME NEW j \in Transcodes, Report(j) \/ LoseRunner(j)
        PROVE  overtaken \subseteq overtaken'
    BY <1>4 DEF Report, LoseRunner, notTask
  <1>5. CASE StopStep \/ RequeueStep \/ (\E s \in Settings : Replace(s)) \/ Remove
    BY <1>5
      DEF StopStep, StopRead, StopWrite, StopFailJob, RequeueStep, RequeueRead,
          RequeueFailJob, RequeuePublish, RequeueCreate, Replace, Remove, notUser
  <1>6. CASE UNCHANGED vars
    BY <1>6 DEF vars
  <1> QED
    BY <1>1, <1>2, <1>3, <1>4, <1>5, <1>6 DEF Next, TaskStep

-----------------------------------------------------------------------------
\* Every step of a running job leaves it in somebody's hands.
LEMMA RunningKept ==
  /\ TypeOK /\ LoopKnown /\ LockKnown /\ LaterJobs /\ ProbesFirst /\ LoopsJob /\ HandedOver
  /\ ProbeKnown /\ OwnerKnown /\ OldKnown /\ RunningKnown /\ [Next]_vars
  => RunningKnown'
  <1> SUFFICES ASSUME TypeOK, LoopKnown, LockKnown, LaterJobs, ProbesFirst, LoopsJob, HandedOver,
                      ProbeKnown, OwnerKnown, OldKnown, RunningKnown, [Next]_vars
               PROVE  RunningKnown'
    OBVIOUS
  <1>a. \A j \in Transcodes : task[j].at \notin FreeAt =>
           /\ file.owner = j /\ j # NoJob /\ loop.at \notin DispatchAt
           /\ \A i \in Transcodes : i # j => task[i].at \in FreeAt
    BY Alone
  <1>b. loop.at \in DispatchAt =>
           /\ loop.job \in Transcodes /\ loop.job # NoJob
           /\ file.owner \in {NoJob, loop.job}
           /\ \A j \in Transcodes : task[j].at \in FreeAt
    BY Alone
  <1>1. /\ LoopMoves /\ LoopEnds /\ ClaimMoves /\ ResetMoves
        /\ \A j \in Jobs : JobMoves(j)
        /\ \A j \in overtaken : j \in overtaken'
    BY LoopMove, LoopEnd, ClaimMove, ResetMove, JobsMove, OvertakenGrows
  <1>2. ASSUME NEW j \in Jobs, job'[j] = "running"
        PROVE  loop'.job = j \/ (j \in Transcodes /\ task'[j].at # "none") \/ j \in overtaken'
    <2>1. CASE job[j] # "running"
      BY <1>1, <1>2, <2>1 DEF JobMoves
    <2>2. CASE job[j] = "running" /\ loop.job = j
      <3>1. loop.at # "idle"
        BY <2>2, JobGens DEF LoopKnown
      <3>2. CASE loop'.job = loop.job
        BY <2>2, <3>2
      <3>3. CASE loop'.job # loop.job
        <4>1. loop' = LoopIdle
          BY <1>1, <3>1, <3>3 DEF LoopMoves
        <4>2. \/ job'[loop.job] # "running"
              \/ loop.at \in {"recount", "aggregate"}
              \/ loop.at = "assign" /\ task'[loop.job].at = "exec"
              \/ /\ loop.at = "reset" /\ file.owner = NoJob
                 /\ file.status \notin {"stopped", "missing"}
          BY <1>1, <3>1, <4>1 DEF LoopEnds, LoopIdle
        <4>3. loop.at = "assign" => loop.job \in Transcodes
          BY DEF LoopKnown, DispatchAt, ClaimedAt
        <4> QED
          BY <1>1, <1>2, <2>2, <4>2, <4>3 DEF RunningKnown, Active
      <3> QED
        BY <3>2, <3>3
    <2>3. CASE job[j] = "running" /\ j \in Transcodes /\ task[j].at # "none"
      <3>1. CASE TaskStep(j) \/ LoseRunner(j)
        <4>1. ASSUME task'[j].at = "none" PROVE job'[j] # "running"
          <5>1. task[j].at \in EndedAt => ~Active(j)
            BY <2>3 DEF RunningKnown
          <5> QED
            BY <2>3, <3>1, <4>1, <5>1, TaskRuns
        <4> QED
          BY <1>2, <2>3, <4>1
      <3>2. CASE task'[j] = task[j]
        BY <2>3, <3>2
      <3>3. CASE loop.job = j /\ Assign
        BY <2>3, <3>3 DEF Assign, TypeOK
      <3> QED
        BY <2>3, <3>1, <3>2, <3>3, TaskActs
    <2>4. CASE j \in overtaken
      BY <1>1, <2>4
    <2> QED
      BY <2>1, <2>2, <2>3, <2>4 DEF RunningKnown, RunningJobIsHeld
  <1>3. ASSUME NEW j \in Transcodes, task'[j].at \in EndedAt
        PROVE  job'[j] \notin {"pending", "running"}
    <2>1. CASE task[j].at \in EndedAt /\ job[j] \notin {"pending", "running"}
      <3>1. job[j] # "none"
        BY <2>1 DEF HandedOver, EndedAt
      <3>2. ~(loop.at = "probe-enqueue" /\ j = <<Gen(loop.job), loop.next>>)
        BY <3>1 DEF LoopsJob
      <3>3. j \in Jobs /\ j # ProbeJob(gen)
        BY JobGens, ProbeJobs DEF TypeOK
      <3> QED
        BY <1>1, <2>1, <3>2, <3>3 DEF JobMoves, Active
    <2>2. CASE TaskStep(j) \/ LoseRunner(j)
      BY <1>3, <2>1, <2>2, TaskEnded DEF RunningKnown, Active
    <2>3. CASE task'[j] = task[j]
      BY <1>3, <2>1, <2>3 DEF RunningKnown, Active
    <2>4. CASE Assign /\ loop.job = j
      BY <1>3, <2>4 DEF Assign, TypeOK, EndedAt
    <2> QED
      BY <2>2, <2>3, <2>4, TaskActs
  <1>4. ASSUME loop'.at \in {"recount", "aggregate"} PROVE job'[loop'.job] \notin {"pending", "running"}
    <2>1. CASE loop.at \in {"recount", "aggregate"} /\ loop'.job = loop.job
      <3>1. loop.job \in Transcodes /\ job[loop.job] \notin {"pending", "running"}
        BY <2>1 DEF RunningKnown, Active, LoopKnown, DispatchAt, UnownedAt
      <3>2. loop.job \in Jobs /\ loop.job # ProbeJob(gen)
        BY <3>1, JobGens, ProbeJobs DEF TypeOK
      <3> QED
        BY <1>1, <2>1, <3>1, <3>2 DEF JobMoves, Active
    <2> QED
      BY <1>1, <1>4, <2>1 DEF LoopEnds
  <1>5. loop'.at = "claim" => file'.status # "replaced" \/ loop'.job \in overtaken'
    BY <1>1 DEF ClaimMoves, RunningKnown
  <1>6. loop'.at = "reset" /\ file'.owner = NoJob /\ job'[loop'.job] = "running" =>
           file'.status \in {"stopped", "missing"} \/ loop'.job \in overtaken'
    <2> SUFFICES ASSUME loop'.at = "reset", file'.owner = NoJob, job'[loop'.job] = "running"
                 PROVE  file'.status \in {"stopped", "missing"} \/ loop'.job \in overtaken'
      OBVIOUS
    <2>1. CASE loop.at = "reset" /\ loop'.job = loop.job /\ file.owner = NoJob
      <3>1. loop.job \in Jobs /\ loop.job \in Transcodes /\ Gen(loop.job) \in Gens
        BY <2>1, JobGens DEF LoopKnown, DispatchAt
      <3>2. job[loop.job] = "running"
        <4>1. loop' # LoopIdle
          BY DEF LoopIdle
        <4> QED
          BY <1>1, <2>1, <3>1, <4>1 DEF JobMoves, LoopIdle
      <3>3. file.status \in {"stopped", "missing"} \/ loop'.job \in overtaken'
        BY <1>1, <2>1, <3>2 DEF RunningKnown
      <3>4. ~(requeue.at = "fail" /\ requeue.jobs = {})
        <4>1. ~Enqueued(loop.job)
          BY <2>1 DEF Enqueued, EnqueueAt
        <4> QED
          BY <3>1, <3>2, <4>1 DEF OldKnown, Outstanding, Active
      <3> QED
        BY <1>1, <2>1, <3>3, <3>4 DEF ResetMoves
    <2> QED
      BY <1>1, <2>1 DEF ResetMoves, RunningKnown, Unpreparable
  <1> QED
    BY <1>2, <1>3, <1>4, <1>5, <1>6 DEF RunningKnown, RunningJobIsHeld, Active

-----------------------------------------------------------------------------
\* Nobody claims the file inside of somebody's section.
LEMMA ClaimFree ==
  ASSUME TypeOK, LoopKnown, [Next]_vars, lock # "free"
  PROVE  file'.owner \in {file.owner, NoJob}
  <1>1. CASE ClaimFile
    BY <1>1 DEF ClaimFile
  <1>2. CASE LoopStep /\ ~ClaimFile
    <2>1. \/ file' = file \/ ProbeEnqueue
          \/ LoopAggregate
      BY <1>2 DEF LoopStep, TakeProbe, ProbeClaim, ProbeQueued, ProbeFailed, ProbeNoMatch, ProbeCheck,
          ProbePublish, ProbeFence, ProbeDone, TakeTranscode, PrepareRead, RecordCollision, PatchJob,
          RollBackClaim, ValidatePrepared, Assign, NoRunnerLeft, Reset, FailJob, LoopRecount,
          CompleteSkipped
    <2>2. ProbeEnqueue => file' = file
      BY DEF ProbeEnqueue
    <2>3. LoopAggregate => file'.owner = file.owner
      BY DEF LoopAggregate, Recomputed, TypeOK, Files
    <2> QED
      BY <2>1, <2>2, <2>3
  <1>3. CASE ~LoopStep
    <2>1. loop' = loop
      BY <1>3, LoopStill
    <2> QED
      BY <2>1, OwnerMove DEF OwnerMoves
  <1> QED
    BY <1>1, <1>2, <1>3

\* The validation does not touch the job.
LEMMA ValidateKeepsJob ==
  ASSUME TypeOK, LoopKnown, [Next]_vars, loop.at = "validate", loop'.at = "assign"
  PROVE  job' = job
  <1>1. loop' # loop
    OBVIOUS
  <1>2. LoopStep
    BY <1>1, LoopStill
  <1> QED
    BY <1>2 DEF LoopStep, LoopAt, TakeProbe, ProbeClaim, ProbeQueued, ProbeFailed, ProbeNoMatch,
        ProbeCheck, ProbeEnqueue, ProbePublish, ProbeFence, ProbeDone, TakeTranscode, PrepareRead,
        RecordCollision, ClaimFile, PatchJob, RollBackClaim, ValidatePrepared, Assign,
        NoRunnerLeft, Reset, FailJob, LoopRecount, LoopAggregate, CompleteSkipped

\* A task leaves a stopped file stopped, or fails with it.
LEMMA StoppedTask ==
  ASSUME NEW j \in Transcodes, TypeOK, file.owner = j, file.status = "stopped",
         task[j].at \in FinishAt => file.phase = "committing",
         file.phase # "committing", TaskStep(j) \/ LoseRunner(j)
  PROVE  file'.status = "stopped" \/ (file'.owner = j /\ task'[j].at = "settle")
  <1> USE DEF TypeOK, Files, FinishAt, Stopped
  <1>1. CASE CommitStep(j)
    <2>1. CASE Begin(j)
      BY <2>1 DEF Begin, TaskAt, TaskTo, Transitions, notTask
    <2>2. CASE Commit(j)
      BY <2>2, CommitEffect
    <2>3. CASE Promote(j)
      BY <2>3 DEF Promote, TaskAt, TaskTo, Transitions, notTask
    <2>4. CASE JournalCommitted(j)
      BY <2>4 DEF JournalCommitted, TaskAt, TaskTo, Transitions, notTask
    <2>5. CASE Persist(j)
      BY <2>5 DEF Persist, TaskAt, TaskTo, notTask
    <2>6. CASE MarkReplaced(j)
      BY <2>6 DEF MarkReplaced, TaskAt, TaskTo, notTask
    <2>7. CASE TaskAggregate(j)
      BY <2>7 DEF TaskAggregate, TaskAt, Recomputed, notTask
    <2>8. CASE JournalCleaned(j)
      BY <2>8 DEF JournalCleaned, TaskAt, TaskTo, notTask
    <2>9. CASE Unjournal(j)
      BY <2>9 DEF Unjournal, TaskAt, TaskTo, notTask
    <2>10. CASE Release(j)
      BY <2>10 DEF Release, TaskAt, TaskTo, Released, CanRelease, notTask
    <2>11. CASE EraseJournal(j)
      BY <2>11 DEF EraseJournal, TaskAt, TaskEnds, notTask
    <2>12. CASE FinalizeRead(j) \/ ValidateOutput(j) \/ BeforeFilters(j) \/
                RunFilters(j) \/ Link(j) \/ Complete(j) \/ TaskRecount(j) \/ Unlink(j) \/
                Settle(j)
      BY <2>12
        DEF FinalizeRead, ValidateOutput, Attempt, BeforeFilters, RunFilters,
            Link, Complete, TaskRecount, Unlink, Settle, notTask
    <2> QED
      BY <1>1, <2>1, <2>2, <2>3, <2>4, <2>5, <2>6, <2>7, <2>8, <2>9, <2>10,
         <2>11, <2>12
        DEF CommitStep
  <1>2. CASE AbortStep(j)
    <2>1. CASE StopClean(j)
      BY <2>1 DEF StopClean, TaskAt, TaskTo, notTask
    <2>2. CASE StopRelease(j)
      BY <2>2 DEF StopRelease, TaskAt, TaskEnds, Released, notTask
    <2>3. CASE FailClaim(j)
      BY <2>3 DEF FailClaim, TaskAt, TaskTo, Transitions, notTask
    <2>4. CASE FailWrite(j)
      BY <2>4, FailWriteEffect
    <2>5. CASE ReportUnrecovered(j)
      BY <2>5 DEF ReportUnrecovered, TaskAt, TaskTo, notTask
    <2>6. CASE StopCheck(j) \/ StopComplete(j) \/ FailRead(j) \/ FailTask(j) \/
               Recover(j)
      BY <2>6 DEF StopCheck, StopComplete, FailRead, FailTask, Recover, notTask
    <2> QED
      BY <1>2, <2>1, <2>2, <2>3, <2>4, <2>5, <2>6 DEF AbortStep
  <1>3. CASE LostStep(j)
    <2>1. CASE Retire(j)
      BY <2>1
        DEF Retire, TaskAt, TaskTo, RetireOver, Transitions, Retired, Released,
            notTask
    <2>2. CASE RetireStopped(j)
      BY <2>2 DEF RetireStopped, TaskAt, TaskTo, Retired, Released, notTask
    <2>3. CASE LostRead(j) \/ RequeueLost(j) \/ FailLostJob(j)
      BY <2>3 DEF LostRead, RequeueLost, FailLostJob, notTask
    <2> QED
      BY <1>3, <2>1, <2>2, <2>3 DEF LostStep
  <1>4. CASE Report(j)
    BY <1>4 DEF Report, notTask
  <1>5. CASE LoseRunner(j)
    BY <1>5 DEF LoseRunner, notTask
  <1> QED
    BY <1>1, <1>2, <1>3, <1>4, <1>5 DEF TaskStep

\* A file that nobody may claim stays so until a requeue or a replace.
LEMMA QuenchedMove ==
  TypeOK /\ LoopKnown /\ HandedOver /\ ProbeKnown /\ OwnerKnown /\ NoReturn /\ ResultKnown /\ [Next]_vars => QuenchedMoves
  <1> SUFFICES ASSUME TypeOK, LoopKnown, HandedOver, ProbeKnown, OwnerKnown,
                      NoReturn, ResultKnown, [Next]_vars
               PROVE  QuenchedMoves
    OBVIOUS
  <1>a. \A j \in Transcodes : task[j].at \notin FreeAt =>
           /\ file.owner = j /\ j # NoJob /\ loop.at \notin DispatchAt
           /\ \A i \in Transcodes : i # j => task[i].at \in FreeAt
    BY Alone
  <1>b. loop.at \in DispatchAt =>
           /\ loop.job \in Transcodes /\ loop.job # NoJob
           /\ file.owner \in {NoJob, loop.job}
           /\ \A j \in Transcodes : task[j].at \in FreeAt
    BY Alone
  <1>q. Orphaned =>
           /\ file.owner \in Transcodes /\ loop.at \notin DispatchAt
           /\ \A j \in Transcodes : task[j].at \in FreeAt
    BY <1>a, <1>b DEF Orphaned, FreeAt, TypeOK, Files
  <1>r. /\ Orphaned => file.owner \in Transcodes /\ loop.at \notin DispatchAt
        /\ file.status = "missing" => file.owner = NoJob
    BY <1>q DEF NoReturn
  <1> USE DEF TypeOK, QuenchedMoves, Quenched, Orphaned, Files, LoopIdle
  <1>1. CASE LoopStep
    <2>1. ASSUME NEW g \in Gens, TakeProbe(g) PROVE QuenchedMoves
      <3>1. file' = file /\ task' = task /\ loop'.job = ProbeJob(g)
        BY <2>1 DEF TakeProbe, notLoop, LoopIdle
      <3>2. Orphaned => Orphaned'
        <4>1. file.owner \in Transcodes => file.owner # ProbeJob(g)
          BY ProbeJobs
        <4> QED
          BY <1>r, <3>1, <4>1 DEF Orphaned
      <3> QED
        BY <3>1, <3>2 DEF QuenchedMoves, Quenched
    <2>2. CASE ProbeClaim
      BY <2>2, <1>r DEF ProbeClaim, LoopAt, LoopTo, notLoop
    <2>3. CASE ProbeQueued
      BY <2>3, ProbeQueuedEffect, <1>r DEF OwnsProbe
    <2>4. CASE ProbeFailed
      BY <2>4, <1>r DEF ProbeFailed, LoopAt, LoopTo, OwnsProbe, notLoop
    <2>5. CASE ProbeNoMatch
      BY <2>5, <1>r DEF ProbeNoMatch, LoopAt, LoopTo, OwnsProbe, notLoop
    <2>6. CASE ProbeCheck
      BY <2>6, ProbeCheckEffect, <1>r DEF OwnsProbe
    <2>7. CASE ProbeEnqueue
      BY <2>7, <1>r DEF ProbeEnqueue, LoopAt, notLoop
    <2>8. CASE ProbePublish
      BY <2>8, <1>r DEF ProbePublish, LoopAt, LoopTo, OwnsProbe, notLoop
    <2>9. CASE ProbeFence
      BY <2>9, <1>r DEF ProbeFence, LoopAt, LoopTo, notLoop
    <2>10. CASE ProbeDone
      BY <2>10, <1>r
        DEF ProbeDone, LoopAt, LoopStops, CompleteIfRunning, notLoop
    <2>11. ASSUME NEW j \in Transcodes, TakeTranscode(j) PROVE QuenchedMoves
      BY <2>11, <1>r
        DEF TakeTranscode, LoopAt, notLoop, DispatchAt, UnownedAt, ClaimedAt,
            Stopped
    <2>12. CASE PrepareRead
      BY <2>12, <1>r DEF PrepareRead, LoopAt, LoopTo, Unpreparable, notLoop
    <2>13. CASE RecordCollision
      BY <2>13, <1>r
        DEF RecordCollision, LoopAt, LoopTo, notLoop, DispatchAt, UnownedAt,
            ClaimedAt, Stopped
    <2>14. CASE ClaimFile
      BY <2>14, <1>r
        DEF ClaimFile, LoopAt, LoopTo, Claimed, Unpreparable, notLoop,
            DispatchAt, UnownedAt, ClaimedAt, Stopped
    <2>15. CASE PatchJob
      BY <2>15, <1>r DEF PatchJob, LoopAt, LoopTo, notLoop
    <2>16. CASE RollBackClaim
      <3>1. file.status \in {"stopped", "missing"} => file'.status = file.status
        <4>1. file.owner = loop.job => file.status # "missing"
          BY <2>16, <1>b, <1>r DEF RollBackClaim, LoopAt, DispatchAt, ClaimedAt
        <4> QED
          BY <2>16, <4>1 DEF RollBackClaim, Stopped, Released
      <3>2. ~Orphaned
        BY <2>16, <1>r DEF RollBackClaim, LoopAt, DispatchAt, ClaimedAt
      <3> QED
        BY <3>1, <3>2 DEF QuenchedMoves, Quenched
    <2>17. CASE ValidatePrepared
      BY <2>17, <1>r
        DEF ValidatePrepared, LoopAt, LoopTo, PreparedTaskMatches, notLoop
    <2>18. CASE Assign
      BY <2>18, <1>r
        DEF Assign, LoopAt, LoopStops, notLoop, DispatchAt, UnownedAt,
            ClaimedAt, Stopped
    <2>19. CASE NoRunnerLeft
      BY <2>19, <1>r DEF NoRunnerLeft, LoopAt, LoopTo, notLoop
    <2>20. CASE Reset
      <3>1. file.status \in {"stopped", "missing"} => file'.status = file.status
        <4>1. file.owner = loop.job => file.status # "missing"
          BY <2>20, <1>b, <1>r DEF Reset, DispatchAt, UnownedAt
        <4> QED
          BY <2>20, <4>1 DEF Reset, Stopped, Released
      <3>2. ~Orphaned
        BY <2>20, <1>r DEF Reset, DispatchAt, UnownedAt
      <3> QED
        BY <3>1, <3>2 DEF QuenchedMoves, Quenched
    <2>21. CASE FailJob
      BY <2>21, <1>r DEF FailJob, LoopAt, LoopTo, FailIfActive, notLoop
    <2>22. CASE LoopRecount
      BY <2>22, <1>r DEF LoopRecount, LoopAt, notLoop
    <2>23. CASE LoopAggregate
      BY <2>23, <1>r
        DEF LoopAggregate, LoopAt, LoopStops, Recomputed, notLoop, DispatchAt,
            UnownedAt, Derive
    <2>24. CASE CompleteSkipped
      BY <2>24, <1>r
        DEF CompleteSkipped, LoopAt, LoopStops, CompleteIfRunning, notLoop
    <2> QED
      BY <1>1, <2>1, <2>2, <2>3, <2>4, <2>5, <2>6, <2>7, <2>8, <2>9, <2>10,
         <2>11, <2>12, <2>13, <2>14, <2>15, <2>16, <2>17, <2>18, <2>19, <2>20,
         <2>21, <2>22, <2>23, <2>24
        DEF LoopStep
  <1>2. ASSUME NEW j \in Transcodes, TaskStep(j) \/ LoseRunner(j) PROVE QuenchedMoves
    <2>1. CASE task[j].at \in FreeAt
      <3>1. /\ file'.status = file.status /\ file'.owner = file.owner /\ loop' = loop
            /\ task'[j].at = "none" /\ \A i \in Transcodes : i # j => task'[i] = task[i]
        BY <1>2, <2>1, FreeTask, OneTask DEF TypeOK, Files, NoTask
      <3> QED
        BY <1>q, <3>1 DEF QuenchedMoves, Quenched, Orphaned
    <2>2. CASE task[j].at \notin FreeAt
      <3> SUFFICES ASSUME Quenched PROVE Quenched'
        BY DEF QuenchedMoves
      <3>1. file.owner = j /\ j # NoJob /\ loop.at \notin DispatchAt /\ ~Orphaned
        BY <1>a, <1>q, <2>2
      <3>2. file.status = "stopped" /\ file.phase # "committing"
        BY <3>1 DEF Quenched, NoReturn, Stopped
      <3>3. loop' = loop /\ loop.job # j
        <4>1. loop.at \in ProbeAt \/ loop.at = "idle"
          BY <3>1 DEF TypeOK, LoopSteps, ProbeAt, DispatchAt, UnownedAt, ClaimedAt
        <4>2. loop.job \notin Transcodes
          BY <4>1, ProbeJobs, NoJobApart DEF LoopKnown
        <4> QED
          BY <1>2, <4>2, OneTask
      <3>4. file'.status = "stopped" \/ (file'.owner = j /\ task'[j].at = "settle")
        <4>1. task[j].at \in FinishAt => file.phase = "committing"
          BY DEF OwnerKnown
        <4> QED
          BY <1>2, <3>1, <3>2, <4>1, StoppedTask
      <3> QED
        BY <3>1, <3>3, <3>4 DEF Quenched, Orphaned
    <2> QED
      BY <2>1, <2>2
  <1>3. CASE StopWrite
    BY <1>3, <1>r DEF StopWrite, UserIdle, notUser
  <1>4. CASE RequeuePublish
    BY <1>4, <1>r, LifecycleAssumption DEF RequeuePublish, notUser, Gens
  <1>5. CASE RequeueCreate
    BY <1>5, <1>r DEF RequeueCreate, UserIdle, notUser, ProbeKnown
  <1>6. ASSUME NEW s \in Settings, Replace(s) PROVE QuenchedMoves
    BY <1>6 DEF Replace, MetHalfWay
  <1>7. CASE Remove
    BY <1>7, <1>r DEF Remove, Unsettled, notUser
  <1>8. CASE StopRead \/ (\E k \in Jobs : StopFailJob(k)) \/ RequeueRead \/
             (\E k \in Jobs : RequeueFailJob(k))
    BY <1>8 DEF StopRead, StopFailJob, RequeueRead, RequeueFailJob, notUser
  <1>9. CASE UNCHANGED vars
    BY <1>9 DEF vars
  <1> QED
    BY <1>1, <1>2, <1>3, <1>4, <1>5, <1>6, <1>7, <1>8, <1>9
      DEF Next, StopStep, RequeueStep

\* A stop fails the jobs that it found outstanding.
LEMMA StopMove == TypeOK /\ LoopKnown /\ [Next]_vars => StopMoves
  <1> SUFFICES ASSUME TypeOK, LoopKnown, [Next]_vars PROVE StopMoves
    OBVIOUS
  <1> USE DEF TypeOK, StopMoves, UserIdle
  <1>1. CASE LoopStep
    BY <1>1
      DEF LoopStep, TakeProbe, ProbeClaim, ProbeQueued, ProbeFailed,
          ProbeNoMatch, ProbeCheck, ProbeEnqueue, ProbePublish, ProbeFence,
          ProbeDone, TakeTranscode, PrepareRead, RecordCollision, ClaimFile,
          PatchJob, RollBackClaim, ValidatePrepared, Assign, NoRunnerLeft,
          Reset, FailJob, LoopRecount, LoopAggregate, CompleteSkipped, notLoop
  <1>2. ASSUME NEW j \in Transcodes, CommitStep(j) PROVE StopMoves
    BY <1>2
      DEF CommitStep, FinalizeRead, Begin, ValidateOutput, BeforeFilters,
          RunFilters, Commit, Promote, Link, JournalCommitted, Persist,
          MarkReplaced, Complete, TaskRecount, TaskAggregate, JournalCleaned,
          Unlink, Unjournal, Release, EraseJournal, Settle, Attempt, notTask
  <1>3. ASSUME NEW j \in Transcodes, AbortStep(j) PROVE StopMoves
    BY <1>3
      DEF AbortStep, StopCheck, StopClean, StopComplete, StopRelease, FailRead,
          FailClaim, FailWrite, FailTask, Recover, ReportUnrecovered, notTask
  <1>4. ASSUME NEW j \in Transcodes, LostStep(j) PROVE StopMoves
    BY <1>4
      DEF LostStep, LostRead, Retire, RequeueLost, RetireStopped, FailLostJob,
          RetireOver, notTask
  <1>5. CASE (\E j \in Transcodes : Report(j)) \/
             (\E j \in Transcodes : LoseRunner(j))
    BY <1>5 DEF Report, LoseRunner, notTask
  <1>6. CASE StopRead
    BY <1>6, ProbeJobs, JobGens
      DEF StopRead, notUser, Outstanding, Active, Files, Gens
  <1>7. CASE StopWrite
    BY <1>7 DEF StopWrite, UserIdle, notUser
  <1>8. ASSUME NEW k \in Jobs, StopFailJob(k) PROVE StopMoves
    BY <1>8 DEF StopFailJob, FailIfActive, UserIdle, notUser
  <1>9. CASE RequeueRead \/ (\E k \in Jobs : RequeueFailJob(k)) \/ RequeuePublish \/
             RequeueCreate \/ (\E s \in Settings : Replace(s)) \/ Remove
    BY <1>9
      DEF RequeueRead, RequeueFailJob, RequeuePublish, RequeueCreate, Replace,
          Remove, notUser
  <1>10. CASE UNCHANGED vars
    BY <1>10 DEF vars
  <1> QED
    BY <1>1, <1>2, <1>3, <1>4, <1>5, <1>6, <1>7, <1>8, <1>9, <1>10
      DEF Next, TaskStep, StopStep, RequeueStep

\* A job that is being handed out is failed by nobody.
LEMMA AssignedRuns ==
  TypeOK /\ LoopKnown /\ job[loop.job] = "running" /\ task[loop.job].at = "none" /\
  requeue.at # "fail" /\
  (\A k \in stop.jobs : stop.at = "fail" /\ Active(k) => k # loop.job) /\ [Next]_vars
    => (loop.at = "assign" /\ loop' = loop => job'[loop.job] = "running")
  <1> SUFFICES ASSUME TypeOK, LoopKnown, job[loop.job] = "running",
                      task[loop.job].at = "none", requeue.at # "fail",
                      (\A k \in stop.jobs : stop.at = "fail" /\ Active(k) => k # loop.job),
                      [Next]_vars
               PROVE  (loop.at = "assign" /\ loop' = loop => job'[loop.job] = "running")
    OBVIOUS
  <1>t. loop.at = "assign" => loop.job # ProbeJob(gen) /\ loop.job \in Transcodes
    BY ProbeJobs DEF TypeOK, LoopKnown, DispatchAt, ClaimedAt
  <1> USE DEF TypeOK, LoopIdle, Active
  <1>1. CASE LoopStep
    <2>1. ASSUME NEW g \in Gens, TakeProbe(g) PROVE (loop.at = "assign" /\ loop' = loop => job'[loop.job] = "running")
      BY <2>1 DEF TakeProbe, LoopAt, notLoop
    <2>2. CASE ProbeClaim
      BY <2>2 DEF ProbeClaim, LoopAt, LoopTo, notLoop
    <2>3. CASE ProbeQueued
      BY <2>3, ProbeQueuedEffect DEF OwnsProbe
    <2>4. CASE ProbeFailed
      BY <2>4 DEF ProbeFailed, LoopAt, LoopTo, OwnsProbe, notLoop
    <2>5. CASE ProbeNoMatch
      BY <2>5 DEF ProbeNoMatch, LoopAt, LoopTo, OwnsProbe, notLoop
    <2>6. CASE ProbeCheck
      BY <2>6, ProbeCheckEffect DEF OwnsProbe
    <2>7. CASE ProbeEnqueue
      BY <2>7 DEF ProbeEnqueue, LoopAt, notLoop
    <2>8. CASE ProbePublish
      BY <2>8 DEF ProbePublish, LoopAt, LoopTo, OwnsProbe, notLoop
    <2>9. CASE ProbeFence
      BY <2>9 DEF ProbeFence, LoopAt, LoopTo, notLoop
    <2>10. CASE ProbeDone
      BY <2>10 DEF ProbeDone, LoopAt, LoopStops, CompleteIfRunning, notLoop
    <2>11. ASSUME NEW j \in Transcodes, TakeTranscode(j) PROVE (loop.at = "assign" /\ loop' = loop => job'[loop.job] = "running")
      BY <2>11 DEF TakeTranscode, LoopAt, notLoop
    <2>12. CASE PrepareRead
      BY <2>12 DEF PrepareRead, LoopAt, LoopTo, Unpreparable, notLoop
    <2>13. CASE RecordCollision
      BY <2>13 DEF RecordCollision, LoopAt, LoopTo, notLoop
    <2>14. CASE ClaimFile
      BY <2>14 DEF ClaimFile, LoopAt, LoopTo, Claimed, Unpreparable, notLoop
    <2>15. CASE PatchJob
      BY <2>15 DEF PatchJob, LoopAt, LoopTo, notLoop
    <2>16. CASE RollBackClaim
      BY <2>16 DEF RollBackClaim, LoopAt, LoopTo, Released, notLoop
    <2>17. CASE ValidatePrepared
      BY <2>17
        DEF ValidatePrepared, LoopAt, LoopTo, PreparedTaskMatches, notLoop
    <2>18. CASE Assign
      BY <2>18 DEF Assign, LoopAt, LoopStops, notLoop
    <2>19. CASE NoRunnerLeft
      BY <2>19 DEF NoRunnerLeft, LoopAt, LoopTo, notLoop
    <2>20. CASE Reset
      BY <2>20 DEF Reset, LoopAt, LoopTo, LoopStops, Released, notLoop
    <2>21. CASE FailJob
      BY <2>21 DEF FailJob, LoopAt, LoopTo, FailIfActive, notLoop
    <2>22. CASE LoopRecount
      BY <2>22 DEF LoopRecount, LoopAt, notLoop
    <2>23. CASE LoopAggregate
      BY <2>23 DEF LoopAggregate, LoopAt, LoopStops, Recomputed, notLoop
    <2>24. CASE CompleteSkipped
      BY <2>24
        DEF CompleteSkipped, LoopAt, LoopStops, CompleteIfRunning, notLoop
    <2> QED
      BY <1>1, <2>1, <2>2, <2>3, <2>4, <2>5, <2>6, <2>7, <2>8, <2>9, <2>10,
         <2>11, <2>12, <2>13, <2>14, <2>15, <2>16, <2>17, <2>18, <2>19, <2>20,
         <2>21, <2>22, <2>23, <2>24
        DEF LoopStep
  <1>2. ASSUME NEW j \in Transcodes, CommitStep(j) PROVE (loop.at = "assign" /\ loop' = loop => job'[loop.job] = "running")
    <2>1. CASE FinalizeRead(j)
      BY <2>1 DEF FinalizeRead, TaskAt, TaskTo, TaskEnds, notTask
    <2>2. CASE Begin(j)
      BY <2>2 DEF Begin, TaskAt, TaskTo, Transitions, notTask
    <2>3. CASE ValidateOutput(j)
      BY <2>3 DEF ValidateOutput, TaskAt, TaskTo, Attempt, notTask
    <2>4. CASE BeforeFilters(j)
      BY <2>4 DEF BeforeFilters, TaskAt, TaskTo, TaskEnds, notTask
    <2>5. CASE RunFilters(j)
      BY <2>5 DEF RunFilters, TaskAt, TaskTo, notTask
    <2>6. CASE Commit(j)
      BY <2>6, CommitEffect
    <2>7. CASE Promote(j)
      BY <2>7 DEF Promote, TaskAt, TaskTo, Transitions, notTask
    <2>8. CASE Link(j)
      BY <2>8 DEF Link, TaskAt, TaskTo, Attempt, notTask
    <2>9. CASE JournalCommitted(j)
      BY <2>9 DEF JournalCommitted, TaskAt, TaskTo, Transitions, notTask
    <2>10. CASE Persist(j)
      BY <2>10 DEF Persist, TaskAt, TaskTo, notTask
    <2>11. CASE MarkReplaced(j)
      BY <2>11 DEF MarkReplaced, TaskAt, TaskTo, notTask
    <2>12. CASE Complete(j)
      BY <2>12 DEF Complete, TaskAt, TaskTo, CompleteIfRunning, notTask
    <2>13. CASE TaskRecount(j)
      BY <2>13 DEF TaskRecount, TaskAt, notTask
    <2>14. CASE TaskAggregate(j)
      BY <2>14 DEF TaskAggregate, TaskAt, Recomputed, notTask
    <2>15. CASE JournalCleaned(j)
      BY <2>15 DEF JournalCleaned, TaskAt, TaskTo, notTask
    <2>16. CASE Unlink(j)
      BY <2>16 DEF Unlink, TaskAt, TaskTo, notTask
    <2>17. CASE Unjournal(j)
      BY <2>17 DEF Unjournal, TaskAt, TaskTo, notTask
    <2>18. CASE Release(j)
      BY <2>18 DEF Release, TaskAt, TaskTo, Released, CanRelease, notTask
    <2>19. CASE EraseJournal(j)
      BY <2>19 DEF EraseJournal, TaskAt, TaskEnds, notTask
    <2>20. CASE Settle(j)
      BY <2>20 DEF Settle, TaskAt, TaskEnds, FailIfActive, notTask
    <2> QED
      BY <1>2, <2>1, <2>2, <2>3, <2>4, <2>5, <2>6, <2>7, <2>8, <2>9, <2>10,
         <2>11, <2>12, <2>13, <2>14, <2>15, <2>16, <2>17, <2>18, <2>19, <2>20
        DEF CommitStep
  <1>3. ASSUME NEW j \in Transcodes, AbortStep(j) PROVE (loop.at = "assign" /\ loop' = loop => job'[loop.job] = "running")
    <2>1. CASE StopCheck(j)
      BY <2>1 DEF StopCheck, TaskAt, TaskTo, TaskEnds, notTask
    <2>2. CASE StopClean(j)
      BY <2>2 DEF StopClean, TaskAt, TaskTo, notTask
    <2>3. CASE StopComplete(j)
      BY <2>3 DEF StopComplete, TaskAt, TaskTo, CompleteIfRunning, notTask
    <2>4. CASE StopRelease(j)
      BY <2>4 DEF StopRelease, TaskAt, TaskEnds, Released, notTask
    <2>5. CASE FailRead(j)
      BY <2>5 DEF FailRead, TaskAt, TaskTo, notTask
    <2>6. CASE FailClaim(j)
      BY <2>6 DEF FailClaim, TaskAt, TaskTo, Transitions, notTask
    <2>7. CASE FailWrite(j)
      BY <2>7, FailWriteEffect
    <2>8. CASE FailTask(j)
      BY <2>8 DEF FailTask, TaskAt, TaskTo, FailIfActive, notTask
    <2>9. CASE Recover(j)
      BY <2>9 DEF Recover, TaskAt, TaskTo, notTask
    <2>10. CASE ReportUnrecovered(j)
      BY <2>10 DEF ReportUnrecovered, TaskAt, TaskTo, notTask
    <2> QED
      BY <1>3, <2>1, <2>2, <2>3, <2>4, <2>5, <2>6, <2>7, <2>8, <2>9, <2>10
        DEF AbortStep
  <1>4. ASSUME NEW j \in Transcodes, LostStep(j) PROVE (loop.at = "assign" /\ loop' = loop => job'[loop.job] = "running")
    <2>1. CASE LostRead(j)
      BY <2>1 DEF LostRead, TaskAt, TaskTo, TaskEnds, BelongsTo, notTask
    <2>2. CASE Retire(j)
      BY <2>2
        DEF Retire, TaskAt, TaskTo, RetireOver, Transitions, Retired, Released,
            notTask
    <2>3. CASE RequeueLost(j)
      BY <2>3 DEF RequeueLost, TaskAt, TaskEnds, notTask
    <2>4. CASE RetireStopped(j)
      BY <2>4 DEF RetireStopped, TaskAt, TaskTo, Retired, Released, notTask
    <2>5. CASE FailLostJob(j)
      BY <2>5 DEF FailLostJob, TaskAt, TaskEnds, notTask
    <2> QED
      BY <1>4, <2>1, <2>2, <2>3, <2>4, <2>5 DEF LostStep
  <1>5. ASSUME NEW j \in Transcodes, Report(j) PROVE (loop.at = "assign" /\ loop' = loop => job'[loop.job] = "running")
    BY <1>5 DEF Report, TaskAt, notTask
  <1>6. ASSUME NEW j \in Transcodes, LoseRunner(j) PROVE (loop.at = "assign" /\ loop' = loop => job'[loop.job] = "running")
    BY <1>6 DEF LoseRunner, TaskAt, TaskTo, notTask
  <1>7. CASE StopRead
    BY <1>7, <1>t DEF StopRead, notUser
  <1>8. CASE StopWrite
    BY <1>8, <1>t DEF StopWrite, UserIdle, notUser
  <1>9. ASSUME NEW k \in Jobs, StopFailJob(k) PROVE (loop.at = "assign" /\ loop' = loop => job'[loop.job] = "running")
    BY <1>9, <1>t DEF StopFailJob, FailIfActive, UserIdle, notUser
  <1>10. CASE RequeueRead
    BY <1>10, <1>t DEF RequeueRead, Unsettled, notUser
  <1>11. ASSUME NEW k \in Jobs, RequeueFailJob(k) PROVE (loop.at = "assign" /\ loop' = loop => job'[loop.job] = "running")
    BY <1>11, <1>t DEF RequeueFailJob, FailIfActive, notUser
  <1>12. CASE RequeuePublish
    BY <1>12, <1>t DEF RequeuePublish, notUser
  <1>13. CASE RequeueCreate
      <2>1. CASE job' = [job EXCEPT ![ProbeJob(gen)] = "pending"]
        BY <1>t, <2>1
      <2>2. CASE job' = job
        BY <2>2
      <2> QED
        BY <1>13, <2>1, <2>2 DEF RequeueCreate
  <1>14. ASSUME NEW s \in Settings, Replace(s) PROVE (loop.at = "assign" /\ loop' = loop => job'[loop.job] = "running")
    BY <1>14, <1>t DEF Replace, Unsettled, notUser
  <1>15. CASE Remove
    BY <1>15, <1>t DEF Remove, Unsettled, notUser
  <1>16. CASE UNCHANGED vars
    BY <1>16 DEF vars
  <1> QED
    BY <1>1, <1>2, <1>3, <1>4, <1>5, <1>6, <1>7, <1>8, <1>9, <1>10, <1>11,
       <1>12, <1>13, <1>14, <1>15, <1>16
      DEF Next, TaskStep, StopStep, RequeueStep

\* A job that a stop is about to fail stays apart from the file.
LEMMA DoomedKept ==
  /\ TypeOK /\ LoopKnown /\ LockKnown /\ LaterJobs /\ ProbesFirst /\ LoopsJob /\ HandedOver
  /\ ProbeKnown /\ OwnerKnown /\ NoReturn /\ JournalKnown /\ ResultKnown
  /\ DoomedKnown /\ [Next]_vars
  => DoomedKnown'
  <1> SUFFICES ASSUME TypeOK, LoopKnown, LockKnown, LaterJobs, ProbesFirst, LoopsJob, HandedOver,
                      ProbeKnown, OwnerKnown, NoReturn, JournalKnown, ResultKnown, DoomedKnown,
                      [Next]_vars
               PROVE  DoomedKnown'
    OBVIOUS
  <1>a. \A j \in Transcodes : task[j].at \notin FreeAt =>
           /\ file.owner = j /\ j # NoJob /\ loop.at \notin DispatchAt
           /\ \A i \in Transcodes : i # j => task[i].at \in FreeAt
    BY Alone
  <1>b. loop.at \in DispatchAt =>
           /\ loop.job \in Transcodes /\ loop.job # NoJob
           /\ file.owner \in {NoJob, loop.job}
           /\ \A j \in Transcodes : task[j].at \in FreeAt
    BY Alone
  <1>1. /\ OwnerMoves /\ AssignMoves /\ StopMoves /\ QuenchedMoves
        /\ \A j \in Jobs : JobMoves(j)
        /\ \A j \in overtaken : j \in overtaken'
    BY OwnerMove, AssignMove, StopMove, QuenchedMove, JobsMove, OvertakenGrows
  <1>2. stop'.at = "write" => file'.owner \notin stop'.jobs
    <2> SUFFICES ASSUME stop'.at = "write" PROVE file'.owner \notin stop'.jobs
      OBVIOUS
    <2>1. CASE stop' = stop
      <3>1. lock = "stop" /\ file.owner \notin stop.jobs /\ NoJob \notin stop.jobs
        BY <2>1, JobGens DEF LockKnown, DoomedKnown, TypeOK
      <3>2. file'.owner \in {file.owner, NoJob}
        BY <3>1, ClaimFree
      <3> QED
        BY <2>1, <3>1, <3>2
    <2>2. CASE file' = file /\ file.owner \notin stop'.jobs
      BY <2>2
    <2> QED
      BY <1>1, <2>1, <2>2 DEF StopMoves
  <1>3. ASSUME NEW j \in Transcodes, j \in stop'.jobs
        PROVE  job'[j] # "none"
    <2>1. job[j] # "none"
      BY <1>1, <1>3 DEF StopMoves, DoomedKnown
    <2> QED
      BY <1>1, <2>1, JobGens DEF JobMoves
  <1>4. ASSUME NEW j \in Transcodes, j \in stop'.jobs, stop'.at = "fail",
               j \notin overtaken', job'[j] \in {"pending", "running"}
        PROVE  /\ file'.owner # j /\ Quenched'
               /\ requeue'.at = "fail" => j \in requeue'.jobs
    <2>1. CASE StopWrite /\ stop.at = "write" /\ stop'.jobs = stop.jobs
      <3>1. /\ file'.owner = file.owner /\ file'.status = "stopped"
            /\ requeue' = requeue /\ lock = "stop"
        BY <2>1 DEF StopWrite, LockKnown, TypeOK, Files
      <3>2. file.owner # j /\ requeue.at # "fail"
        BY <1>4, <2>1, <3>1 DEF DoomedKnown, LockKnown
      <3> QED
        BY <3>1, <3>2 DEF Quenched
    <2>2. CASE stop.at = "fail" /\ j \in stop.jobs
      <3>1. job[j] # "none" /\ j \in Jobs
        BY <2>2, JobGens DEF DoomedKnown
      <3>2. job[j] \in {"pending", "running"}
        <4>1. ~(loop.at = "probe-enqueue" /\ j = <<Gen(loop.job), loop.next>>)
          BY <3>1 DEF LoopsJob
        <4>2. j # ProbeJob(gen)
          BY ProbeJobs DEF TypeOK
        <4> QED
          BY <1>1, <1>4, <3>1, <4>1, <4>2 DEF JobMoves, Active
      <3>3. file.owner # j /\ Quenched /\ (requeue.at = "fail" => j \in requeue.jobs)
        BY <1>1, <1>4, <2>2, <3>2 DEF DoomedKnown, Active
      <3>4. gen' = gen
        BY <3>3, GenMove
      <3>5. file'.owner # j
        <4>1. file.owner = NoJob => file.status \in {"stopped", "missing"}
          BY <3>3 DEF Quenched, Orphaned
        <4> QED
          BY <1>1, <3>3, <4>1, NoJobApart DEF OwnerMoves, Unpreparable
      <3>6. Quenched'
        BY <1>1, <1>4, <2>2, <3>3, <3>4 DEF QuenchedMoves
      <3>7. requeue'.at = "fail" => j \in requeue'.jobs
        BY <1>4, <3>1, <3>2, <3>3, RequeueMove DEF Outstanding, Active
      <3> QED
        BY <3>5, <3>6, <3>7
    <2> QED
      BY <1>1, <1>4, <2>1, <2>2 DEF StopMoves
  <1>5. loop'.at = "assign" => job'[loop'.job] = "running" \/ loop'.job \in overtaken'
    <2> SUFFICES ASSUME loop'.at = "assign", loop'.job \notin overtaken'
                 PROVE  job'[loop'.job] = "running"
      OBVIOUS
    <2>1. CASE loop.at = "validate" /\ loop'.job = loop.job /\ PreparedTaskMatches
      BY <2>1, ValidateKeepsJob DEF PreparedTaskMatches
    <2>2. CASE loop.at = "assign" /\ loop' = loop
      <3>1. /\ job[loop.job] = "running" /\ file.owner = loop.job
            /\ loop.job \in Transcodes /\ task[loop.job].at = "none"
        BY <1>1, <2>2 DEF DoomedKnown, OwnerKnown, ClaimedAt, LoopKnown, HandedOver, DispatchAt
      <3>2. \A k \in stop.jobs : stop.at = "fail" /\ Active(k) => k # loop.job
        BY <1>1, <2>2, <3>1 DEF DoomedKnown
      <3>3. requeue.at # "fail"
        BY <3>1, NoJobApart DEF ProbeKnown
      <3> QED
        BY <2>2, <3>1, <3>2, <3>3, AssignedRuns
    <2> QED
      BY <1>1, <2>1, <2>2 DEF AssignMoves
  <1> QED
    BY <1>2, <1>3, <1>4, <1>5 DEF DoomedKnown, Active

-----------------------------------------------------------------------------
(***************************************************************************)
(* Types.                                                                  *)
(***************************************************************************)
\* The type invariant in parts: a step changes few of them.
FileTyped ==
    /\ file \in Files
    /\ file.owner = NoJob <=> file.phase = "none"

JobTyped  == job \in [Jobs -> {"none", "pending", "running", "done", "failed"}]
LoopTyped == loop \in [at : LoopSteps, job : Jobs \union {NoJob}, left : SUBSET Settings,
                       next : Settings \union {NoSetting}, listed : BOOLEAN]
TaskTyped == task \in [Transcodes -> [at : TaskSteps, res : Results,
                                      kept : BOOLEAN, listed : BOOLEAN]]
UsersTyped ==
    /\ gen \in Gens
    /\ lock \in {"free", "stop", "requeue", "loop", "task"}
    /\ losses \in 0..MaxLosses
    /\ stop \in [at : {"idle", "write", "fail"}, jobs : SUBSET Jobs]
    /\ requeue \in [at : {"idle", "fail", "create"}, jobs : SUBSET Jobs]
    /\ overtaken \subseteq Jobs


\* Jobs only take statuses of a job.
LEMMA JobTypeKept == TypeOK /\ LoopKnown /\ [Next]_vars => JobTyped'
  <1> SUFFICES ASSUME TypeOK, LoopKnown, [Next]_vars PROVE JobTyped'
    OBVIOUS
  <1> USE DEF TypeOK, JobTyped
  <1>1. CASE LoopStep
    <2>1. ASSUME NEW g \in Gens, TakeProbe(g) PROVE JobTyped'
      BY <2>1, ProbeJobs DEF TakeProbe, LoopAt, notLoop
    <2>2. CASE ProbeEnqueue
      BY <2>2 DEF ProbeEnqueue, LoopAt, notLoop
    <2>3. CASE ProbeFence
      BY <2>3 DEF ProbeFence, LoopAt, LoopTo, notLoop
    <2>4. CASE ProbeDone
      BY <2>4 DEF ProbeDone, LoopAt, LoopStops, CompleteIfRunning, notLoop
    <2>5. ASSUME NEW j \in Transcodes, TakeTranscode(j) PROVE JobTyped'
      BY <2>5 DEF TakeTranscode, LoopAt, notLoop
    <2>6. CASE Reset
      BY <2>6 DEF Reset, LoopAt, LoopTo, LoopStops, Released, notLoop
    <2>7. CASE FailJob
      BY <2>7 DEF FailJob, LoopAt, LoopTo, FailIfActive, notLoop
    <2>8. CASE CompleteSkipped
      BY <2>8
        DEF CompleteSkipped, LoopAt, LoopStops, CompleteIfRunning, notLoop
    <2>9. CASE ProbeClaim \/ ProbeQueued \/ ProbeFailed \/ ProbeNoMatch \/ ProbeCheck \/
               ProbePublish \/ PrepareRead \/ RecordCollision \/ ClaimFile \/ PatchJob \/
               RollBackClaim \/ ValidatePrepared \/ Assign \/ NoRunnerLeft \/
               LoopRecount \/ LoopAggregate
      BY <2>9
        DEF ProbeClaim, ProbeQueued, ProbeFailed, ProbeNoMatch, ProbeCheck,
            ProbePublish, PrepareRead, RecordCollision, ClaimFile, PatchJob,
            RollBackClaim, ValidatePrepared, Assign, NoRunnerLeft, LoopRecount,
            LoopAggregate, notLoop
    <2> QED
      BY <1>1, <2>1, <2>2, <2>3, <2>4, <2>5, <2>6, <2>7, <2>8, <2>9
        DEF LoopStep
  <1>2. ASSUME NEW j \in Transcodes, CommitStep(j) PROVE JobTyped'
    <2>1. CASE Complete(j)
      BY <2>1 DEF Complete, TaskAt, TaskTo, CompleteIfRunning, notTask
    <2>2. CASE Settle(j)
      BY <2>2 DEF Settle, TaskAt, TaskEnds, FailIfActive, notTask
    <2>3. CASE FinalizeRead(j) \/ Begin(j) \/ ValidateOutput(j) \/ BeforeFilters(j) \/
               RunFilters(j) \/ Commit(j) \/ Promote(j) \/ Link(j) \/
               JournalCommitted(j) \/ Persist(j) \/ MarkReplaced(j) \/
               TaskRecount(j) \/ TaskAggregate(j) \/ JournalCleaned(j) \/ Unlink(j) \/
               Unjournal(j) \/ Release(j) \/ EraseJournal(j)
      BY <2>3
        DEF FinalizeRead, Begin, ValidateOutput, Attempt, BeforeFilters,
            RunFilters, Commit, Promote, Link, JournalCommitted, Persist,
            MarkReplaced, TaskRecount, TaskAggregate, JournalCleaned, Unlink,
            Unjournal, Release, EraseJournal, notTask
    <2> QED
      BY <1>2, <2>1, <2>2, <2>3 DEF CommitStep
  <1>3. ASSUME NEW j \in Transcodes, AbortStep(j) PROVE JobTyped'
    <2>1. CASE StopComplete(j)
      BY <2>1 DEF StopComplete, TaskAt, TaskTo, CompleteIfRunning, notTask
    <2>2. CASE FailTask(j)
      BY <2>2 DEF FailTask, TaskAt, TaskTo, FailIfActive, notTask
    <2>3. CASE StopCheck(j) \/ StopClean(j) \/ StopRelease(j) \/ FailRead(j) \/
               FailClaim(j) \/ FailWrite(j) \/ Recover(j) \/ ReportUnrecovered(j)
      BY <2>3
        DEF StopCheck, StopClean, StopRelease, FailRead, FailClaim, FailWrite,
            Recover, ReportUnrecovered, notTask
    <2> QED
      BY <1>3, <2>1, <2>2, <2>3 DEF AbortStep
  <1>4. ASSUME NEW j \in Transcodes, LostStep(j) PROVE JobTyped'
    <2>1. CASE RequeueLost(j)
      BY <2>1 DEF RequeueLost, TaskAt, TaskEnds, notTask
    <2>2. CASE FailLostJob(j)
      BY <2>2 DEF FailLostJob, TaskAt, TaskEnds, notTask
    <2>3. CASE LostRead(j) \/ Retire(j) \/ RetireStopped(j)
      BY <2>3 DEF LostRead, Retire, RetireOver, RetireStopped, notTask
    <2> QED
      BY <1>4, <2>1, <2>2, <2>3 DEF LostStep
  <1>5. CASE (\E j \in Transcodes : Report(j)) \/
             (\E j \in Transcodes : LoseRunner(j))
    BY <1>5 DEF Report, LoseRunner, notTask
  <1>6. ASSUME NEW k \in Jobs, StopFailJob(k) PROVE JobTyped'
    BY <1>6 DEF StopFailJob, FailIfActive, UserIdle, notUser
  <1>7. ASSUME NEW k \in Jobs, RequeueFailJob(k) PROVE JobTyped'
    BY <1>7 DEF RequeueFailJob, FailIfActive, notUser
  <1>8. CASE RequeueCreate
    BY <1>8, ProbeJobs DEF RequeueCreate, UserIdle, notUser
  <1>9. CASE StopRead \/ StopWrite \/ RequeueRead \/ RequeuePublish \/
             (\E s \in Settings : Replace(s)) \/ Remove
    BY <1>9
      DEF StopRead, StopWrite, RequeueRead, RequeuePublish, Replace, Remove,
          notUser
  <1>10. CASE UNCHANGED vars
    BY <1>10 DEF vars
  <1> QED
    BY <1>1, <1>2, <1>3, <1>4, <1>5, <1>6, <1>7, <1>8, <1>9, <1>10
      DEF Next, TaskStep, StopStep, RequeueStep

\* The queue loop stays at one of its steps.
LEMMA LoopTypeKept == TypeOK /\ LoopKnown /\ [Next]_vars => LoopTyped'
  <1> SUFFICES ASSUME TypeOK, LoopKnown, [Next]_vars PROVE LoopTyped'
    OBVIOUS
  <1> USE DEF TypeOK, LoopTyped, LoopSteps, LoopIdle
  <1>1. CASE LoopStep
    <2>1. ASSUME NEW g \in Gens, TakeProbe(g) PROVE LoopTyped'
      BY <2>1, ProbeJobs DEF TakeProbe, LoopAt, notLoop
    <2>2. CASE ProbeClaim
      BY <2>2 DEF ProbeClaim, LoopAt, LoopTo, notLoop
    <2>3. CASE ProbeQueued
      <3>1. CASE LoopTo("probe-done")
        BY <3>1 DEF LoopTo
      <3>2. ASSUME NEW at \in {"probe-nomatch", "probe-check"}, NEW matching \in SUBSET Settings,
                   loop' = [loop EXCEPT !.at = at, !.left = matching]
            PROVE  LoopTyped'
        BY <3>2
      <3> QED
        BY <2>3, <3>1, <3>2 DEF ProbeQueued
    <2>4. CASE ProbeFailed
      BY <2>4 DEF ProbeFailed, LoopAt, LoopTo, OwnsProbe, notLoop
    <2>5. CASE ProbeNoMatch
      BY <2>5 DEF ProbeNoMatch, LoopAt, LoopTo, OwnsProbe, notLoop
    <2>6. CASE ProbeCheck
      <3>1. ASSUME NEW s \in loop.left,
                   loop' = [loop EXCEPT !.at = "probe-enqueue", !.next = s, !.left = @ \ {s}]
            PROVE  LoopTyped'
        BY <3>1
      <3>2. CASE loop' = [loop EXCEPT !.at = "probe-publish", !.left = {}]
        BY <3>2
      <3> QED
        BY <2>6, <3>1, <3>2 DEF ProbeCheck
    <2>7. CASE ProbeEnqueue
      BY <2>7 DEF ProbeEnqueue, LoopAt, notLoop
    <2>8. CASE ProbePublish
      BY <2>8 DEF ProbePublish, LoopAt, LoopTo, OwnsProbe, notLoop
    <2>9. CASE ProbeFence
      BY <2>9 DEF ProbeFence, LoopAt, LoopTo, notLoop
    <2>10. CASE ProbeDone
      BY <2>10 DEF ProbeDone, LoopAt, LoopStops, CompleteIfRunning, notLoop
    <2>11. ASSUME NEW j \in Transcodes, TakeTranscode(j) PROVE LoopTyped'
      BY <2>11, JobGens DEF TakeTranscode, LoopAt, notLoop
    <2>12. CASE PrepareRead
      BY <2>12 DEF PrepareRead, LoopAt, LoopTo, Unpreparable, notLoop
    <2>13. CASE RecordCollision
      BY <2>13 DEF RecordCollision, LoopAt, LoopTo, notLoop
    <2>14. CASE ClaimFile
      BY <2>14 DEF ClaimFile, LoopAt, LoopTo, Claimed, Unpreparable, notLoop
    <2>15. CASE PatchJob
      BY <2>15 DEF PatchJob, LoopAt, LoopTo, notLoop
    <2>16. CASE RollBackClaim
      BY <2>16 DEF RollBackClaim, LoopAt, LoopTo, Released, notLoop
    <2>17. CASE ValidatePrepared
      BY <2>17
        DEF ValidatePrepared, LoopAt, LoopTo, PreparedTaskMatches, notLoop
    <2>18. CASE Assign
      BY <2>18 DEF Assign, LoopAt, LoopStops, notLoop
    <2>19. CASE NoRunnerLeft
      BY <2>19 DEF NoRunnerLeft, LoopAt, LoopTo, notLoop
    <2>20. CASE Reset
      <3>1. LoopStops \/ LoopTo("fail")
        BY <2>20 DEF Reset
      <3>2. CASE LoopStops
        BY <3>2 DEF LoopStops
      <3>3. CASE LoopTo("fail")
        BY <3>3 DEF LoopTo
      <3> QED
        BY <3>1, <3>2, <3>3
    <2>21. CASE FailJob
      BY <2>21 DEF FailJob, LoopAt, LoopTo, FailIfActive, notLoop
    <2>22. CASE LoopRecount
      <3>1. OthersActive(NoJob) \in BOOLEAN
        BY DEF OthersActive
      <3> QED
        BY <2>22, <3>1 DEF LoopRecount, LoopAt, notLoop
    <2>23. CASE LoopAggregate
      BY <2>23 DEF LoopAggregate, LoopAt, LoopStops, Recomputed, notLoop
    <2>24. CASE CompleteSkipped
      BY <2>24
        DEF CompleteSkipped, LoopAt, LoopStops, CompleteIfRunning, notLoop
    <2> QED
      BY <1>1, <2>1, <2>2, <2>3, <2>4, <2>5, <2>6, <2>7, <2>8, <2>9, <2>10,
         <2>11, <2>12, <2>13, <2>14, <2>15, <2>16, <2>17, <2>18, <2>19, <2>20,
         <2>21, <2>22, <2>23, <2>24
        DEF LoopStep
  <1>2. ASSUME NEW j \in Transcodes, CommitStep(j) PROVE LoopTyped'
    BY <1>2
      DEF CommitStep, FinalizeRead, Begin, ValidateOutput, BeforeFilters,
          RunFilters, Commit, Promote, Link, JournalCommitted, Persist,
          MarkReplaced, Complete, TaskRecount, TaskAggregate, JournalCleaned,
          Unlink, Unjournal, Release, EraseJournal, Settle, Attempt, notTask
  <1>3. ASSUME NEW j \in Transcodes, AbortStep(j) PROVE LoopTyped'
    BY <1>3
      DEF AbortStep, StopCheck, StopClean, StopComplete, StopRelease, FailRead,
          FailClaim, FailWrite, FailTask, Recover, ReportUnrecovered, notTask
  <1>4. ASSUME NEW j \in Transcodes, LostStep(j) PROVE LoopTyped'
    BY <1>4
      DEF LostStep, LostRead, Retire, RequeueLost, RetireStopped, FailLostJob,
          RetireOver, notTask
  <1>5. CASE (\E j \in Transcodes : Report(j)) \/
             (\E j \in Transcodes : LoseRunner(j))
    BY <1>5 DEF Report, LoseRunner, notTask
  <1>6. CASE StopRead \/ StopWrite \/ (\E k \in Jobs : StopFailJob(k)) \/
             RequeueRead \/ (\E k \in Jobs : RequeueFailJob(k)) \/ RequeuePublish \/
             RequeueCreate \/ (\E s \in Settings : Replace(s)) \/ Remove
    BY <1>6
      DEF StopRead, StopWrite, StopFailJob, RequeueRead, RequeueFailJob,
          RequeuePublish, RequeueCreate, Replace, Remove, notUser
  <1>7. CASE UNCHANGED vars
    BY <1>7 DEF vars
  <1> QED
    BY <1>1, <1>2, <1>3, <1>4, <1>5, <1>6, <1>7
      DEF Next, TaskStep, StopStep, RequeueStep

\* A task that moves on, or ends, is at a step again.
LEMMA TaskEdits ==
  ASSUME TypeOK, NEW j \in Transcodes
  PROVE  /\ TaskEnds(j) => TaskTyped'
         /\ \A at \in TaskSteps : TaskTo(j, at) => TaskTyped'
         /\ \A at \in TaskSteps : \A listed \in BOOLEAN :
               task' = [task EXCEPT ![j].at = at, ![j].listed = listed] => TaskTyped'
  <1>1. TaskEnds(j) => TaskTyped'
    <2>1. NoTask \in [at : TaskSteps, res : Results, kept : BOOLEAN, listed : BOOLEAN]
      BY DEF NoTask, TaskSteps, Results
    <2> QED
      BY <2>1 DEF TypeOK, TaskTyped, TaskEnds
  <1>2. ASSUME NEW at \in TaskSteps, TaskTo(j, at) PROVE TaskTyped'
    BY <1>2 DEF TypeOK, TaskTyped, TaskTo
  <1>3. ASSUME NEW at \in TaskSteps, NEW listed \in BOOLEAN,
               task' = [task EXCEPT ![j].at = at, ![j].listed = listed]
        PROVE  TaskTyped'
    BY <1>3 DEF TypeOK, TaskTyped
  <1> QED
    BY <1>1, <1>2, <1>3


\* Every task stays at one of its steps.
LEMMA TaskTypeKept == TypeOK /\ LoopKnown /\ [Next]_vars => TaskTyped'
  <1> SUFFICES ASSUME TypeOK, LoopKnown, [Next]_vars PROVE TaskTyped'
    OBVIOUS
  <1> USE DEF TypeOK, TaskTyped, TaskSteps, Results, NoTask
  <1>1. CASE LoopStep
    <2>1. CASE Assign
      BY <2>1
        DEF Assign, LoopAt, LoopStops, notLoop, LoopKnown, DispatchAt,
            ClaimedAt
    <2>2. CASE (\E g \in Gens : TakeProbe(g)) \/ ProbeClaim \/ ProbeQueued \/
               ProbeFailed \/ ProbeNoMatch \/ ProbeCheck \/ ProbeEnqueue \/
               ProbePublish \/ ProbeFence \/ ProbeDone \/
               (\E j \in Transcodes : TakeTranscode(j)) \/ PrepareRead \/
               RecordCollision \/ ClaimFile \/ PatchJob \/ RollBackClaim \/
               ValidatePrepared \/ NoRunnerLeft \/ Reset \/ FailJob \/ LoopRecount \/
               LoopAggregate \/ CompleteSkipped
      BY <2>2
        DEF TakeProbe, ProbeClaim, ProbeQueued, ProbeFailed, ProbeNoMatch,
            ProbeCheck, ProbeEnqueue, ProbePublish, ProbeFence, ProbeDone,
            TakeTranscode, PrepareRead, RecordCollision, ClaimFile, PatchJob,
            RollBackClaim, ValidatePrepared, NoRunnerLeft, Reset, FailJob,
            LoopRecount, LoopAggregate, CompleteSkipped, notLoop
    <2> QED
      BY <1>1, <2>1, <2>2 DEF LoopStep
  <1>2. ASSUME NEW j \in Transcodes, CommitStep(j) PROVE TaskTyped'
    <2>1. CASE FinalizeRead(j)
      <3>1. TaskEnds(j) \/ TaskTo(j, "settle") \/ TaskTo(j, "fail-read") \/ TaskTo(j, "stop-clean") \/ TaskTo(j, "begin")
        BY <2>1 DEF FinalizeRead
      <3> QED
        BY <3>1, TaskEdits DEF TaskSteps
    <2>2. CASE Begin(j)
      BY <2>2 DEF Begin, TaskAt, TaskTo, Transitions, notTask
    <2>3. CASE ValidateOutput(j)
      BY <2>3 DEF ValidateOutput, TaskAt, TaskTo, Attempt, notTask
    <2>4. CASE BeforeFilters(j)
      <3>1. TaskEnds(j) \/ TaskTo(j, "stop-clean") \/ TaskTo(j, "filter")
        BY <2>4 DEF BeforeFilters
      <3> QED
        BY <3>1, TaskEdits DEF TaskSteps
    <2>5. CASE RunFilters(j)
      BY <2>5 DEF RunFilters, TaskAt, TaskTo, notTask
    <2>6. CASE Commit(j)
      <3>1. \/ TaskTo(j, "link") \/ TaskTo(j, "promote")
            \/ TaskTo(j, "persist") \/ TaskTo(j, "stop-check")
        BY <2>6 DEF Commit, CommitUnlessStopped
      <3> QED
        BY <3>1, TaskEdits DEF TaskSteps
    <2>7. CASE Promote(j)
      BY <2>7 DEF Promote, TaskAt, TaskTo, Transitions, notTask
    <2>8. CASE Link(j)
      BY <2>8 DEF Link, TaskAt, TaskTo, Attempt, notTask
    <2>9. CASE JournalCommitted(j)
      BY <2>9 DEF JournalCommitted, TaskAt, TaskTo, Transitions, notTask
    <2>10. CASE Persist(j)
      BY <2>10 DEF Persist, TaskAt, TaskTo, notTask
    <2>11. CASE MarkReplaced(j)
      BY <2>11 DEF MarkReplaced, TaskAt, TaskTo, notTask
    <2>12. CASE Complete(j)
      BY <2>12 DEF Complete, TaskAt, TaskTo, CompleteIfRunning, notTask
    <2>13. CASE TaskRecount(j)
      <3>1. OthersActive(j) \in BOOLEAN
        BY DEF OthersActive
      <3> QED
        BY <2>13, <3>1, TaskEdits DEF TaskRecount
    <2>14. CASE TaskAggregate(j)
      BY <2>14 DEF TaskAggregate, TaskAt, Recomputed, notTask
    <2>15. CASE JournalCleaned(j)
      BY <2>15 DEF JournalCleaned, TaskAt, TaskTo, notTask
    <2>16. CASE Unlink(j)
      BY <2>16 DEF Unlink, TaskAt, TaskTo, notTask
    <2>17. CASE Unjournal(j)
      BY <2>17 DEF Unjournal, TaskAt, TaskTo, notTask
    <2>18. CASE Release(j)
      BY <2>18 DEF Release, TaskAt, TaskTo, Released, CanRelease, notTask
    <2>19. CASE EraseJournal(j)
      BY <2>19 DEF EraseJournal, TaskAt, TaskEnds, notTask
    <2>20. CASE Settle(j)
      BY <2>20 DEF Settle, TaskAt, TaskEnds, FailIfActive, notTask
    <2> QED
      BY <1>2, <2>1, <2>2, <2>3, <2>4, <2>5, <2>6, <2>7, <2>8, <2>9, <2>10,
         <2>11, <2>12, <2>13, <2>14, <2>15, <2>16, <2>17, <2>18, <2>19, <2>20
        DEF CommitStep
  <1>3. ASSUME NEW j \in Transcodes, AbortStep(j) PROVE TaskTyped'
    <2>1. CASE StopCheck(j)
      <3>1. TaskEnds(j) \/ TaskTo(j, "stop-clean")
        BY <2>1 DEF StopCheck
      <3> QED
        BY <3>1, TaskEdits DEF TaskSteps
    <2>2. CASE StopClean(j)
      <3>1. TaskTo(j, "stop-complete")
        BY <2>2 DEF StopClean
      <3> QED
        BY <3>1, TaskEdits DEF TaskSteps
    <2>3. CASE StopComplete(j)
      BY <2>3 DEF StopComplete, TaskAt, TaskTo, CompleteIfRunning, notTask
    <2>4. CASE StopRelease(j)
      BY <2>4 DEF StopRelease, TaskAt, TaskEnds, Released, notTask
    <2>5. CASE FailRead(j)
      BY <2>5 DEF FailRead, TaskAt, TaskTo, notTask
    <2>6. CASE FailClaim(j)
      BY <2>6 DEF FailClaim, TaskAt, TaskTo, Transitions, notTask
    <2>7. CASE FailWrite(j)
      <3>1. CASE TaskTo(j, "settle")
        BY <3>1, TaskEdits DEF TaskSteps
      <3>2. ASSUME NEW kept \in BOOLEAN,
                   task' = [task EXCEPT ![j].at = "fail-job", ![j].res = "failed",
                                        ![j].kept = kept]
            PROVE  TaskTyped'
        <4>1. "fail-job" \in TaskSteps /\ "failed" \in Results
          OBVIOUS
        <4> HIDE DEF TaskSteps, Results
        <4> QED
          BY <3>2, <4>1
      <3> QED
        BY <2>7, <3>1, <3>2 DEF FailWrite
    <2>8. CASE FailTask(j)
      BY <2>8 DEF FailTask, TaskAt, TaskTo, FailIfActive, notTask
    <2>9. CASE Recover(j)
      BY <2>9 DEF Recover, TaskAt, TaskTo, notTask
    <2>10. CASE ReportUnrecovered(j)
      BY <2>10 DEF ReportUnrecovered, TaskAt, TaskTo, notTask
    <2> QED
      BY <1>3, <2>1, <2>2, <2>3, <2>4, <2>5, <2>6, <2>7, <2>8, <2>9, <2>10
        DEF AbortStep
  <1>4. ASSUME NEW j \in Transcodes, LostStep(j) PROVE TaskTyped'
    <2>1. CASE LostRead(j)
      <3>1. TaskEnds(j) \/ TaskTo(j, "lost-job") \/ TaskTo(j, "retire") \/ TaskTo(j, "retire-failed")
        BY <2>1 DEF LostRead
      <3> QED
        BY <3>1, TaskEdits DEF TaskSteps
    <2>2. CASE Retire(j)
      BY <2>2
        DEF Retire, TaskAt, TaskTo, RetireOver, Transitions, Retired, Released,
            notTask
    <2>3. CASE RequeueLost(j)
      BY <2>3 DEF RequeueLost, TaskAt, TaskEnds, notTask
    <2>4. CASE RetireStopped(j)
      <3>1. TaskTo(j, "lost-job")
        BY <2>4 DEF RetireStopped
      <3> QED
        BY <3>1, TaskEdits DEF TaskSteps
    <2>5. CASE FailLostJob(j)
      BY <2>5 DEF FailLostJob, TaskAt, TaskEnds, notTask
    <2> QED
      BY <1>4, <2>1, <2>2, <2>3, <2>4, <2>5 DEF LostStep
  <1>5. ASSUME NEW j \in Transcodes, Report(j) PROVE TaskTyped'
    <2>1. PICK res \in {"ok", "failed", "cancelled"} :
             task' = [task EXCEPT ![j].at = "finalize", ![j].res = res]
      BY <1>5 DEF Report
    <2>2. res \in Results /\ "finalize" \in TaskSteps
      OBVIOUS
    <2> HIDE DEF TaskSteps, Results
    <2> QED
      BY <2>1, <2>2
  <1>6. ASSUME NEW j \in Transcodes, LoseRunner(j) PROVE TaskTyped'
    BY <1>6 DEF LoseRunner, TaskAt, TaskTo, notTask
  <1>7. CASE StopRead \/ StopWrite \/ (\E k \in Jobs : StopFailJob(k)) \/
             RequeueRead \/ (\E k \in Jobs : RequeueFailJob(k)) \/ RequeuePublish \/
             RequeueCreate \/ (\E s \in Settings : Replace(s)) \/ Remove
    BY <1>7
      DEF StopRead, StopWrite, StopFailJob, RequeueRead, RequeueFailJob,
          RequeuePublish, RequeueCreate, Replace, Remove, notUser
  <1>8. CASE UNCHANGED vars
    BY <1>8 DEF vars
  <1> QED
    BY <1>1, <1>2, <1>3, <1>4, <1>5, <1>6, <1>7, <1>8
      DEF Next, TaskStep, StopStep, RequeueStep

\* Generations, losses, stops and requeues stay in their range.
LEMMA UserTypeKept == TypeOK /\ ProbeKnown /\ [Next]_vars => UsersTyped'
  <1> SUFFICES ASSUME TypeOK, ProbeKnown, [Next]_vars PROVE UsersTyped'
    OBVIOUS
  <1> USE DEF TypeOK, UsersTyped
  <1>1. CASE LoopStep
    <2>1. CASE LoopRecount
      BY <2>1 DEF LoopRecount, LoopAt, notLoop
    <2>2. CASE LoopAggregate
      BY <2>2 DEF LoopAggregate, LoopAt, LoopStops, Recomputed, notLoop
    <2>3. CASE (\E g \in Gens : TakeProbe(g)) \/ ProbeClaim \/ ProbeQueued \/
               ProbeFailed \/ ProbeNoMatch \/ ProbeCheck \/ ProbeEnqueue \/
               ProbePublish \/ ProbeFence \/ ProbeDone \/
               (\E j \in Transcodes : TakeTranscode(j)) \/ PrepareRead \/
               RecordCollision \/ ClaimFile \/ PatchJob \/ RollBackClaim \/
               ValidatePrepared \/ Assign \/ NoRunnerLeft \/ Reset \/ FailJob \/
               CompleteSkipped
      BY <2>3
        DEF TakeProbe, ProbeClaim, ProbeQueued, ProbeFailed, ProbeNoMatch,
            ProbeCheck, ProbeEnqueue, ProbePublish, ProbeFence, ProbeDone,
            TakeTranscode, PrepareRead, RecordCollision, ClaimFile, PatchJob,
            RollBackClaim, ValidatePrepared, Assign, NoRunnerLeft, Reset,
            FailJob, CompleteSkipped, notLoop
    <2> QED
      BY <1>1, <2>1, <2>2, <2>3 DEF LoopStep
  <1>2. ASSUME NEW j \in Transcodes, CommitStep(j) PROVE UsersTyped'
    <2>1. CASE TaskRecount(j)
      BY <2>1 DEF TaskRecount, TaskAt, notTask
    <2>2. CASE TaskAggregate(j)
      BY <2>2 DEF TaskAggregate, TaskAt, Recomputed, notTask
    <2>3. CASE FinalizeRead(j) \/ Begin(j) \/ ValidateOutput(j) \/ BeforeFilters(j) \/
               RunFilters(j) \/ Commit(j) \/ Promote(j) \/ Link(j) \/
               JournalCommitted(j) \/ Persist(j) \/ MarkReplaced(j) \/ Complete(j) \/
               JournalCleaned(j) \/ Unlink(j) \/ Unjournal(j) \/ Release(j) \/
               EraseJournal(j) \/ Settle(j)
      BY <2>3
        DEF FinalizeRead, Begin, ValidateOutput, Attempt, BeforeFilters,
            RunFilters, Commit, Promote, Link, JournalCommitted, Persist,
            MarkReplaced, Complete, JournalCleaned, Unlink, Unjournal, Release,
            EraseJournal, Settle, notTask
    <2> QED
      BY <1>2, <2>1, <2>2, <2>3 DEF CommitStep
  <1>3. ASSUME NEW j \in Transcodes, AbortStep(j) PROVE UsersTyped'
    BY <1>3
      DEF AbortStep, StopCheck, StopClean, StopComplete, StopRelease, FailRead,
          FailClaim, FailWrite, FailTask, Recover, ReportUnrecovered, notTask
  <1>4. ASSUME NEW j \in Transcodes, LostStep(j) PROVE UsersTyped'
    BY <1>4
      DEF LostStep, LostRead, Retire, RequeueLost, RetireStopped, FailLostJob,
          RetireOver, notTask
  <1>5. ASSUME NEW j \in Transcodes, LoseRunner(j) PROVE UsersTyped'
    BY <1>5, LifecycleAssumption DEF LoseRunner, TaskAt, TaskTo, notTask
  <1>6. CASE (\E j \in Transcodes : Report(j))
    BY <1>6 DEF Report, notTask
  <1>7. CASE StopRead
    BY <1>7, ProbeJobs, JobGens, LifecycleAssumption
      DEF StopRead, notUser, Outstanding, Files, ProbeKnown
  <1>8. CASE StopWrite
    BY <1>8 DEF StopWrite, UserIdle, notUser
  <1>9. ASSUME NEW k \in Jobs, StopFailJob(k) PROVE UsersTyped'
    BY <1>9 DEF StopFailJob, FailIfActive, UserIdle, notUser
  <1>10. CASE RequeueRead
    BY <1>10 DEF RequeueRead, Unsettled, notUser, Outstanding
  <1>11. ASSUME NEW k \in Jobs, RequeueFailJob(k) PROVE UsersTyped'
    BY <1>11 DEF RequeueFailJob, FailIfActive, notUser
  <1>12. CASE RequeuePublish
    BY <1>12, LifecycleAssumption DEF RequeuePublish, notUser, Gens, ProbeKnown
  <1>13. CASE RequeueCreate
    BY <1>13 DEF RequeueCreate, UserIdle, notUser
  <1>14. CASE (\E s \in Settings : Replace(s)) \/ Remove
    BY <1>14 DEF Replace, MetHalfWay, Remove, notUser
  <1>15. CASE UNCHANGED vars
    BY <1>15 DEF vars
  <1> QED
    BY <1>1, <1>2, <1>3, <1>4, <1>5, <1>6, <1>7, <1>8, <1>9, <1>10, <1>11,
       <1>12, <1>13, <1>14, <1>15
      DEF Next, TaskStep, StopStep, RequeueStep

\* The document keeps the types of its fields, and has a phase when it has an
\* owner.
LEMMA FileTypeKept ==
  TypeOK /\ LoopKnown /\ OwnerKnown /\ ProbeKnown /\ JournalKnown /\ [Next]_vars
    => FileTyped'
  <1> SUFFICES ASSUME TypeOK, LoopKnown, OwnerKnown, ProbeKnown, JournalKnown,
                      [Next]_vars
               PROVE  FileTyped'
    OBVIOUS
  <1>d. /\ NoJournal \in Journals
        /\ \A j \in Transcodes : [job |-> j, phase |-> "prepared"] \in Journals
        /\ \A n \in Journals \ {NoJournal} :
              \A p \in {"promoting", "committed", "cleaned"} : [n EXCEPT !.phase = p] \in Journals
    BY DEF Journals, NoJournal
  <1>g. /\ 0 \in 0..MaxGens /\ \A g \in Gens : g \in 0..MaxGens
        /\ gen < MaxGens => gen + 1 \in 0..MaxGens
        /\ NoResults \in [Settings -> Outcomes]
    BY LifecycleAssumption DEF Gens, NoResults, Outcomes, TypeOK
  <1>l. /\ loop.at \in ProbeAt => Gen(loop.job) \in Gens
        /\ loop.at \in DispatchAt =>
              loop.job \in Transcodes /\ loop.job # NoJob /\ Setting(loop.job) \in Settings
    BY JobGens, ProbeJobs DEF LoopKnown
  <1>t. ASSUME NEW j \in Transcodes
        PROVE  /\ j # NoJob /\ Setting(j) \in Settings
               /\ task[j].at \in {"commit", "promote", "committed"} => file.journal.job = j
               /\ task[j].at = "persist" => task[j].res \in Outcomes
               /\ task[j].at = "clean" => file.journal # NoJournal
               /\ file.journal.job = j => file.journal # NoJournal
    <2>1. TaskKnown(j) /\ j # NoJob /\ Setting(j) \in Settings
      BY JobGens DEF JournalKnown
    <2> QED
      BY <2>1 DEF TaskKnown, JournaledAt, NoJournal, Outcomes
  <1> USE DEF TypeOK, FileTyped, Files, Statuses, Phases, Outcomes
  <1>1. CASE LoopStep
    <2>1. CASE ProbeClaim
      <3>1. CASE file' = file
        BY <3>1
      <3>2. CASE file' = [file EXCEPT !.probe = Gen(loop.job)]
        <4>1. Gen(loop.job) \in 0..MaxGens
          BY <2>1, <1>l, <1>g DEF ProbeClaim, LoopAt, ProbeAt
        <4> QED
          BY <3>2, <4>1
      <3> QED
        BY <2>1, <3>1, <3>2 DEF ProbeClaim
    <2>2. CASE ProbeQueued
      <3>1. file' = file \/ file' = [file EXCEPT !.status = "queued"]
        BY <2>2 DEF ProbeQueued
      <3> QED
        BY <3>1
    <2>3. CASE ProbeFailed
      BY <2>3, <1>g DEF ProbeFailed, LoopAt, LoopTo, OwnsProbe, notLoop
    <2>4. CASE ProbeNoMatch
      BY <2>4, <1>g DEF ProbeNoMatch, LoopAt, LoopTo, OwnsProbe, notLoop
    <2>5. CASE ProbePublish
      BY <2>5, <1>g DEF ProbePublish, LoopAt, LoopTo, OwnsProbe, notLoop
    <2>6. CASE RecordCollision
      BY <2>6, <1>l
        DEF RecordCollision, LoopAt, LoopTo, notLoop, DispatchAt, UnownedAt,
            Stopped
    <2>7. CASE ClaimFile
      <3>1. CASE file' = file
        BY <3>1
      <3>2. CASE file' = Claimed(file, loop.job)
        <4>1. loop.job \in Transcodes /\ loop.job # NoJob
          BY <2>7, <1>l DEF ClaimFile, LoopAt, DispatchAt, UnownedAt
        <4>2. [job |-> loop.job, phase |-> "prepared"] \in Journals
          BY <4>1, <1>d
        <4> QED
          BY <3>2, <4>1, <4>2 DEF Claimed
      <3> QED
        BY <2>7, <3>1, <3>2 DEF ClaimFile
    <2>8. CASE RollBackClaim
      BY <2>8, <1>d
        DEF RollBackClaim, LoopAt, LoopTo, Released, notLoop, Stopped
    <2>9. CASE Reset
      BY <2>9, <1>d
        DEF Reset, LoopAt, LoopTo, LoopStops, Released, notLoop, Stopped
    <2>10. CASE LoopAggregate
      BY <2>10
        DEF LoopAggregate, LoopAt, LoopStops, Recomputed, notLoop, Derive
    <2>11. CASE (\E g \in Gens : TakeProbe(g)) \/ ProbeCheck \/ ProbeEnqueue \/
                ProbeFence \/ ProbeDone \/
                (\E j \in Transcodes : TakeTranscode(j)) \/ PrepareRead \/
                PatchJob \/ ValidatePrepared \/ Assign \/ NoRunnerLeft \/ FailJob \/
                LoopRecount \/ CompleteSkipped
      BY <2>11
        DEF TakeProbe, ProbeCheck, ProbeEnqueue, ProbeFence, ProbeDone,
            TakeTranscode, PrepareRead, PatchJob, ValidatePrepared, Assign,
            NoRunnerLeft, FailJob, LoopRecount, CompleteSkipped, notLoop
    <2> QED
      BY <1>1, <2>1, <2>2, <2>3, <2>4, <2>5, <2>6, <2>7, <2>8, <2>9, <2>10,
         <2>11
        DEF LoopStep
  <1>2. ASSUME NEW j \in Transcodes, CommitStep(j) PROVE FileTyped'
    <2>1. CASE Begin(j)
      BY <2>1, <1>t DEF Begin, TaskAt, TaskTo, Transitions, notTask
    <2>2. CASE Commit(j)
      <3>1. TaskAt(j, "commit")
        BY <2>2 DEF Commit
      <3>2. CASE Transitions(j, TRUE)
        <4>1. file.journal \in Journals \ {NoJournal} /\ file.owner = j /\ j # NoJob
          BY <3>1, <3>2, <1>t DEF TaskAt, Transitions
        <4>2. [file.journal EXCEPT !.phase = IF task[j].res = "replaced" THEN "promoting" ELSE @]
                \in Journals
          <5>1. [file.journal EXCEPT !.phase = "promoting"] \in Journals
            BY <4>1, <1>d
          <5>2. [file.journal EXCEPT !.phase = @] \in Journals
            BY <4>1 DEF Journals
          <5> QED
            BY <5>1, <5>2
        <4>3. file' = [file EXCEPT !.phase = "committing",
                                   !.journal.phase = IF task[j].res = "replaced"
                                                     THEN "promoting" ELSE @]
          BY <2>2, <3>2 DEF Commit, CommitUnlessStopped
        <4> QED
          BY <4>1, <4>2, <4>3
      <3>3. CASE ~Transitions(j, TRUE)
        BY <2>2, <3>3 DEF Commit, CommitUnlessStopped
      <3> QED
        BY <3>2, <3>3
    <2>3. CASE Promote(j)
      <3>1. CASE Transitions(j, TRUE)
        <4>1. file.journal \in Journals \ {NoJournal}
          BY <2>3, <3>1, <1>t DEF Promote, TaskAt
        <4>2. [file.journal EXCEPT !.phase = "promoting"] \in Journals
          BY <4>1, <1>d
        <4>3. file' = [file EXCEPT !.journal.phase = "promoting"]
          BY <2>3, <3>1 DEF Promote
        <4> QED
          BY <4>2, <4>3
      <3>2. CASE ~Transitions(j, TRUE)
        BY <2>3, <3>2 DEF Promote
      <3> QED
        BY <3>1, <3>2
    <2>4. CASE JournalCommitted(j)
      <3>1. CASE Transitions(j, FALSE)
        <4>1. file.journal \in Journals \ {NoJournal}
          BY <2>4, <3>1, <1>t DEF JournalCommitted, TaskAt
        <4>2. [file.journal EXCEPT !.phase = "committed"] \in Journals
          BY <4>1, <1>d
        <4>3. file' = [file EXCEPT !.journal.phase = "committed"]
          BY <2>4, <3>1 DEF JournalCommitted
        <4> QED
          BY <4>2, <4>3
      <3>2. CASE ~Transitions(j, FALSE)
        BY <2>4, <3>2 DEF JournalCommitted
      <3> QED
        BY <3>1, <3>2
    <2>5. CASE Persist(j)
      <3>1. TaskAt(j, "persist") =>
              task[j].res \in Outcomes /\ Setting(j) \in Settings
        BY <1>t DEF TaskAt
      <3>2. CASE file' = file
        BY <3>2
      <3>3. CASE file' = [file EXCEPT !.results[Setting(j)] = task[j].res]
        BY <2>5, <3>1, <3>3 DEF Persist
      <3> QED
        BY <2>5, <3>2, <3>3 DEF Persist
    <2>6. CASE MarkReplaced(j)
      BY <2>6 DEF MarkReplaced, TaskAt, TaskTo, notTask
    <2>7. CASE TaskAggregate(j)
      BY <2>7 DEF TaskAggregate, TaskAt, Recomputed, notTask, Derive
    <2>8. CASE JournalCleaned(j)
      BY <2>8, <1>t, <1>d DEF JournalCleaned, TaskAt, TaskTo, notTask
    <2>9. CASE Unjournal(j)
      BY <2>9, <1>d DEF Unjournal, TaskAt, TaskTo, notTask
    <2>10. CASE Release(j)
      <3>1. CASE file' = file
        BY <3>1
      <3>2. CASE file' = Released(file)
        BY <3>2 DEF Released
      <3> QED
        BY <2>10, <3>1, <3>2 DEF Release
    <2>11. CASE EraseJournal(j)
      BY <2>11, <1>d DEF EraseJournal, TaskAt, TaskEnds, notTask
    <2>12. CASE FinalizeRead(j) \/ ValidateOutput(j) \/ BeforeFilters(j) \/
                RunFilters(j) \/ Link(j) \/ Complete(j) \/ TaskRecount(j) \/ Unlink(j) \/
                Settle(j)
      BY <2>12
        DEF FinalizeRead, ValidateOutput, Attempt, BeforeFilters, RunFilters,
            Link, Complete, TaskRecount, Unlink, Settle, notTask
    <2> QED
      BY <1>2, <2>1, <2>2, <2>3, <2>4, <2>5, <2>6, <2>7, <2>8, <2>9, <2>10,
         <2>11, <2>12
        DEF CommitStep
  <1>3. ASSUME NEW j \in Transcodes, AbortStep(j) PROVE FileTyped'
    <2>1. CASE StopClean(j)
      <3>1. PICK journal \in {NoJournal, file.journal} :
               file' = IF file.owner # j THEN file
                       ELSE [file EXCEPT !.status = "stopped", !.cancelled = FALSE,
                                         !.journal = journal]
        BY <2>1 DEF StopClean
      <3> QED
        BY <3>1, <1>d
    <2>2. CASE StopRelease(j)
      BY <2>2 DEF StopRelease, TaskAt, TaskEnds, Released, notTask
    <2>3. CASE FailClaim(j)
      BY <2>3, <1>t DEF FailClaim, TaskAt, TaskTo, Transitions, notTask
    <2>4. CASE FailWrite(j)
      <3>1. ASSUME NEW journal \in {file.journal, NoJournal},
                   file' = [file EXCEPT !.results[Setting(j)] = "failed", !.journal = journal]
            PROVE  FileTyped'
        BY <1>t, <1>d, <3>1
      <3>2. CASE file' = file
        BY <3>2
      <3>3. ASSUME NEW kept \in BOOLEAN
            PROVE  (IF kept THEN file.journal ELSE NoJournal) \in {file.journal, NoJournal}
        OBVIOUS
      <3> QED
        BY <2>4, <3>1, <3>2, <3>3 DEF FailWrite
    <2>5. CASE ReportUnrecovered(j)
      BY <2>5 DEF ReportUnrecovered, TaskAt, TaskTo, notTask
    <2>6. CASE StopCheck(j) \/ StopComplete(j) \/ FailRead(j) \/ FailTask(j) \/
               Recover(j)
      BY <2>6 DEF StopCheck, StopComplete, FailRead, FailTask, Recover, notTask
    <2> QED
      BY <1>3, <2>1, <2>2, <2>3, <2>4, <2>5, <2>6 DEF AbortStep
  <1>4. ASSUME NEW j \in Transcodes, LostStep(j) PROVE FileTyped'
    <2>1. CASE Retire(j)
      <3>1. CASE file' = file
        BY <3>1
      <3>2. \A status \in {"queued", "failed"} :
               file' = Retired(file, status) => FileTyped'
        BY <1>d DEF Retired, Released
      <3> QED
        BY <2>1, <3>1, <3>2 DEF Retire, RetireOver
    <2>2. CASE RetireStopped(j)
      BY <2>2, <1>d
        DEF RetireStopped, TaskAt, TaskTo, Retired, Released, notTask
    <2>3. CASE LostRead(j) \/ RequeueLost(j) \/ FailLostJob(j)
      BY <2>3 DEF LostRead, RequeueLost, FailLostJob, notTask
    <2> QED
      BY <1>4, <2>1, <2>2, <2>3 DEF LostStep
  <1>5. CASE (\E j \in Transcodes : Report(j)) \/
             (\E j \in Transcodes : LoseRunner(j))
    BY <1>5 DEF Report, LoseRunner, notTask
  <1>6. CASE StopWrite
    BY <1>6, <1>g DEF StopWrite, UserIdle, notUser
  <1>7. CASE RequeuePublish
    BY <1>7, <1>d, <1>g DEF RequeuePublish, notUser, ProbeKnown
  <1>8. CASE RequeueCreate
    <2>1. file' = file \/ file' = [file EXCEPT !.status = "failed", !.probe = 0]
      BY <1>8 DEF RequeueCreate
    <2> QED
      BY <2>1, <1>g
  <1>9. ASSUME NEW s \in Settings, Replace(s) PROVE FileTyped'
    BY <1>9 DEF Replace, Unsettled, notUser
  <1>10. CASE Remove
    BY <1>10, <1>g DEF Remove, Unsettled, notUser
  <1>11. CASE StopRead \/ (\E k \in Jobs : StopFailJob(k)) \/ RequeueRead \/
              (\E k \in Jobs : RequeueFailJob(k))
    BY <1>11 DEF StopRead, StopFailJob, RequeueRead, RequeueFailJob, notUser
  <1>12. CASE UNCHANGED vars
    BY <1>12 DEF vars
  <1> QED
    BY <1>1, <1>2, <1>3, <1>4, <1>5, <1>6, <1>7, <1>8, <1>9, <1>10, <1>11,
       <1>12
      DEF Next, TaskStep, StopStep, RequeueStep

-----------------------------------------------------------------------------
(***************************************************************************)
(* An acknowledged stop.                                                   *)
(***************************************************************************)
\* What a step leaves of an acknowledged stop.
StopKeeps ==
    file.status = "stopped" =>
       \/ file'.status \in {"stopped", "failed"} /\ file'.results = file.results
       \/ file'.status = "pending" /\ gen' = gen + 1
       \/ file'.status = "missing"
       \/ \E s \in Settings : Replace(s)


\* A stop is kept by every step.
LEMMA StopKept ==
  TypeOK /\ LoopKnown /\ OwnerKnown /\ NoReturn /\ [Next]_vars
    => StopKeeps
  <1> SUFFICES ASSUME TypeOK, LoopKnown, OwnerKnown, NoReturn, [Next]_vars
               PROVE  StopKeeps
    OBVIOUS
  <1> USE DEF TypeOK, StopKeeps, Files
  <1>1. CASE LoopStep
    <2>1. CASE ProbeClaim
      BY <2>1 DEF ProbeClaim, LoopAt, LoopTo, notLoop
    <2>2. CASE ProbeQueued
      BY <2>2, ProbeQueuedEffect DEF OwnsProbe
    <2>3. CASE ProbeFailed
      BY <2>3 DEF ProbeFailed, LoopAt, LoopTo, OwnsProbe, notLoop
    <2>4. CASE ProbeNoMatch
      BY <2>4 DEF ProbeNoMatch, LoopAt, LoopTo, OwnsProbe, notLoop
    <2>5. CASE ProbePublish
      BY <2>5 DEF ProbePublish, LoopAt, LoopTo, OwnsProbe, notLoop
    <2>6. CASE RecordCollision
      BY <2>6 DEF RecordCollision, LoopAt, LoopTo, notLoop, Stopped
    <2>7. CASE ClaimFile
      BY <2>7 DEF ClaimFile, LoopAt, LoopTo, Claimed, Unpreparable, notLoop
    <2>8. CASE RollBackClaim
      BY <2>8 DEF RollBackClaim, LoopAt, LoopTo, Released, notLoop, Stopped
    <2>9. CASE Reset
      BY <2>9 DEF Reset, LoopAt, LoopTo, LoopStops, Released, notLoop, Stopped
    <2>10. CASE LoopAggregate
      BY <2>10
        DEF LoopAggregate, LoopAt, LoopStops, Recomputed, notLoop, Derive
    <2>11. CASE (\E g \in Gens : TakeProbe(g)) \/ ProbeCheck \/ ProbeEnqueue \/
                ProbeFence \/ ProbeDone \/
                (\E j \in Transcodes : TakeTranscode(j)) \/ PrepareRead \/
                PatchJob \/ ValidatePrepared \/ Assign \/ NoRunnerLeft \/ FailJob \/
                LoopRecount \/ CompleteSkipped
      BY <2>11
        DEF TakeProbe, ProbeCheck, ProbeEnqueue, ProbeFence, ProbeDone,
            TakeTranscode, PrepareRead, PatchJob, ValidatePrepared, Assign,
            NoRunnerLeft, FailJob, LoopRecount, CompleteSkipped, notLoop
    <2> QED
      BY <1>1, <2>1, <2>2, <2>3, <2>4, <2>5, <2>6, <2>7, <2>8, <2>9, <2>10,
         <2>11
        DEF LoopStep
  <1>2. ASSUME NEW j \in Transcodes, CommitStep(j) PROVE StopKeeps
    <2>1. CASE Begin(j)
      BY <2>1 DEF Begin, TaskAt, TaskTo, Transitions, notTask, Stopped
    <2>2. CASE Commit(j)
      BY <2>2, CommitEffect DEF Stopped
    <2>3. CASE Promote(j)
      BY <2>3 DEF Promote, TaskAt, TaskTo, Transitions, notTask, Stopped
    <2>4. CASE JournalCommitted(j)
      BY <2>4 DEF JournalCommitted, TaskAt, TaskTo, Transitions, notTask
    <2>5. CASE Persist(j)
      BY <2>5
        DEF Persist, TaskAt, TaskTo, notTask, OwnerKnown, FreeAt, FinishAt,
            NoReturn, Stopped
    <2>6. CASE MarkReplaced(j)
      BY <2>6
        DEF MarkReplaced, TaskAt, TaskTo, notTask, OwnerKnown, FreeAt,
            FinishAt, NoReturn, Stopped
    <2>7. CASE TaskAggregate(j)
      BY <2>7 DEF TaskAggregate, TaskAt, Recomputed, notTask, Derive
    <2>8. CASE JournalCleaned(j)
      BY <2>8 DEF JournalCleaned, TaskAt, TaskTo, notTask
    <2>9. CASE Unjournal(j)
      BY <2>9 DEF Unjournal, TaskAt, TaskTo, notTask
    <2>10. CASE Release(j)
      BY <2>10 DEF Release, TaskAt, TaskTo, Released, CanRelease, notTask
    <2>11. CASE EraseJournal(j)
      BY <2>11 DEF EraseJournal, TaskAt, TaskEnds, notTask
    <2>12. CASE FinalizeRead(j) \/ ValidateOutput(j) \/ BeforeFilters(j) \/
                RunFilters(j) \/ Link(j) \/ Complete(j) \/ TaskRecount(j) \/ Unlink(j) \/
                Settle(j)
      BY <2>12
        DEF FinalizeRead, ValidateOutput, Attempt, BeforeFilters, RunFilters,
            Link, Complete, TaskRecount, Unlink, Settle, notTask
    <2> QED
      BY <1>2, <2>1, <2>2, <2>3, <2>4, <2>5, <2>6, <2>7, <2>8, <2>9, <2>10,
         <2>11, <2>12
        DEF CommitStep
  <1>3. ASSUME NEW j \in Transcodes, AbortStep(j) PROVE StopKeeps
    <2>1. CASE StopClean(j)
      BY <2>1 DEF StopClean, TaskAt, TaskTo, notTask
    <2>2. CASE StopRelease(j)
      BY <2>2 DEF StopRelease, TaskAt, TaskEnds, Released, notTask
    <2>3. CASE FailClaim(j)
      BY <2>3 DEF FailClaim, TaskAt, TaskTo, Transitions, notTask, Stopped
    <2>4. CASE FailWrite(j)
      BY <2>4, FailWriteEffect DEF NoReturn, Stopped
    <2>5. CASE ReportUnrecovered(j)
      BY <2>5 DEF ReportUnrecovered, TaskAt, TaskTo, notTask
    <2>6. CASE StopCheck(j) \/ StopComplete(j) \/ FailRead(j) \/ FailTask(j) \/
               Recover(j)
      BY <2>6 DEF StopCheck, StopComplete, FailRead, FailTask, Recover, notTask
    <2> QED
      BY <1>3, <2>1, <2>2, <2>3, <2>4, <2>5, <2>6 DEF AbortStep
  <1>4. ASSUME NEW j \in Transcodes, LostStep(j) PROVE StopKeeps
    <2>1. CASE Retire(j)
      BY <2>1
        DEF Retire, TaskAt, TaskTo, RetireOver, Transitions, Retired, Released,
            notTask, Stopped
    <2>2. CASE RetireStopped(j)
      BY <2>2 DEF RetireStopped, TaskAt, TaskTo, Retired, Released, notTask
    <2>3. CASE LostRead(j) \/ RequeueLost(j) \/ FailLostJob(j)
      BY <2>3 DEF LostRead, RequeueLost, FailLostJob, notTask
    <2> QED
      BY <1>4, <2>1, <2>2, <2>3 DEF LostStep
  <1>5. CASE (\E j \in Transcodes : Report(j)) \/
             (\E j \in Transcodes : LoseRunner(j))
    BY <1>5 DEF Report, LoseRunner, notTask
  <1>6. CASE StopWrite
    BY <1>6 DEF StopWrite, UserIdle, notUser
  <1>7. CASE RequeuePublish
    BY <1>7 DEF RequeuePublish, notUser
  <1>8. CASE RequeueCreate
    BY <1>8 DEF RequeueCreate, UserIdle, notUser
  <1>9. ASSUME NEW s \in Settings, Replace(s) PROVE StopKeeps
    BY <1>9 DEF Replace, Unsettled, notUser
  <1>10. CASE Remove
    BY <1>10 DEF Remove, Unsettled, notUser
  <1>11. CASE StopRead \/ (\E k \in Jobs : StopFailJob(k)) \/ RequeueRead \/
              (\E k \in Jobs : RequeueFailJob(k))
    BY <1>11 DEF StopRead, StopFailJob, RequeueRead, RequeueFailJob, notUser
  <1>12. CASE UNCHANGED vars
    BY <1>12 DEF vars
  <1> QED
    BY <1>1, <1>2, <1>3, <1>4, <1>5, <1>6, <1>7, <1>8, <1>9, <1>10, <1>11,
       <1>12
      DEF Next, TaskStep, StopStep, RequeueStep

-----------------------------------------------------------------------------
(***************************************************************************)
(* The inductive invariant.                                                *)
(***************************************************************************)
\* Every step keeps every field, job and task within its type.
LEMMA TypeKept ==
  TypeOK /\ LoopKnown /\ OwnerKnown /\ ProbeKnown /\ JournalKnown /\ [Next]_vars => TypeOK'
  <1> SUFFICES ASSUME TypeOK, LoopKnown, OwnerKnown, ProbeKnown, JournalKnown, [Next]_vars
               PROVE  TypeOK'
    OBVIOUS
  <1>1. FileTyped' /\ JobTyped' /\ LoopTyped' /\ TaskTyped' /\ UsersTyped'
    BY FileTypeKept, JobTypeKept, LoopTypeKept, TaskTypeKept, UserTypeKept
  <1> QED
    BY <1>1 DEF TypeOK, FileTyped, JobTyped, LoopTyped, TaskTyped, UsersTyped

\* The parts about the file, its jobs and its results.
LifecycleInv ==
    /\ TypeOK /\ LoopKnown /\ LockKnown /\ LaterJobs /\ ProbesFirst /\ LoopsJob
    /\ HandedOver /\ ProbeKnown /\ Probed /\ OwnerKnown /\ NoReturn /\ CancelKnown
    /\ JournalKnown /\ EraseAlone /\ OldKnown /\ CurrentKnown /\ ResultKnown /\ StatusKnown

\* With those about what is in somebody's hands.
HandedInv == LifecycleInv /\ RunningKnown /\ DoomedKnown

\* At the start there is a file to be probed, its probe job, and nobody at work.
LEMMA InitFacts ==
  ASSUME Init
  PROVE  /\ file.status = "pending" /\ file.owner = NoJob /\ file.phase = "none"
         /\ file.cancelled = FALSE /\ file.probe = 1 /\ file.journal = NoJournal
         /\ file.results = NoResults /\ gen = 1 /\ lock = "free"
         /\ loop.at = "idle" /\ loop.job = NoJob /\ losses = 0
         /\ stop.at = "idle" /\ stop.jobs = {} /\ requeue.at = "idle" /\ requeue.jobs = {}
         /\ \A j \in Transcodes : task[j] = NoTask /\ task[j].at = "none"
         /\ \A j \in Jobs : job[j] \in {"none", "pending"}
         /\ \A j \in Transcodes : job[j] = "none"
         /\ \A j \in Jobs : Gen(j) > 1 => job[j] = "none"
  <1>1. \A j \in Transcodes : j \in Jobs /\ j # ProbeJob(1)
    BY LifecycleAssumption, ProbeJobs, JobGens DEF Gens
  <1>2. \A j \in Jobs : Gen(j) > 1 => j # ProbeJob(1)
    BY LifecycleAssumption, ProbeJobs DEF Gens
  <1> QED
    BY <1>1, <1>2 DEF Init, LoopIdle, UserIdle, NoTask

\* The initial state is well typed ...
LEMMA InitType == Init => TypeOK
  <1> SUFFICES ASSUME Init PROVE TypeOK
    OBVIOUS
  <1>1. file \in Files
    <2>1. 1 \in 0..MaxGens /\ NoResults \in [Settings -> Outcomes] /\ NoJournal \in Journals
      BY LifecycleAssumption DEF NoResults, Outcomes, Journals
    <2> QED
      BY <2>1 DEF Init, Files, Statuses, Phases
  <1>2. job \in [Jobs -> {"none", "pending", "running", "done", "failed"}]
    BY DEF Init
  <1>3. gen \in Gens /\ losses \in 0..MaxLosses
    BY LifecycleAssumption DEF Init, Gens
  <1>4. loop \in [at : LoopSteps, job : Jobs \union {NoJob}, left : SUBSET Settings,
                  next : Settings \union {NoSetting}, listed : BOOLEAN]
    BY DEF Init, LoopIdle, LoopSteps
  <1>5. task \in [Transcodes -> [at : TaskSteps, res : Results,
                                 kept : BOOLEAN, listed : BOOLEAN]]
    BY DEF Init, NoTask, TaskSteps, Results
  <1>6. /\ stop \in [at : {"idle", "write", "fail"}, jobs : SUBSET Jobs]
        /\ requeue \in [at : {"idle", "fail", "create"}, jobs : SUBSET Jobs]
        /\ overtaken \subseteq Jobs
    BY DEF Init, UserIdle
  <1> QED
    BY <1>1, <1>2, <1>3, <1>4, <1>5, <1>6, InitFacts DEF TypeOK

\* ... and satisfies every part of the invariant.
LEMMA InitInv == Init => LifecycleInv
  <1> SUFFICES ASSUME Init PROVE LifecycleInv
    OBVIOUS
  <1> USE InitFacts
  <1>1. TypeOK
    BY InitType
  <1>2. LoopKnown /\ LockKnown
    BY DEF LoopKnown, LockKnown, ProbeAt, DispatchAt, UnownedAt, ClaimedAt
  <1>3. LaterJobs
    BY DEF LaterJobs
  <1>4. ProbesFirst
    BY TranscodeJobs DEF ProbesFirst, Unqueued
  <1>5. LoopsJob
    BY DEF LoopsJob
  <1>6. HandedOver
    BY DEF HandedOver, DispatchAt, UnownedAt, ClaimedAt
  <1>7. ProbeKnown
    BY DEF ProbeKnown
  <1>8. Probed
    BY DEF Probed, ProbedAt, EnqueueAt
  <1>9. OwnerKnown
    BY DEF OwnerKnown, UnownedAt, ClaimedAt, FreeAt, FinishAt
  <1>10. NoReturn /\ CancelKnown
    BY DEF NoReturn, CancelKnown
  <1>11. JournalKnown
    <2>1. \A j \in Transcodes : TaskKnown(j)
      BY DEF TaskKnown, JournaledAt
    <2> QED
      BY <2>1 DEF JournalKnown, ClaimedAt
  <1>12. EraseAlone
    BY DEF EraseAlone
  <1>13. OldKnown
    <2>1. \A j \in Jobs : ~(Gen(j) < gen)
      BY JobGens DEF Gens
    <2> QED
      BY <2>1 DEF OldKnown, Outstanding
  <1>14. CurrentKnown
    BY DEF CurrentKnown, FreeAt, DispatchAt, UnownedAt, ClaimedAt
  <1>15. ResultKnown
    BY DEF ResultKnown, ProbingAt, EnqueueAt, NoResults, UnrecordedAt
  <1>16. StatusKnown
    <2>1. \A j \in Transcodes : StatusOf(j)
      BY DEF StatusOf, ShownAt
    <2> QED
      BY <2>1 DEF StatusKnown, Shown
  <1> QED
    BY <1>1, <1>2, <1>3, <1>4, <1>5, <1>6, <1>7, <1>8, <1>9, <1>10, <1>11, <1>12, <1>13,
       <1>14, <1>15, <1>16 DEF LifecycleInv

\* Every step keeps the invariant: each part with the parts its own lemma asks for.
LEMMA InvKept == LifecycleInv /\ [Next]_vars => LifecycleInv'
  <1> SUFFICES ASSUME LifecycleInv, [Next]_vars PROVE LifecycleInv'
    OBVIOUS
  <1>1. /\ TypeOK /\ LoopKnown /\ LockKnown /\ LaterJobs /\ ProbesFirst /\ LoopsJob
        /\ HandedOver /\ ProbeKnown /\ Probed /\ OwnerKnown /\ NoReturn /\ CancelKnown
        /\ JournalKnown /\ EraseAlone /\ OldKnown /\ CurrentKnown /\ ResultKnown
        /\ StatusKnown
    BY DEF LifecycleInv
  <1>2. TypeOK' /\ CurrentKnown'
    BY <1>1, TypeKept, CurrentKept
  <1>3. ResultKnown'
    BY <1>1, <1>2, ResultKept
  <1>4. StatusKnown'
    BY <1>1, StatusKept
  <1>5. /\ LoopKnown' /\ LockKnown' /\ LaterJobs' /\ ProbesFirst' /\ LoopsJob'
        /\ HandedOver'
    BY <1>1, LoopKept, LockKept, LaterKept, ProbesKept, LoopsJobKept, HandedKept
  <1>6. /\ ProbeKnown' /\ Probed' /\ OwnerKnown' /\ NoReturn' /\ CancelKnown'
    BY <1>1, ProbeKept, ProbedKept, OwnerKept, ReturnKept, CancelKept
  <1>7. JournalKnown' /\ EraseAlone' /\ OldKnown'
    BY <1>1, JournalKept, EraseKept, OldKept
  <1> QED
    BY <1>2, <1>3, <1>4, <1>5, <1>6, <1>7 DEF LifecycleInv

\* The invariant holds in every reachable state.
THEOREM Lifecycle == Spec => []LifecycleInv
  <1> QED
    BY InitInv, InvKept, PTL DEF Spec

\* The type invariant.
THEOREM TypeCorrect == Spec => []TypeOK
  <1>1. LifecycleInv => TypeOK
    BY DEF LifecycleInv
  <1> QED
    BY <1>1, Lifecycle, PTL

\* When a requeue publishes a generation, every job of an older one has ended, or
\* is one that the probe handler inside of the queue loop is still to fence
\* (mutations.js requeue, probe.js 129-139).
THEOREM OldGenerationsEnd == Spec => []OldGenerationEnds
  <1>1. ASSUME LifecycleInv PROVE OldGenerationEnds
    <2>1. ASSUME NEW j \in Outstanding, Gen(j) < gen PROVE loop.job = ProbeJob(Gen(j))
      <3>1. Enqueued(j)
        BY <1>1, <2>1 DEF LifecycleInv, OldKnown
      <3> QED
        BY <3>1 DEF Enqueued
    <2> QED
      BY <2>1 DEF OldGenerationEnds
  <1> QED
    BY <1>1, Lifecycle, PTL

\* With no work left an unowned file shows the aggregate of its results, however
\* the jobs ended and whoever recounted in between (recomputeFileStatus).
THEOREM StatusIsDerived == Spec => []QuiescentStatusDerived
  <1>1. ASSUME LifecycleInv PROVE QuiescentStatusDerived
    <2>1. Quiescent /\ file.owner = NoJob => Shown
      BY <1>1 DEF LifecycleInv, StatusKnown, FailAt, Quiescent, LoopIdle
    <2> QED
      BY <2>1 DEF Shown, QuiescentStatusDerived
  <1> QED
    BY <1>1, Lifecycle, PTL

\* An acknowledged stop outlives every interleaving with the queue loop, a
\* finalization and a recovery (mutations.js stop, processing.js transitionOwner).
THEOREM StopsHold == Spec => StopHolds
  <1>1. LifecycleInv /\ [Next]_vars => [StopKeeps]_vars
    BY StopKept DEF LifecycleInv
  <1>2. [StopKeeps]_vars <=>
          [file.status = "stopped" =>
             \/ file'.status \in {"stopped", "failed"} /\ file'.results = file.results
             \/ file'.status = "pending" /\ gen' = gen + 1
             \/ file'.status = "missing"
             \/ \E s \in Settings : Replace(s)]_vars
    BY DEF StopKeeps
  <1> QED
    BY <1>1, <1>2, Lifecycle, PTL DEF Spec, StopHolds

\* A result is written by the job that owns the file, past its point of no return,
\* with no stop acknowledged, although the upsert itself checks nothing (results.js).
THEOREM ResultsByOwner == Spec => ResultWrittenByCommittingOwner
  <1> DEFINE Written == \A s \in Settings :
               file'.results[s] \in {"done", "rejected"} /\ file.results[s] # file'.results[s] =>
                  /\ file.owner \in Transcodes /\ Setting(file.owner) = s
                  /\ file.phase = "committing"
                  /\ ~Stopped(file)
  <1>1. LifecycleInv /\ [Next]_vars => [Written]_vars
    <2> SUFFICES ASSUME LifecycleInv, [Next]_vars, NEW s \in Settings,
                        file'.results[s] \in {"done", "rejected"},
                        file.results[s] # file'.results[s]
                 PROVE  /\ file.owner \in Transcodes /\ Setting(file.owner) = s
                        /\ file.phase = "committing"
                        /\ ~Stopped(file)
      OBVIOUS
    <2>1. ResultMoves(s)
      BY ResultsMove DEF LifecycleInv
    <2>2. /\ file.owner \in Transcodes /\ Setting(file.owner) = s
          /\ task[file.owner].at \in {"persist", "fail-write"}
      BY <2>1 DEF ResultMoves
    <2>3. file.phase = "committing"
      BY <2>2 DEF LifecycleInv, OwnerKnown, FinishAt
    <2> QED
      BY <2>2, <2>3 DEF LifecycleInv, NoReturn
  <1> QED
    BY <1>1, Lifecycle, PTL DEF Spec, ResultWrittenByCommittingOwner

-----------------------------------------------------------------------------
(***************************************************************************)
(* What is in somebody's hands.  The jobs that a replace met half way are  *)
(* known by the history variable overtaken, and for no other is anything   *)
(* left out.                                                               *)
(***************************************************************************)
LEMMA InitHanded == Init => HandedInv
  <1> SUFFICES ASSUME Init PROVE HandedInv
    OBVIOUS
  <1> USE InitFacts
  <1>1. RunningKnown
    BY DEF RunningKnown, RunningJobIsHeld, EndedAt
  <1>2. DoomedKnown
    BY DEF DoomedKnown
  <1> QED
    BY <1>1, <1>2, InitInv DEF HandedInv

\* Every step keeps all of the parts, a replace by the user too.
LEMMA HandedKeeps == HandedInv /\ [Next]_vars => HandedInv'
  <1> SUFFICES ASSUME HandedInv, [Next]_vars PROVE HandedInv'
    OBVIOUS
  <1>1. LifecycleInv'
    BY InvKept DEF HandedInv
  <1>2. /\ TypeOK /\ LoopKnown /\ LockKnown /\ LaterJobs /\ ProbesFirst /\ LoopsJob
        /\ HandedOver /\ ProbeKnown /\ OwnerKnown /\ NoReturn /\ JournalKnown /\ OldKnown
        /\ ResultKnown /\ RunningKnown /\ DoomedKnown
    BY DEF HandedInv, LifecycleInv
  <1>3. RunningKnown'
    BY <1>2, RunningKept
  <1>4. DoomedKnown'
    BY <1>2, DoomedKept
  <1> QED
    BY <1>1, <1>3, <1>4 DEF HandedInv

\* ... so that they hold in every reachable state.
THEOREM Handed == Spec => []HandedInv
  <1>1. HandedInv /\ [Next]_vars => HandedInv'
    BY HandedKeeps
  <1> QED
    BY <1>1, InitHanded, PTL DEF Spec

\* No interleaving of stop, requeue, removal, reset and recovery leaves a running
\* job in nobody's hands, and a replace only a job that it met between a claim's
\* read and the claim or the reset, or on a stop's list (dispatch.js, recovery.js,
\* inbound.js).
THEOREM RunningJobsAreHeld == Spec => []RunningJobIsHeld
  <1>1. HandedInv => RunningJobIsHeld
    BY DEF HandedInv, RunningKnown
  <1> QED
    BY <1>1, Handed, PTL

\* A runner is handed only a job of the latest generation that owns the file,
\* whatever a stop, a requeue, a removal and a replace did while the job was being
\* prepared, and one that runs, unless a replace met it half way
\* (validatePreparedTask).
THEOREM HandedJobsAreCurrent == Spec => OnlyCurrentGenerationRuns
  <1> DEFINE Runs == \A j \in Transcodes :
                       task[j].at = "none" /\ task'[j].at = "exec" =>
                          Gen(j) = gen /\ file.owner = j /\ (job[j] = "running" \/ j \in overtaken)
  <1>1. HandedInv /\ [Next]_vars => [Runs]_vars
    <2> SUFFICES ASSUME HandedInv, [Next]_vars, NEW j \in Transcodes,
                        task[j].at = "none", task'[j].at = "exec"
                 PROVE  /\ Gen(j) = gen /\ file.owner = j
                        /\ job[j] = "running" \/ j \in overtaken
      OBVIOUS
    <2>1. TypeOK /\ OwnerKnown /\ CurrentKnown /\ DoomedKnown
      BY DEF HandedInv, LifecycleInv
    <2>2. loop.at = "assign" /\ loop.job = j
      BY <2>1, FreeTaskMove DEF FreeAt, NoTask
    <2> QED
      BY <2>1, <2>2 DEF OwnerKnown, ClaimedAt, CurrentKnown, DoomedKnown
  <1> QED
    BY <1>1, Handed, PTL DEF Spec, OnlyCurrentGenerationRuns
=============================================================================
