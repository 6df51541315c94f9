------------------------ MODULE ScanReconcileProofs ------------------------
(***************************************************************************)
(* ScanReconcile for any library, any number of jobs, scans and lost       *)
(* runners, and any length of the history: no output becomes a source      *)
(* while the result that names it stands, and no job is pruned that a file *)
(* is fenced by.                                                           *)
(*                                                                         *)
(* Both are about what a scan read some calls ago.  Guarded says what the  *)
(* two reads of a pruning still tell, Discovered what a document that is   *)
(* about to be added can be of.                                            *)
(***************************************************************************)
EXTENDS ScanReconcile, TLAPS

\* The types.  A procedure of the user has a path from its first step on.
JobRecords ==
    [status : {"unused", "pending", "running", "done", "failed", "pruned"},
     type : {"none", "probe", "transcode"}, path : Paths \cup {NoPath}]
ScanSteps ==
    {"idle", "walk", "documents", "discover", "stat", "add", "probe", "pending", "running",
     "reconcile", "prune", "files", "finished", "remove"}
ScanStates ==
    [at : ScanSteps, left : SUBSET Paths, found : SUBSET Paths, inFlight : SUBSET (Paths \cup {NoPath}),
     attempted : SUBSET Paths, path : Paths \cup {NoPath}, finished : SUBSET JobIds,
     files : SUBSET (JobIds \cup {NoJob}), jobs : SUBSET JobIds]

DocsOK == doc \in [Paths -> Docs \cup {NoDoc}]
JobsOK == job \in [JobIds -> JobRecords]
ScanOK == /\ scan \in ScanStates
          /\ scan.at \in {"stat", "add"} => scan.path \in Paths
UserOK == /\ user \in [at : {"idle", "reset", "publish", "drop"}, path : Paths \cup {NoPath}]
          /\ user.at # "idle" => user.path \in Paths
Types  == DocsOK /\ JobsOK /\ ScanOK /\ UserOK

\* An owner is a transcode and a probe a probe of the file itself, and neither is
\* pruned.
OwnerOf(p, j) == doc[p] # NoDoc /\ doc[p].owner = j
ProbeOf(p, j) == doc[p] # NoDoc /\ doc[p].probe = j
Gone          == {"unused", "pruned"}
Over          == {"done", "failed", "pruned"}

EvidenceKnown ==
    \A p \in Paths, j \in JobIds :
        /\ OwnerOf(p, j) => job[j].type = "transcode" /\ job[j].status \notin Gone
        /\ ProbeOf(p, j) => /\ job[j].type = "probe" /\ job[j].path = p
                            /\ job[j].status \notin Gone

\* What the scan read about the files still protects the jobs that had ended then;
\* what becomes evidence later has not ended.
ReadKnown ==
    At("finished") => \A p \in Paths, j \in JobIds :
        /\ OwnerOf(p, j) => j \in scan.files
        /\ ProbeOf(p, j) => j \in scan.files \/ job[j].status = "pending"

\* What it is going to prune has ended, and is evidence of nothing.
ExcessKnown ==
    /\ \A j \in scan.finished : At("files") => job[j].status \in {"done", "failed"}
    /\ scan.jobs # {} => At("remove")
    /\ \A j \in scan.jobs : /\ job[j].status \in Over
                            /\ \A p \in Paths : ~OwnerOf(p, j) /\ ~ProbeOf(p, j)

Guarded == Types /\ EvidenceKnown /\ ReadKnown /\ ExcessKnown

\* What the scan may still give a document, and what the user is about to.
Discovering == {"discover", "stat", "add"}

DiskOK == disk \in [Paths -> {"none", "original", "made"}]

NamedKnown ==
    \A p \in Paths :
        /\ Owner(p) # NoJob => Names(p)
        /\ Names(p) => p \in Sources

ExcludedKnown ==
    \A p \in Sources : Names(p) =>
        /\ doc[Out(p)] = NoDoc
        /\ scan.at \in Discovering => Out(p) \notin scan.left
        /\ scan.at \in {"stat", "add"} => Out(p) # scan.path

AddedKnown == scan.at \in {"stat", "add"} => doc[scan.path] = NoDoc

\* An output of the program at its place, whose result nothing has replaced.
Standing(p) == disk[Out(p)] = "made" /\ Out(p) \notin erased

UserKnown ==
    user.at \in {"reset", "drop"} =>
        /\ doc[user.path] # NoDoc /\ doc[user.path].owner = NoJob
        /\ user.path \in Sources => ~Standing(user.path)

StandingKnown ==
    \A p \in Sources : Standing(p) =>
        /\ Names(p)
        /\ Owner(p) # NoJob => \/ doc[p].phase = "committing"
                               \/ doc[p].phase = "settled" /\ doc[p].result = "done"

Discovered ==
    DiskOK /\ NamedKnown /\ ExcludedKnown /\ AddedKnown /\ UserKnown /\ StandingKnown

Reconciled == Guarded /\ Discovered
-----------------------------------------------------------------------------
(***************************************************************************)
(* Paths, documents and what the writes of a step do to jobs and documents. *)
(***************************************************************************)
\* Each video has one source and one output, and these are different paths.
LEMMA PathsOfVideos ==
    /\ \A m \in Media : Own(m) \in Sources /\ Own(m) \in Paths /\ Out(Own(m)) \in Outputs
    /\ \A p \in Paths : Out(p) \in Paths /\ Out(p) \notin Sources /\ Out(Out(p)) = Out(p)
    /\ \A p \in Paths : p \notin Sources => Out(p) = p
    /\ \A p, q \in Sources : Out(p) = Out(q) => p = q
    /\ Sources \subseteq Paths /\ Outputs \subseteq Paths /\ Known \subseteq Outputs
    /\ \A p \in Paths : p \in Outputs <=> p \notin Sources
    /\ \A p \in Outputs : \E q \in Sources : p = Out(q)
  <1>1. \A m \in Media : Own(m) \in Sources /\ Own(m) \in Paths /\ Out(Own(m)) \in Outputs
    BY DEF Paths, Sources, Outputs, Own, Out
  <1>2. \A p \in Paths : Out(p) \in Paths /\ Out(p) \notin Sources /\ Out(Out(p)) = Out(p)
    BY DEF Paths, Sources, Own, Out
  <1>3. \A p \in Paths : p \notin Sources => Out(p) = p
    BY DEF Paths, Sources, Own, Out
  <1>4. \A p, q \in Sources : Out(p) = Out(q) => p = q
    BY DEF Sources, Own, Out
  <1>5. Sources \subseteq Paths /\ Outputs \subseteq Paths
    BY <1>1 DEF Sources, Outputs
  <1>6. \A p \in Paths : p \in Outputs <=> p \notin Sources
    BY DEF Outputs
  <1>7. Known \subseteq Outputs
    BY <1>2, <1>5 DEF Known, Outputs
  <1>8. ASSUME NEW p \in Outputs PROVE \E q \in Sources : p = Out(q)
    <2>1. PICK m \in Media, kind \in {"source", "output"} : p = <<m, kind>>
      BY DEF Outputs, Paths
    <2>2. kind = "output"
      BY <2>1 DEF Outputs, Sources, Own
    <2> QED
      BY <1>1, <2>1, <2>2 DEF Own, Out
  <1> QED
    BY <1>1, <1>2, <1>3, <1>4, <1>5, <1>6, <1>7, <1>8

\* A document is a record of its fields, and a new one is pending and nobody's.
LEMMA FreshDoc ==
    /\ Fresh \in Docs /\ Fresh # NoDoc
    /\ Fresh.owner = NoJob /\ Fresh.probe = NoJob /\ Fresh.phase = "none" /\ Fresh.named = FALSE
  <1>1. Fresh \in Docs
    BY DEF Fresh, Docs
  <1>2. /\ Fresh.owner = NoJob /\ Fresh.probe = NoJob /\ Fresh.phase = "none"
        /\ Fresh.named = FALSE
    BY DEF Fresh
  <1> QED
    BY <1>1, <1>2, DocAssumption

\* Ending jobs changes their status only.
LEMMA EndedJobs ==
    ASSUME JobsOK, NEW js, NEW status \in {"done", "failed"}, Ended(js, status)
    PROVE  /\ JobsOK'
           /\ \A j \in JobIds : /\ job'[j].type = job[j].type /\ job'[j].path = job[j].path
                                /\ job'[j].status = IF j \in js THEN status ELSE job[j].status
                                /\ j \notin js => job'[j] = job[j]
  <1>1. job' = [j \in JobIds |-> IF j \in js THEN [job[j] EXCEPT !.status = status] ELSE job[j]]
    BY DEF Ended
  <1>2. \A j \in JobIds : job[j] \in JobRecords
    BY DEF JobsOK
  <1> QED
    BY <1>1, <1>2 DEF JobsOK, JobRecords

\* A new job takes an unused id and leaves the others alone.
LEMMA CreatedJob ==
    ASSUME JobsOK, NEW type \in {"probe", "transcode"}, NEW p \in Paths, NEW j \in JobIds,
           job[j] = Unused, job' = [job EXCEPT ![j] = Created(j, type, p)]
    PROVE  /\ JobsOK' /\ job[j].status = "unused"
           /\ job'[j].status = "pending" /\ job'[j].type = type /\ job'[j].path = p
           /\ \A i \in JobIds \ {j} : job'[i] = job[i]
  BY DEF JobsOK, JobRecords, Created, Unused

\* Whichever id the new job takes.
LEMMA CreateOne ==
    ASSUME JobsOK, NEW type \in {"probe", "transcode"}, NEW p \in Paths, Create(type, p),
           NEW i \in JobIds
    PROVE  \/ job'[i] = job[i]
           \/ /\ job[i].status = "unused"
              /\ job'[i].status = "pending" /\ job'[i].type = type /\ job'[i].path = p
  <1>1. PICK j \in JobIds : job[j] = Unused /\ job' = [job EXCEPT ![j] = Created(j, type, p)]
    BY DEF Create
  <1>2. /\ job[j].status = "unused" /\ \A k \in JobIds \ {j} : job'[k] = job[k]
        /\ job'[j].status = "pending" /\ job'[j].type = type /\ job'[j].path = p
    BY <1>1, CreatedJob
  <1> QED
    BY <1>2

\* A step that gives one job another status leaves the rest of the jobs alone.
LEMMA StatusOfOne ==
    ASSUME JobsOK, NEW j \in JobIds,
           NEW status \in {"pending", "running", "done", "failed", "pruned"},
           job' = [job EXCEPT ![j].status = status]
    PROVE  /\ JobsOK' /\ job'[j].status = status
           /\ job'[j].type = job[j].type /\ job'[j].path = job[j].path
           /\ \A i \in JobIds \ {j} : job'[i] = job[i]
  BY DEF JobsOK, JobRecords

\* Every step keeps the types of the jobs.
LEMMA JobsKept == ASSUME Types, [Next]_vars PROVE JobsOK'
  <1> USE DEF Types, JobsOK, others, aside, untouched
  <1>1. CASE ScanStep
    <2>1. CASE StartScan
      BY <2>1 DEF StartScan
    <2>2. CASE ReadDocuments
      BY <2>2 DEF ReadDocuments
    <2>3. CASE Stat
      BY <2>3 DEF Stat
    <2>4. CASE Add
      BY <2>4 DEF Add
    <2>5. CASE ReadPending
      BY <2>5 DEF ReadPending
    <2>6. CASE ReadQueued
      BY <2>6 DEF ReadQueued
    <2>7. CASE ListPending
      BY <2>7 DEF ListPending
    <2>8. CASE ListRunning
      BY <2>8 DEF ListRunning
    <2>9. CASE EndReconcile
      BY <2>9 DEF EndReconcile
    <2>10. CASE ReadFinished
      BY <2>10 DEF ReadFinished
    <2>11. CASE ReadFiles
      BY <2>11 DEF ReadFiles
    <2>12. CASE ReadOther
      BY <2>12 DEF ReadOther
    <2>13. CASE EndScan
      BY <2>13 DEF EndScan
    <2>14. ASSUME NEW p \in Paths, Exists(p) PROVE JobsOK'
      BY <2>14 DEF Exists
    <2>15. ASSUME NEW p \in Paths, EnqueueProbe(p) PROVE JobsOK'
      BY <2>15, CreatedJob DEF EnqueueProbe, Create, At
    <2>16. ASSUME NEW p \in Paths, Ignore(p) PROVE JobsOK'
      BY <2>16 DEF Ignore
    <2>17. ASSUME NEW p \in Paths, Redrive(p) PROVE JobsOK'
      BY <2>17, CreatedJob DEF Redrive, Create
    <2>18. ASSUME NEW m \in Media, Walk(m) PROVE JobsOK'
      BY <2>18 DEF Walk
    <2>19. ASSUME NEW j \in JobIds, RemoveJob(j) PROVE JobsOK'
      BY <2>19, StatusOfOne DEF RemoveJob
    <2> QED
      BY <1>1, <2>1, <2>2, <2>3, <2>4, <2>5, <2>6, <2>7, <2>8, <2>9, <2>10, <2>11, <2>12,
        <2>13, <2>14, <2>15, <2>16, <2>17, <2>18, <2>19 DEF ScanStep
  <1>2. ASSUME NEW j \in JobIds, NEW p \in Paths, LoopStep(j, p) PROVE JobsOK'
    <2>1. CASE ProbeRefused(j, p)
      BY <2>1, EndedJobs DEF ProbeRefused
    <2>2. CASE ProbeUnmatched(j, p)
      BY <2>2, EndedJobs DEF ProbeUnmatched
    <2>3. CASE ProbeMatched(j, p)
      BY <2>3 DEF ProbeMatched, JobRecords, Created, Unused
    <2>4. CASE Skip(j, p)
      BY <2>4, EndedJobs DEF Skip
    <2>5. CASE Collide(j, p)
      BY <2>5, EndedJobs DEF Collide
    <2>6. CASE Claim(j, p)
      BY <2>6, StatusOfOne DEF Claim
    <2> QED
      BY <1>2, <2>1, <2>2, <2>3, <2>4, <2>5, <2>6 DEF LoopStep
  <1>3. ASSUME NEW j \in JobIds, NEW p \in Paths, TaskStep(j, p) PROVE JobsOK'
    <2>1. CASE Link(j, p)
      BY <2>1 DEF Link
    <2>2. CASE Persist(j, p)
      BY <2>2, EndedJobs DEF Persist
    <2>3. CASE Discard(j, p)
      BY <2>3, EndedJobs DEF Discard
    <2>4. CASE Release(j, p)
      BY <2>4 DEF Release
    <2>5. CASE LoseRunner(j, p)
      BY <2>5, EndedJobs DEF LoseRunner
    <2> QED
      BY <1>3, <2>1, <2>2, <2>3, <2>4, <2>5 DEF TaskStep
  <1>4. ASSUME NEW j \in JobIds, ReturnLost(j) PROVE JobsOK'
    BY <1>4, StatusOfOne DEF ReturnLost
  <1>5. CASE UserStep
    <2>1. CASE RequeueResets
      BY <2>1, EndedJobs DEF RequeueResets
    <2>2. CASE RequeuePublishes
      BY <2>2, CreatedJob DEF RequeuePublishes, UserOK
    <2>3. CASE RemoveDocument
      BY <2>3 DEF RemoveDocument
    <2>4. ASSUME NEW p \in Paths, Stop(p) PROVE JobsOK'
      BY <2>4, EndedJobs DEF Stop
    <2>5. ASSUME NEW p \in Paths, RequeueDeletes(p) PROVE JobsOK'
      BY <2>5 DEF RequeueDeletes
    <2>6. ASSUME NEW p \in Paths, RemoveFiles(p) PROVE JobsOK'
      BY <2>6 DEF RemoveFiles
    <2>7. ASSUME NEW p \in Paths, PutFile(p) PROVE JobsOK'
      BY <2>7 DEF PutFile
    <2> QED
      BY <1>5, <2>1, <2>2, <2>3, <2>4, <2>5, <2>6, <2>7 DEF UserStep
  <1>6. CASE UNCHANGED vars
    BY <1>6 DEF vars
  <1> QED
    BY <1>1, <1>2, <1>3, <1>4, <1>5, <1>6 DEF Next

\* Every step keeps the types of the documents.
LEMMA DocsKept == ASSUME Types, [Next]_vars PROVE DocsOK'
  <1> USE DEF Types, DocsOK, others, aside, untouched
  <1>1. CASE ScanStep
    <2>1. CASE StartScan
      BY <2>1 DEF StartScan
    <2>2. CASE ReadDocuments
      BY <2>2 DEF ReadDocuments
    <2>3. CASE Stat
      BY <2>3 DEF Stat
    <2>4. CASE Add
      BY <2>4, FreshDoc DEF Add, ScanOK, At
    <2>5. CASE ReadPending
      BY <2>5 DEF ReadPending
    <2>6. CASE ReadQueued
      BY <2>6 DEF ReadQueued
    <2>7. CASE ListPending
      BY <2>7 DEF ListPending
    <2>8. CASE ListRunning
      BY <2>8 DEF ListRunning
    <2>9. CASE EndReconcile
      BY <2>9 DEF EndReconcile
    <2>10. CASE ReadFinished
      BY <2>10 DEF ReadFinished
    <2>11. CASE ReadFiles
      BY <2>11 DEF ReadFiles
    <2>12. CASE ReadOther
      BY <2>12 DEF ReadOther
    <2>13. CASE EndScan
      BY <2>13 DEF EndScan
    <2>14. ASSUME NEW p \in Paths, Exists(p) PROVE DocsOK'
      BY <2>14 DEF Exists
    <2>15. ASSUME NEW p \in Paths, EnqueueProbe(p) PROVE DocsOK'
      BY <2>15 DEF EnqueueProbe
    <2>16. ASSUME NEW p \in Paths, Ignore(p) PROVE DocsOK'
      BY <2>16 DEF Ignore, Docs
    <2>17. ASSUME NEW p \in Paths, Redrive(p) PROVE DocsOK'
      BY <2>17 DEF Redrive
    <2>18. ASSUME NEW m \in Media, Walk(m) PROVE DocsOK'
      BY <2>18 DEF Walk
    <2>19. ASSUME NEW j \in JobIds, RemoveJob(j) PROVE DocsOK'
      BY <2>19 DEF RemoveJob
    <2> QED
      BY <1>1, <2>1, <2>2, <2>3, <2>4, <2>5, <2>6, <2>7, <2>8, <2>9, <2>10, <2>11, <2>12,
        <2>13, <2>14, <2>15, <2>16, <2>17, <2>18, <2>19 DEF ScanStep
  <1>2. ASSUME NEW j \in JobIds, NEW p \in Paths, LoopStep(j, p) PROVE DocsOK'
    <2>1. CASE ProbeRefused(j, p)
      BY <2>1 DEF ProbeRefused
    <2>2. CASE ProbeUnmatched(j, p)
      BY <2>2 DEF ProbeUnmatched, Is, Docs
    <2>3. CASE ProbeMatched(j, p)
      BY <2>3 DEF ProbeMatched, Is, Docs
    <2>4. CASE Skip(j, p)
      BY <2>4 DEF Skip
    <2>5. CASE Collide(j, p)
      <3>1. doc[p] \in Docs
        BY <2>5 DEF Collide, Preparable
      <3>2. PICK status \in {"failed", "queued"} :
              doc' = [doc EXCEPT ![p].result = "failed", ![p].named = FALSE, ![p].status = status]
        BY <2>5 DEF Collide
      <3>3. doc' = [doc EXCEPT ![p] = [@ EXCEPT !.result = "failed", !.named = FALSE,
                                                 !.status = status]]
        BY <3>2
      <3>4. [doc[p] EXCEPT !.result = "failed", !.named = FALSE, !.status = status] \in Docs
        BY <3>1 DEF Docs
      <3> QED
        BY <3>3, <3>4
    <2>6. CASE Claim(j, p)
      <3>1. doc[p] \in Docs
        BY <2>6 DEF Claim, Preparable
      <3>2. doc' = [doc EXCEPT ![p] = [@ EXCEPT !.status = "processing", !.owner = j,
                                                 !.phase = "processing", !.named = TRUE]]
        BY <2>6 DEF Claim
      <3>3. [doc[p] EXCEPT !.status = "processing", !.owner = j, !.phase = "processing",
                           !.named = TRUE] \in Docs
        BY <3>1 DEF Docs
      <3> QED
        BY <3>2, <3>3
    <2> QED
      BY <1>2, <2>1, <2>2, <2>3, <2>4, <2>5, <2>6 DEF LoopStep
  <1>3. ASSUME NEW j \in JobIds, NEW p \in Paths, TaskStep(j, p) PROVE DocsOK'
    <2>1. CASE Link(j, p)
      BY <2>1, ScanAssumption DEF Link, Owned, Owner, Docs
    <2>2. CASE Persist(j, p)
      BY <2>2, ScanAssumption DEF Persist, Owned, Owner, Docs
    <2>3. CASE Discard(j, p)
      <3>1. doc[p] \in Docs
        BY <2>3, ScanAssumption DEF Discard, Owned, Owner
      <3>2. PICK result \in {"failed", doc[p].result} :
              doc' = [doc EXCEPT ![p].phase = "settled", ![p].result = result]
        BY <2>3 DEF Discard
      <3>3. doc' = [doc EXCEPT ![p] = [@ EXCEPT !.phase = "settled", !.result = result]]
        BY <3>2
      <3>4. [doc[p] EXCEPT !.phase = "settled", !.result = result] \in Docs
        BY <3>1, <3>2 DEF Docs
      <3> QED
        BY <3>3, <3>4
    <2>4. CASE Release(j, p)
      BY <2>4, ScanAssumption DEF Release, Owned, Owner, Docs
    <2>5. CASE LoseRunner(j, p)
      BY <2>5, ScanAssumption DEF LoseRunner, Owned, Owner, Docs
    <2> QED
      BY <1>3, <2>1, <2>2, <2>3, <2>4, <2>5 DEF TaskStep
  <1>4. ASSUME NEW j \in JobIds, ReturnLost(j) PROVE DocsOK'
    BY <1>4 DEF ReturnLost
  <1>5. CASE UserStep
    <2>1. CASE RequeueResets
      BY <2>1, FreshDoc DEF RequeueResets, UserOK
    <2>2. CASE RequeuePublishes
      BY <2>2 DEF RequeuePublishes, Is, UserOK, Docs
    <2>3. CASE RemoveDocument
      BY <2>3 DEF RemoveDocument, UserOK
    <2>4. ASSUME NEW p \in Paths, Stop(p) PROVE DocsOK'
      BY <2>4 DEF Stop, Docs
    <2>5. ASSUME NEW p \in Paths, RequeueDeletes(p) PROVE DocsOK'
      BY <2>5 DEF RequeueDeletes
    <2>6. ASSUME NEW p \in Paths, RemoveFiles(p) PROVE DocsOK'
      BY <2>6 DEF RemoveFiles
    <2>7. ASSUME NEW p \in Paths, PutFile(p) PROVE DocsOK'
      BY <2>7 DEF PutFile
    <2> QED
      BY <1>5, <2>1, <2>2, <2>3, <2>4, <2>5, <2>6, <2>7 DEF UserStep
  <1>6. CASE UNCHANGED vars
    BY <1>6 DEF vars
  <1> QED
    BY <1>1, <1>2, <1>3, <1>4, <1>5, <1>6 DEF Next

\* Every step keeps the types of the scan.
LEMMA ScanKept == ASSUME Types, [Next]_vars PROVE ScanOK'
  <1> USE DEF Types, ScanOK, ScanStates, ScanSteps, At, others, aside, untouched
  <1>1. CASE ScanStep
    <2>1. CASE StartScan
      BY <2>1 DEF StartScan, ScanIdle
    <2>2. CASE ReadDocuments
      BY <2>2, PathsOfVideos DEF ReadDocuments, Known
    <2>3. CASE Stat
      BY <2>3 DEF Stat
    <2>4. CASE Add
      BY <2>4 DEF Add
    <2>5. CASE ReadPending
      BY <2>5 DEF ReadPending
    <2>6. CASE ReadQueued
      BY <2>6 DEF ReadQueued, ScanIdle
    <2>7. CASE ListPending
      <3>1. InStatus("pending") \subseteq Paths \cup {NoPath}
        BY DEF InStatus, JobsOK, JobRecords
      <3>2. scan' = [scan EXCEPT !.at = "running", !.inFlight = InStatus("pending")]
        BY <2>7 DEF ListPending
      <3> QED
        BY <3>1, <3>2
    <2>8. CASE ListRunning
      <3>1. InStatus("running") \subseteq Paths \cup {NoPath}
        BY DEF InStatus, JobsOK, JobRecords
      <3>2. scan' = [scan EXCEPT !.at = "reconcile", !.inFlight = @ \cup InStatus("running")]
        BY <2>8 DEF ListRunning
      <3> QED
        BY <3>1, <3>2
    <2>9. CASE EndReconcile
      BY <2>9 DEF EndReconcile, ScanIdle
    <2>10. CASE ReadFinished
      BY <2>10 DEF ReadFinished, Finished
    <2>11. CASE ReadFiles
      <3>1. Protected \subseteq JobIds \cup {NoJob}
        BY DEF Protected, DocsOK, Docs
      <3>2. scan' = [scan EXCEPT !.at = "finished", !.files = Protected]
        BY <2>11 DEF ReadFiles
      <3> QED
        BY <3>1, <3>2
    <2>12. CASE ReadOther
      <3>1. PICK excess : /\ scan' = [ScanIdle EXCEPT !.at = "remove", !.jobs = excess]
                          /\ \/ excess \in Excess(scan.finished, Protected)
                             \/ excess \in Excess(Finished, scan.files)
        BY <2>12 DEF ReadOther
      <3>2. excess \subseteq JobIds
        BY <3>1 DEF Excess, AllButNewest, Finished
      <3> QED
        BY <3>1, <3>2 DEF ScanIdle
    <2>13. CASE EndScan
      BY <2>13 DEF EndScan, ScanIdle
    <2>14. ASSUME NEW p \in Paths, Exists(p) PROVE ScanOK'
      BY <2>14 DEF Exists
    <2>15. ASSUME NEW p \in Paths, EnqueueProbe(p) PROVE ScanOK'
      BY <2>15 DEF EnqueueProbe
    <2>16. ASSUME NEW p \in Paths, Ignore(p) PROVE ScanOK'
      BY <2>16 DEF Ignore
    <2>17. ASSUME NEW p \in Paths, Redrive(p) PROVE ScanOK'
      BY <2>17 DEF Redrive
    <2>18. ASSUME NEW m \in Media, Walk(m) PROVE ScanOK'
      <3> DEFINE here  == {Own(m), Out(Own(m))}
                 left  == scan.left \ here
                 found == scan.found \cup {p \in here : disk[p] # "none"}
                 at    == IF left = {} THEN "documents" ELSE "walk"
      <3>1. scan' = [scan EXCEPT !.left = left, !.found = found, !.at = at]
        BY <2>18 DEF Walk
      <3>2. here \subseteq Paths
        BY PathsOfVideos DEF Outputs
      <3>3. left \subseteq Paths /\ found \subseteq Paths /\ at \in {"walk", "documents"}
        BY <3>2
      <3> HIDE DEF left, found, at
      <3> QED
        BY <3>1, <3>3
    <2>19. ASSUME NEW j \in JobIds, RemoveJob(j) PROVE ScanOK'
      BY <2>19 DEF RemoveJob
    <2> QED
      BY <1>1, <2>1, <2>2, <2>3, <2>4, <2>5, <2>6, <2>7, <2>8, <2>9, <2>10, <2>11, <2>12,
        <2>13, <2>14, <2>15, <2>16, <2>17, <2>18, <2>19 DEF ScanStep
  <1>2. ASSUME NEW j \in JobIds, NEW p \in Paths, LoopStep(j, p) PROVE ScanOK'
    <2>1. CASE ProbeRefused(j, p)
      BY <2>1 DEF ProbeRefused
    <2>2. CASE ProbeUnmatched(j, p)
      BY <2>2 DEF ProbeUnmatched
    <2>3. CASE ProbeMatched(j, p)
      BY <2>3 DEF ProbeMatched
    <2>4. CASE Skip(j, p)
      BY <2>4 DEF Skip
    <2>5. CASE Collide(j, p)
      BY <2>5 DEF Collide
    <2>6. CASE Claim(j, p)
      BY <2>6 DEF Claim
    <2> QED
      BY <1>2, <2>1, <2>2, <2>3, <2>4, <2>5, <2>6 DEF LoopStep
  <1>3. ASSUME NEW j \in JobIds, NEW p \in Paths, TaskStep(j, p) PROVE ScanOK'
    <2>1. CASE Link(j, p)
      BY <2>1 DEF Link
    <2>2. CASE Persist(j, p)
      BY <2>2 DEF Persist
    <2>3. CASE Discard(j, p)
      BY <2>3 DEF Discard
    <2>4. CASE Release(j, p)
      BY <2>4 DEF Release
    <2>5. CASE LoseRunner(j, p)
      BY <2>5 DEF LoseRunner
    <2> QED
      BY <1>3, <2>1, <2>2, <2>3, <2>4, <2>5 DEF TaskStep
  <1>4. ASSUME NEW j \in JobIds, ReturnLost(j) PROVE ScanOK'
    BY <1>4 DEF ReturnLost
  <1>5. CASE UserStep
    <2>1. CASE RequeueResets
      BY <2>1 DEF RequeueResets
    <2>2. CASE RequeuePublishes
      BY <2>2 DEF RequeuePublishes
    <2>3. CASE RemoveDocument
      BY <2>3 DEF RemoveDocument
    <2>4. ASSUME NEW p \in Paths, Stop(p) PROVE ScanOK'
      BY <2>4 DEF Stop
    <2>5. ASSUME NEW p \in Paths, RequeueDeletes(p) PROVE ScanOK'
      BY <2>5 DEF RequeueDeletes
    <2>6. ASSUME NEW p \in Paths, RemoveFiles(p) PROVE ScanOK'
      BY <2>6 DEF RemoveFiles
    <2>7. ASSUME NEW p \in Paths, PutFile(p) PROVE ScanOK'
      BY <2>7 DEF PutFile
    <2> QED
      BY <1>5, <2>1, <2>2, <2>3, <2>4, <2>5, <2>6, <2>7 DEF UserStep
  <1>6. CASE UNCHANGED vars
    BY <1>6 DEF vars
  <1> QED
    BY <1>1, <1>2, <1>3, <1>4, <1>5, <1>6 DEF Next

\* Every step keeps the types of the user's procedure.
LEMMA UserKept == ASSUME Types, [Next]_vars PROVE UserOK'
  <1> USE DEF Types, UserOK, others, aside, untouched
  <1>1. CASE ScanStep
    <2>1. CASE StartScan
      BY <2>1 DEF StartScan
    <2>2. CASE ReadDocuments
      BY <2>2 DEF ReadDocuments
    <2>3. CASE Stat
      BY <2>3 DEF Stat
    <2>4. CASE Add
      BY <2>4 DEF Add
    <2>5. CASE ReadPending
      BY <2>5 DEF ReadPending
    <2>6. CASE ReadQueued
      BY <2>6 DEF ReadQueued
    <2>7. CASE ListPending
      BY <2>7 DEF ListPending
    <2>8. CASE ListRunning
      BY <2>8 DEF ListRunning
    <2>9. CASE EndReconcile
      BY <2>9 DEF EndReconcile
    <2>10. CASE ReadFinished
      BY <2>10 DEF ReadFinished
    <2>11. CASE ReadFiles
      BY <2>11 DEF ReadFiles
    <2>12. CASE ReadOther
      BY <2>12 DEF ReadOther
    <2>13. CASE EndScan
      BY <2>13 DEF EndScan
    <2>14. ASSUME NEW p \in Paths, Exists(p) PROVE UserOK'
      BY <2>14 DEF Exists
    <2>15. ASSUME NEW p \in Paths, EnqueueProbe(p) PROVE UserOK'
      BY <2>15 DEF EnqueueProbe
    <2>16. ASSUME NEW p \in Paths, Ignore(p) PROVE UserOK'
      BY <2>16 DEF Ignore
    <2>17. ASSUME NEW p \in Paths, Redrive(p) PROVE UserOK'
      BY <2>17 DEF Redrive
    <2>18. ASSUME NEW m \in Media, Walk(m) PROVE UserOK'
      BY <2>18 DEF Walk
    <2>19. ASSUME NEW j \in JobIds, RemoveJob(j) PROVE UserOK'
      BY <2>19 DEF RemoveJob
    <2> QED
      BY <1>1, <2>1, <2>2, <2>3, <2>4, <2>5, <2>6, <2>7, <2>8, <2>9, <2>10, <2>11, <2>12,
        <2>13, <2>14, <2>15, <2>16, <2>17, <2>18, <2>19 DEF ScanStep
  <1>2. ASSUME NEW j \in JobIds, NEW p \in Paths, LoopStep(j, p) PROVE UserOK'
    <2>1. CASE ProbeRefused(j, p)
      BY <2>1 DEF ProbeRefused
    <2>2. CASE ProbeUnmatched(j, p)
      BY <2>2 DEF ProbeUnmatched
    <2>3. CASE ProbeMatched(j, p)
      BY <2>3 DEF ProbeMatched
    <2>4. CASE Skip(j, p)
      BY <2>4 DEF Skip
    <2>5. CASE Collide(j, p)
      BY <2>5 DEF Collide
    <2>6. CASE Claim(j, p)
      BY <2>6 DEF Claim
    <2> QED
      BY <1>2, <2>1, <2>2, <2>3, <2>4, <2>5, <2>6 DEF LoopStep
  <1>3. ASSUME NEW j \in JobIds, NEW p \in Paths, TaskStep(j, p) PROVE UserOK'
    <2>1. CASE Link(j, p)
      BY <2>1 DEF Link
    <2>2. CASE Persist(j, p)
      BY <2>2 DEF Persist
    <2>3. CASE Discard(j, p)
      BY <2>3 DEF Discard
    <2>4. CASE Release(j, p)
      BY <2>4 DEF Release
    <2>5. CASE LoseRunner(j, p)
      BY <2>5 DEF LoseRunner
    <2> QED
      BY <1>3, <2>1, <2>2, <2>3, <2>4, <2>5 DEF TaskStep
  <1>4. ASSUME NEW j \in JobIds, ReturnLost(j) PROVE UserOK'
    BY <1>4 DEF ReturnLost
  <1>5. CASE UserStep
    <2>1. CASE RequeueResets
      BY <2>1 DEF RequeueResets
    <2>2. CASE RequeuePublishes
      BY <2>2 DEF RequeuePublishes, UserIdle
    <2>3. CASE RemoveDocument
      BY <2>3 DEF RemoveDocument, UserIdle
    <2>4. ASSUME NEW p \in Paths, Stop(p) PROVE UserOK'
      BY <2>4 DEF Stop
    <2>5. ASSUME NEW p \in Paths, RequeueDeletes(p) PROVE UserOK'
      BY <2>5 DEF RequeueDeletes
    <2>6. ASSUME NEW p \in Paths, RemoveFiles(p) PROVE UserOK'
      BY <2>6 DEF RemoveFiles
    <2>7. ASSUME NEW p \in Paths, PutFile(p) PROVE UserOK'
      BY <2>7 DEF PutFile
    <2> QED
      BY <1>5, <2>1, <2>2, <2>3, <2>4, <2>5, <2>6, <2>7 DEF UserStep
  <1>6. CASE UNCHANGED vars
    BY <1>6 DEF vars
  <1> QED
    BY <1>1, <1>2, <1>3, <1>4, <1>5, <1>6 DEF Next

-----------------------------------------------------------------------------
(***************************************************************************)
(* What a step can do to one job, and to whose evidence it is.             *)
(***************************************************************************)
\* A job is created, claimed, returned, ended or pruned.
JobStep(i) ==
    \/ job'[i] = job[i]
    \/ job[i].status = "unused" /\ job'[i].status = "pending"
    \/ /\ job'[i].type = job[i].type /\ job'[i].path = job[i].path
       /\ \/ job'[i].status \in {"done", "failed"} /\ job[i].status # "unused"
          \/ job[i].status = "pending" /\ job'[i].status = "running" /\ At("idle")
          \/ job[i].status = "running" /\ job'[i].status = "pending"
          \/ job'[i].status = "pruned" /\ At("remove") /\ i \in scan.jobs

\* Only a running transcode becomes an owner, between two scans, and only a new job
\* becomes the probe of a file; a probe that is still pending ends between two scans
\* or is forgotten.
EvidenceStep(q, i) ==
    /\ OwnerOf(q, i)' => \/ OwnerOf(q, i)
                         \/ /\ At("idle") /\ job'[i].type = "transcode"
                            /\ job'[i].status = "running"
    /\ ProbeOf(q, i)' =>
          \/ ProbeOf(q, i) /\ (job[i].status = "pending" => job'[i].status = "pending" \/ At("idle"))
          \/ /\ job[i].status = "unused" /\ job'[i].status = "pending"
             /\ job'[i].type = "probe" /\ job'[i].path = q

\* The first read of a pruning stays what it was, and what is chosen has ended by
\* then and is evidence of nothing.
PruneStep(i) ==
    /\ At("finished")' =>
          \/ At("finished") /\ scan'.files = scan.files
          \/ scan'.files = Protected /\ UNCHANGED <<doc, job>>
    /\ At("files")' /\ i \in scan'.finished =>
          \/ At("files") /\ i \in scan.finished
          \/ job[i].status \in {"done", "failed"} /\ UNCHANGED job
    /\ scan'.jobs # {} => At("remove")'
    /\ i \in scan'.jobs =>
          \/ i \in scan.jobs
          \/ /\ job[i].status \in {"done", "failed"} /\ UNCHANGED <<doc, job>>
             /\ \A p \in Paths : ~OwnerOf(p, i) /\ ~ProbeOf(p, i)


\* Every step does one of these to a job.
LEMMA JobMoves == ASSUME Guarded, NEW i \in JobIds, [Next]_vars PROVE JobStep(i)
  <1> USE ScanAssumption DEF Guarded, Types, JobStep, At, others, aside, untouched
  <1>1. CASE ScanStep
    <2>1. CASE StartScan
      BY <2>1 DEF StartScan
    <2>2. CASE ReadDocuments
      BY <2>2 DEF ReadDocuments
    <2>3. CASE Stat
      BY <2>3 DEF Stat
    <2>4. CASE Add
      BY <2>4 DEF Add
    <2>5. CASE ReadPending
      BY <2>5 DEF ReadPending
    <2>6. CASE ReadQueued
      BY <2>6 DEF ReadQueued
    <2>7. CASE ListPending
      BY <2>7 DEF ListPending
    <2>8. CASE ListRunning
      BY <2>8 DEF ListRunning
    <2>9. CASE EndReconcile
      BY <2>9 DEF EndReconcile
    <2>10. CASE ReadFinished
      BY <2>10 DEF ReadFinished
    <2>11. CASE ReadFiles
      BY <2>11 DEF ReadFiles
    <2>12. CASE ReadOther
      BY <2>12 DEF ReadOther
    <2>13. CASE EndScan
      BY <2>13 DEF EndScan
    <2>14. ASSUME NEW p \in Paths, Exists(p) PROVE JobStep(i)
      BY <2>14 DEF Exists
    <2>15. ASSUME NEW p \in Paths, EnqueueProbe(p) PROVE JobStep(i)
      BY <2>15, CreateOne DEF EnqueueProbe
    <2>16. ASSUME NEW p \in Paths, Ignore(p) PROVE JobStep(i)
      BY <2>16 DEF Ignore
    <2>17. ASSUME NEW p \in Paths, Redrive(p) PROVE JobStep(i)
      BY <2>17, CreateOne DEF Redrive
    <2>18. ASSUME NEW m \in Media, Walk(m) PROVE JobStep(i)
      BY <2>18 DEF Walk
    <2>19. ASSUME NEW j \in JobIds, RemoveJob(j) PROVE JobStep(i)
      BY <2>19, StatusOfOne DEF RemoveJob
    <2> QED
      BY <1>1, <2>1, <2>2, <2>3, <2>4, <2>5, <2>6, <2>7, <2>8, <2>9, <2>10, <2>11, <2>12,
        <2>13, <2>14, <2>15, <2>16, <2>17, <2>18, <2>19 DEF ScanStep
  <1>2. ASSUME NEW j \in JobIds, NEW p \in Paths, LoopStep(j, p) PROVE JobStep(i)
    <2>1. CASE ProbeRefused(j, p)
      BY <2>1, EndedJobs DEF ProbeRefused, Loop
    <2>2. CASE ProbeUnmatched(j, p)
      BY <2>2, EndedJobs DEF ProbeUnmatched, Loop
    <2>3. CASE ProbeMatched(j, p)
      BY <2>3 DEF ProbeMatched, Loop, Created, Unused, JobsOK, JobRecords
    <2>4. CASE Skip(j, p)
      BY <2>4, EndedJobs DEF Skip, Loop
    <2>5. CASE Collide(j, p)
      BY <2>5, EndedJobs DEF Collide, Loop
    <2>6. CASE Claim(j, p)
      BY <2>6, StatusOfOne DEF Claim, Loop
    <2> QED
      BY <1>2, <2>1, <2>2, <2>3, <2>4, <2>5, <2>6 DEF LoopStep
  <1>3. ASSUME NEW j \in JobIds, NEW p \in Paths, TaskStep(j, p) PROVE JobStep(i)
    <2>1. CASE Link(j, p)
      BY <2>1 DEF Link
    <2>2. CASE Persist(j, p)
      BY <2>2, EndedJobs DEF Persist, Owned, Owner, EvidenceKnown, OwnerOf, Gone
    <2>3. CASE Discard(j, p)
      BY <2>3, EndedJobs DEF Discard
    <2>4. CASE Release(j, p)
      BY <2>4 DEF Release
    <2>5. CASE LoseRunner(j, p)
      BY <2>5, EndedJobs DEF LoseRunner
    <2> QED
      BY <1>3, <2>1, <2>2, <2>3, <2>4, <2>5 DEF TaskStep
  <1>4. ASSUME NEW j \in JobIds, ReturnLost(j) PROVE JobStep(i)
    BY <1>4, StatusOfOne DEF ReturnLost
  <1>5. CASE UserStep
    <2>1. CASE RequeueResets
      BY <2>1, EndedJobs DEF RequeueResets, Outstanding, Of, Active
    <2>2. CASE RequeuePublishes
      <3>1. PICK j \in JobIds : /\ job[j] = Unused
                                /\ job' = [job EXCEPT ![j] = Created(j, "probe", user.path)]
        BY <2>2 DEF RequeuePublishes
      <3>2. user.path \in Paths
        BY <2>2 DEF RequeuePublishes, UserOK
      <3>3. job'[j].status = "pending" /\ job[j].status = "unused"
            /\ \A k \in JobIds \ {j} : job'[k] = job[k]
        BY <3>1, <3>2, CreatedJob
      <3> QED
        BY <3>3
    <2>3. CASE RemoveDocument
      BY <2>3 DEF RemoveDocument
    <2>4. ASSUME NEW p \in Paths, Stop(p) PROVE JobStep(i)
      BY <2>4, EndedJobs DEF Stop, Outstanding, Of, Active
    <2>5. ASSUME NEW p \in Paths, RequeueDeletes(p) PROVE JobStep(i)
      BY <2>5 DEF RequeueDeletes
    <2>6. ASSUME NEW p \in Paths, RemoveFiles(p) PROVE JobStep(i)
      BY <2>6 DEF RemoveFiles
    <2>7. ASSUME NEW p \in Paths, PutFile(p) PROVE JobStep(i)
      BY <2>7 DEF PutFile
    <2> QED
      BY <1>5, <2>1, <2>2, <2>3, <2>4, <2>5, <2>6, <2>7 DEF UserStep
  <1>6. CASE UNCHANGED vars
    BY <1>6 DEF vars
  <1> QED
    BY <1>1, <1>2, <1>3, <1>4, <1>5, <1>6 DEF Next

\* Every step leaves the evidence of a file so.
LEMMA EvidenceMoves == ASSUME Guarded, NEW q \in Paths, NEW i \in JobIds, [Next]_vars PROVE EvidenceStep(q, i)
  <1> USE ScanAssumption DEF Guarded, Types, DocsOK, EvidenceStep, OwnerOf, ProbeOf, At,
    others, aside, untouched
  <1>1. CASE ScanStep
    <2>1. CASE StartScan
      BY <2>1 DEF StartScan
    <2>2. CASE ReadDocuments
      BY <2>2 DEF ReadDocuments
    <2>3. CASE Stat
      BY <2>3 DEF Stat
    <2>4. CASE Add
      BY <2>4, FreshDoc DEF Add, ScanOK, At
    <2>5. CASE ReadPending
      BY <2>5 DEF ReadPending
    <2>6. CASE ReadQueued
      BY <2>6 DEF ReadQueued
    <2>7. CASE ListPending
      BY <2>7 DEF ListPending
    <2>8. CASE ListRunning
      BY <2>8 DEF ListRunning
    <2>9. CASE EndReconcile
      BY <2>9 DEF EndReconcile
    <2>10. CASE ReadFinished
      BY <2>10 DEF ReadFinished
    <2>11. CASE ReadFiles
      BY <2>11 DEF ReadFiles
    <2>12. CASE ReadOther
      BY <2>12 DEF ReadOther
    <2>13. CASE EndScan
      BY <2>13 DEF EndScan
    <2>14. ASSUME NEW p \in Paths, Exists(p) PROVE EvidenceStep(q, i)
      BY <2>14 DEF Exists
    <2>15. ASSUME NEW p \in Paths, EnqueueProbe(p) PROVE EvidenceStep(q, i)
      BY <2>15, CreateOne DEF EnqueueProbe
    <2>16. ASSUME NEW p \in Paths, Ignore(p) PROVE EvidenceStep(q, i)
      BY <2>16 DEF Ignore
    <2>17. ASSUME NEW p \in Paths, Redrive(p) PROVE EvidenceStep(q, i)
      BY <2>17, CreateOne DEF Redrive
    <2>18. ASSUME NEW m \in Media, Walk(m) PROVE EvidenceStep(q, i)
      BY <2>18 DEF Walk
    <2>19. ASSUME NEW j \in JobIds, RemoveJob(j) PROVE EvidenceStep(q, i)
      BY <2>19, StatusOfOne DEF RemoveJob, ExcessKnown, Over
    <2> QED
      BY <1>1, <2>1, <2>2, <2>3, <2>4, <2>5, <2>6, <2>7, <2>8, <2>9, <2>10, <2>11, <2>12,
        <2>13, <2>14, <2>15, <2>16, <2>17, <2>18, <2>19 DEF ScanStep
  <1>2. ASSUME NEW j \in JobIds, NEW p \in Paths, LoopStep(j, p) PROVE EvidenceStep(q, i)
    <2>1. CASE ProbeRefused(j, p)
      BY <2>1, EndedJobs DEF ProbeRefused, Loop
    <2>2. CASE ProbeUnmatched(j, p)
      <3>1. doc[p] \in Docs /\ p \in Paths
        BY <2>2, DocAssumption DEF ProbeUnmatched, Is
      <3>2. q # p => doc'[q] = doc[q]
        BY <2>2 DEF ProbeUnmatched
      <3>3. doc'[p].owner = doc[p].owner /\ doc'[p].probe = NoJob
        BY <2>2, <3>1 DEF ProbeUnmatched, Docs
      <3> QED
        BY <2>2, <3>1, <3>2, <3>3, DocAssumption DEF ProbeUnmatched, Loop
    <2>3. CASE ProbeMatched(j, p)
      <3>1. doc[p] \in Docs /\ p \in Paths
        BY <2>3, DocAssumption DEF ProbeMatched, Is
      <3>2. q # p => doc'[q] = doc[q]
        BY <2>3 DEF ProbeMatched
      <3>3. doc'[p].owner = doc[p].owner /\ doc'[p].probe = NoJob
        BY <2>3, <3>1 DEF ProbeMatched, Docs
      <3> QED
        BY <2>3, <3>1, <3>2, <3>3, DocAssumption DEF ProbeMatched, Loop
    <2>4. CASE Skip(j, p)
      BY <2>4, EndedJobs DEF Skip, Loop
    <2>5. CASE Collide(j, p)
      <3>1. doc[p] \in Docs /\ p \in Paths
        BY <2>5, DocAssumption DEF Collide, Preparable
      <3>2. q # p => doc'[q] = doc[q]
        BY <2>5 DEF Collide
      <3>3. doc'[p].owner = doc[p].owner /\ doc'[p].probe = doc[p].probe
        BY <2>5, <3>1 DEF Collide, Docs
      <3> QED
        BY <2>5, <3>1, <3>2, <3>3, DocAssumption DEF Collide, Loop
    <2>6. CASE Claim(j, p)
      <3>1. doc[p] \in Docs /\ doc[p] # NoDoc
        BY <2>6, DocAssumption DEF Claim, Preparable
      <3>2. q # p => doc'[q] = doc[q]
        BY <2>6 DEF Claim
      <3>3. doc'[p].owner = j /\ doc'[p].probe = doc[p].probe
        BY <2>6, <3>1 DEF Claim, Docs
      <3>4. job' = [job EXCEPT ![j].status = "running"] /\ scan.at = "idle"
            /\ job[j].type = "transcode"
        BY <2>6 DEF Claim, Loop
      <3>5. /\ job'[j].status = "running" /\ job'[j].type = "transcode"
            /\ i # j => job'[i] = job[i]
        BY <3>4, StatusOfOne
      <3> QED
        BY <3>1, <3>2, <3>3, <3>4, <3>5
    <2> QED
      BY <1>2, <2>1, <2>2, <2>3, <2>4, <2>5, <2>6 DEF LoopStep
  <1>3. ASSUME NEW j \in JobIds, NEW p \in Paths, TaskStep(j, p) PROVE EvidenceStep(q, i)
    <2>1. CASE Link(j, p)
      <3>1. doc[p] \in Docs /\ p \in Paths
        BY <2>1, DocAssumption DEF Link, Owned, Owner
      <3>2. q # p => doc'[q] = doc[q]
        BY <2>1 DEF Link
      <3>3. doc'[p].owner = doc[p].owner /\ doc'[p].probe = doc[p].probe
        BY <2>1, <3>1 DEF Link, Docs
      <3> QED
        BY <2>1, <3>1, <3>2, <3>3, DocAssumption DEF Link
    <2>2. CASE Persist(j, p)
      BY <2>2, EndedJobs DEF Persist, Owned, Owner, EvidenceKnown
    <2>3. CASE Discard(j, p)
      BY <2>3, EndedJobs DEF Discard, Owned, Owner, EvidenceKnown
    <2>4. CASE Release(j, p)
      <3>1. doc[p] \in Docs /\ p \in Paths
        BY <2>4, DocAssumption DEF Release, Owned, Owner
      <3>2. q # p => doc'[q] = doc[q]
        BY <2>4 DEF Release
      <3>3. doc'[p].owner = NoJob /\ doc'[p].probe = doc[p].probe
        BY <2>4, <3>1 DEF Release, Docs
      <3> QED
        BY <2>4, <3>1, <3>2, <3>3, DocAssumption DEF Release
    <2>5. CASE LoseRunner(j, p)
      BY <2>5, EndedJobs DEF LoseRunner, Owned, Owner, EvidenceKnown
    <2> QED
      BY <1>3, <2>1, <2>2, <2>3, <2>4, <2>5 DEF TaskStep
  <1>4. ASSUME NEW j \in JobIds, ReturnLost(j) PROVE EvidenceStep(q, i)
    BY <1>4, StatusOfOne DEF ReturnLost
  <1>5. CASE UserStep
    <2>1. CASE RequeueResets
      BY <2>1, EndedJobs, FreshDoc DEF RequeueResets, UserOK, Outstanding, Of, EvidenceKnown
    <2>2. CASE RequeuePublishes
      <3>1. PICK j \in JobIds :
              /\ job[j] = Unused /\ job' = [job EXCEPT ![j] = Created(j, "probe", user.path)]
              /\ doc' = IF Is(user.path, "pending") THEN [doc EXCEPT ![user.path].probe = j] ELSE doc
        BY <2>2 DEF RequeuePublishes
      <3>2. user.path \in Paths
        BY <2>2 DEF RequeuePublishes, UserOK
      <3>3. /\ job'[j].status = "pending" /\ job'[j].type = "probe" /\ job'[j].path = user.path
            /\ job[j].status = "unused" /\ \A k \in JobIds \ {j} : job'[k] = job[k]
        BY <3>1, <3>2, CreatedJob
      <3>4. CASE ~Is(user.path, "pending")
        BY <3>1, <3>3, <3>4 DEF EvidenceKnown
      <3>5. CASE Is(user.path, "pending")
        <4>1. doc' = [doc EXCEPT ![user.path] = [@ EXCEPT !.probe = j]] /\ doc[user.path] \in Docs
          BY <3>1, <3>2, <3>5 DEF Is
        <4>2. doc'[user.path].owner = doc[user.path].owner /\ doc'[user.path].probe = j
          BY <3>2, <4>1 DEF Docs
        <4>3. q # user.path => doc'[q] = doc[q]
          BY <4>1
        <4>4. doc[user.path] # NoDoc
          BY <3>5 DEF Is
        <4> QED
          BY <3>2, <3>3, <4>2, <4>3, <4>4 DEF EvidenceKnown
      <3> QED
        BY <3>4, <3>5
    <2>3. CASE RemoveDocument
      BY <2>3 DEF RemoveDocument, UserOK
    <2>4. ASSUME NEW p \in Paths, Stop(p) PROVE EvidenceStep(q, i)
      BY <2>4, EndedJobs DEF Stop, Outstanding, Of, EvidenceKnown, Active, JobsOK
    <2>5. ASSUME NEW p \in Paths, RequeueDeletes(p) PROVE EvidenceStep(q, i)
      BY <2>5 DEF RequeueDeletes
    <2>6. ASSUME NEW p \in Paths, RemoveFiles(p) PROVE EvidenceStep(q, i)
      BY <2>6 DEF RemoveFiles
    <2>7. ASSUME NEW p \in Paths, PutFile(p) PROVE EvidenceStep(q, i)
      BY <2>7 DEF PutFile
    <2> QED
      BY <1>5, <2>1, <2>2, <2>3, <2>4, <2>5, <2>6, <2>7 DEF UserStep
  <1>6. CASE UNCHANGED vars
    BY <1>6 DEF vars
  <1> QED
    BY <1>1, <1>2, <1>3, <1>4, <1>5, <1>6 DEF Next

\* Every step of a pruning does one of these.
LEMMA PruneMoves == ASSUME Guarded, NEW i \in JobIds, [Next]_vars PROVE PruneStep(i)
  <1> USE DEF Guarded, Types, ScanOK, ScanStates, ExcessKnown, PruneStep, At, others, aside,
    untouched
  <1>1. CASE ScanStep
    <2>1. CASE StartScan
      BY <2>1 DEF StartScan, ScanIdle
    <2>2. CASE ReadDocuments
      BY <2>2 DEF ReadDocuments
    <2>3. CASE Stat
      BY <2>3 DEF Stat
    <2>4. CASE Add
      BY <2>4 DEF Add
    <2>5. CASE ReadPending
      BY <2>5 DEF ReadPending
    <2>6. CASE ReadQueued
      BY <2>6 DEF ReadQueued, ScanIdle
    <2>7. CASE ListPending
      BY <2>7 DEF ListPending
    <2>8. CASE ListRunning
      BY <2>8 DEF ListRunning
    <2>9. CASE EndReconcile
      BY <2>9 DEF EndReconcile, ScanIdle
    <2>10. CASE ReadFinished
      BY <2>10 DEF ReadFinished, Finished
    <2>11. CASE ReadFiles
      BY <2>11 DEF ReadFiles
    <2>12. CASE ReadOther
      <3>1. PICK excess :
              /\ scan' = [ScanIdle EXCEPT !.at = "remove", !.jobs = excess]
              /\ \/ At("files") /\ excess \in Excess(scan.finished, Protected)
                 \/ At("finished") /\ excess \in Excess(Finished, scan.files)
        BY <2>12 DEF ReadOther
      <3>2. /\ scan'.at = "remove" /\ scan'.jobs = excess /\ UNCHANGED <<doc, job>>
        BY <2>12, <3>1 DEF ReadOther, ScanIdle
      <3>3. ASSUME NEW p \in Paths, i \notin Protected PROVE ~OwnerOf(p, i) /\ ~ProbeOf(p, i)
        BY <3>3 DEF Protected, OwnerOf, ProbeOf
      <3>4. CASE At("files") /\ excess \in Excess(scan.finished, Protected)
        <4>1. excess \subseteq scan.finished \ Protected
          BY <3>4 DEF Excess, AllButNewest
        <4>2. i \in scan.finished => job[i].status \in {"done", "failed"}
          BY <3>4 DEF ExcessKnown
        <4> QED
          BY <3>2, <3>3, <4>1, <4>2
      <3>5. CASE At("finished") /\ excess \in Excess(Finished, scan.files)
        <4>1. excess \subseteq Finished \ scan.files
          BY <3>5 DEF Excess, AllButNewest
        <4>2. i \in Finished => job[i].status \in {"done", "failed"}
          BY DEF Finished
        <4>3. ASSUME NEW p \in Paths, i \in Finished, i \notin scan.files
              PROVE  ~OwnerOf(p, i) /\ ~ProbeOf(p, i)
          BY <3>5, <4>2, <4>3 DEF ReadKnown
        <4> QED
          BY <3>2, <4>1, <4>2, <4>3
      <3> QED
        BY <3>1, <3>4, <3>5
    <2>13. CASE EndScan
      BY <2>13 DEF EndScan, ScanIdle
    <2>14. ASSUME NEW p \in Paths, Exists(p) PROVE PruneStep(i)
      BY <2>14 DEF Exists
    <2>15. ASSUME NEW p \in Paths, EnqueueProbe(p) PROVE PruneStep(i)
      BY <2>15 DEF EnqueueProbe
    <2>16. ASSUME NEW p \in Paths, Ignore(p) PROVE PruneStep(i)
      BY <2>16 DEF Ignore
    <2>17. ASSUME NEW p \in Paths, Redrive(p) PROVE PruneStep(i)
      BY <2>17 DEF Redrive
    <2>18. ASSUME NEW m \in Media, Walk(m) PROVE PruneStep(i)
      BY <2>18 DEF Walk
    <2>19. ASSUME NEW j \in JobIds, RemoveJob(j) PROVE PruneStep(i)
      BY <2>19 DEF RemoveJob, ScanOK, ScanStates
    <2> QED
      BY <1>1, <2>1, <2>2, <2>3, <2>4, <2>5, <2>6, <2>7, <2>8, <2>9, <2>10, <2>11, <2>12,
        <2>13, <2>14, <2>15, <2>16, <2>17, <2>18, <2>19 DEF ScanStep
  <1>2. ASSUME NEW j \in JobIds, NEW p \in Paths, LoopStep(j, p) PROVE PruneStep(i)
    <2>1. CASE ProbeRefused(j, p)
      BY <2>1 DEF ProbeRefused, Loop
    <2>2. CASE ProbeUnmatched(j, p)
      BY <2>2 DEF ProbeUnmatched, Loop
    <2>3. CASE ProbeMatched(j, p)
      BY <2>3 DEF ProbeMatched, Loop
    <2>4. CASE Skip(j, p)
      BY <2>4 DEF Skip, Loop
    <2>5. CASE Collide(j, p)
      BY <2>5 DEF Collide, Loop
    <2>6. CASE Claim(j, p)
      BY <2>6 DEF Claim, Loop
    <2> QED
      BY <1>2, <2>1, <2>2, <2>3, <2>4, <2>5, <2>6 DEF LoopStep
  <1>3. ASSUME NEW j \in JobIds, NEW p \in Paths, TaskStep(j, p) PROVE PruneStep(i)
    <2>1. CASE Link(j, p)
      BY <2>1 DEF Link
    <2>2. CASE Persist(j, p)
      BY <2>2 DEF Persist
    <2>3. CASE Discard(j, p)
      BY <2>3 DEF Discard
    <2>4. CASE Release(j, p)
      BY <2>4 DEF Release
    <2>5. CASE LoseRunner(j, p)
      BY <2>5 DEF LoseRunner
    <2> QED
      BY <1>3, <2>1, <2>2, <2>3, <2>4, <2>5 DEF TaskStep
  <1>4. ASSUME NEW j \in JobIds, ReturnLost(j) PROVE PruneStep(i)
    BY <1>4 DEF ReturnLost
  <1>5. CASE UserStep
    <2>1. CASE RequeueResets
      BY <2>1 DEF RequeueResets
    <2>2. CASE RequeuePublishes
      BY <2>2 DEF RequeuePublishes
    <2>3. CASE RemoveDocument
      BY <2>3 DEF RemoveDocument
    <2>4. ASSUME NEW p \in Paths, Stop(p) PROVE PruneStep(i)
      BY <2>4 DEF Stop
    <2>5. ASSUME NEW p \in Paths, RequeueDeletes(p) PROVE PruneStep(i)
      BY <2>5 DEF RequeueDeletes
    <2>6. ASSUME NEW p \in Paths, RemoveFiles(p) PROVE PruneStep(i)
      BY <2>6 DEF RemoveFiles
    <2>7. ASSUME NEW p \in Paths, PutFile(p) PROVE PruneStep(i)
      BY <2>7 DEF PutFile
    <2> QED
      BY <1>5, <2>1, <2>2, <2>3, <2>4, <2>5, <2>6, <2>7 DEF UserStep
  <1>6. CASE UNCHANGED vars
    BY <1>6 DEF vars
  <1> QED
    BY <1>1, <1>2, <1>3, <1>4, <1>5, <1>6 DEF Next

\* So what is read stays true, and no evidence is pruned.
LEMMA GuardedKept == ASSUME Guarded, [Next]_vars PROVE Guarded'
  <1>1. Types'
    BY JobsKept, DocsKept, ScanKept, UserKept DEF Guarded, Types
  <1>2. \A i \in JobIds : JobStep(i) /\ PruneStep(i) /\ \A q \in Paths : EvidenceStep(q, i)
    BY JobMoves, PruneMoves, EvidenceMoves
  <1>3. EvidenceKnown'
    <2> SUFFICES ASSUME NEW q \in Paths, NEW i \in JobIds
                 PROVE  /\ OwnerOf(q, i)' => /\ job'[i].type = "transcode"
                                             /\ job'[i].status \notin Gone
                        /\ ProbeOf(q, i)' => /\ job'[i].type = "probe" /\ job'[i].path = q
                                             /\ job'[i].status \notin Gone
      BY DEF EvidenceKnown
    <2>1. JobStep(i) /\ EvidenceStep(q, i)
      BY <1>2
    <2>2. /\ OwnerOf(q, i) => job[i].type = "transcode" /\ job[i].status \notin Gone
          /\ ProbeOf(q, i) => /\ job[i].type = "probe" /\ job[i].path = q
                              /\ job[i].status \notin Gone
      BY DEF Guarded, EvidenceKnown
    <2>3. i \in scan.jobs => ~OwnerOf(q, i) /\ ~ProbeOf(q, i)
      BY DEF Guarded, ExcessKnown
    <2> QED
      BY <2>1, <2>2, <2>3 DEF JobStep, EvidenceStep, Gone
  <1>4. ReadKnown'
    <2> SUFFICES ASSUME At("finished")', NEW q \in Paths, NEW i \in JobIds
                 PROVE  /\ OwnerOf(q, i)' => i \in scan'.files
                        /\ ProbeOf(q, i)' => i \in scan'.files \/ job'[i].status = "pending"
      BY DEF ReadKnown
    <2>1. EvidenceStep(q, i) /\ PruneStep(i)
      BY <1>2
    <2>2. CASE At("finished") /\ scan'.files = scan.files
      <3>1. /\ OwnerOf(q, i) => i \in scan.files
            /\ ProbeOf(q, i) => i \in scan.files \/ job[i].status = "pending"
        BY <2>2 DEF Guarded, ReadKnown
      <3> QED
        BY <2>1, <2>2, <3>1 DEF EvidenceStep, At
    <2>3. CASE scan'.files = Protected /\ UNCHANGED <<doc, job>>
      <3>1. OwnerOf(q, i) \/ ProbeOf(q, i) => i \in Protected
        BY DEF OwnerOf, ProbeOf, Protected
      <3> QED
        BY <2>3, <3>1 DEF OwnerOf, ProbeOf
    <2> QED
      BY <2>1, <2>2, <2>3 DEF PruneStep
  <1>5. ExcessKnown'
    <2>1. ASSUME NEW i \in scan'.finished, At("files")'
          PROVE  job'[i].status \in {"done", "failed"}
      <3>1. i \in JobIds
        BY <1>1 DEF Types, ScanOK, ScanStates
      <3>2. \/ At("files") /\ job[i].status \in {"done", "failed"}
            \/ job[i].status \in {"done", "failed"} /\ UNCHANGED job
        BY <1>2, <2>1, <3>1 DEF PruneStep, Guarded, ExcessKnown
      <3> QED
        BY <1>2, <3>1, <3>2 DEF JobStep, At
    <2>2. scan'.jobs # {} => At("remove")'
      BY <1>1, <1>2 DEF PruneStep, Types, ScanOK, ScanStates
    <2>3. ASSUME NEW i \in scan'.jobs
          PROVE  /\ job'[i].status \in Over
                 /\ \A p \in Paths : ~OwnerOf(p, i)' /\ ~ProbeOf(p, i)'
      <3>1. i \in JobIds
        BY <1>1 DEF Types, ScanOK, ScanStates
      <3>2. JobStep(i) /\ PruneStep(i) /\ \A p \in Paths : EvidenceStep(p, i)
        BY <1>2, <3>1
      <3>3. CASE i \in scan.jobs
        <4>1. /\ job[i].status \in Over /\ At("remove")
              /\ \A p \in Paths : ~OwnerOf(p, i) /\ ~ProbeOf(p, i)
          BY <3>3 DEF Guarded, ExcessKnown
        <4>2. job'[i].status \in Over
          BY <3>2, <4>1 DEF JobStep, Over
        <4>3. ASSUME NEW p \in Paths PROVE ~OwnerOf(p, i)' /\ ~ProbeOf(p, i)'
          BY <3>2, <4>1 DEF EvidenceStep, At, Over
        <4> QED
          BY <4>2, <4>3
      <3>4. CASE /\ job[i].status \in {"done", "failed"} /\ UNCHANGED <<doc, job>>
                 /\ \A p \in Paths : ~OwnerOf(p, i) /\ ~ProbeOf(p, i)
        BY <3>4 DEF Over, OwnerOf, ProbeOf
      <3> QED
        BY <3>2, <3>3, <3>4 DEF PruneStep
    <2> QED
      BY <2>1, <2>2, <2>3 DEF ExcessKnown
  <1> QED
    BY <1>1, <1>3, <1>4, <1>5 DEF Guarded

-----------------------------------------------------------------------------
(***************************************************************************)
(* What a step can do to one document, to what is at an output's place, to *)
(* what a scan still discovers, and to the user's procedure.               *)
(***************************************************************************)
Same(q) ==
    /\ doc'[q].owner = doc[q].owner /\ doc'[q].named = doc[q].named
    /\ doc'[q].phase = doc[q].phase /\ doc'[q].result = doc[q].result
Claimed(q) ==
    /\ At("idle") /\ Section(q) /\ ~Collides(q)
    /\ doc[q] # NoDoc /\ doc[q].owner = NoJob
    /\ doc'[q].owner # NoJob /\ doc'[q].named = TRUE
Collided(q) ==
    /\ doc'[q].owner = NoJob /\ doc'[q].named = FALSE
    /\ doc[q].named => Out(q) \in erased'
Linked(q) ==
    /\ doc[q].phase = "processing" /\ doc'[q].phase = "committing"
    /\ doc'[q].owner = doc[q].owner /\ doc'[q].named = doc[q].named
Settled(q) ==
    /\ doc'[q].owner = doc[q].owner /\ doc'[q].named = doc[q].named
    /\ doc'[q].phase = "settled"
    /\ \/ doc'[q].result = "done"
       \/ doc[q].phase = "processing"
       \/ disk'[Out(q)] = "none"
ReleasedAs(q) ==
    /\ doc'[q].owner = NoJob
    /\ \/ doc[q].phase = "settled" /\ doc'[q].named = (doc[q].result = "done")
       \/ doc[q].phase = "processing" /\ doc'[q].named = FALSE

\* A document is new, dropped, or goes on its way from claim to release.
DocStep(q) ==
    \/ doc'[q] = doc[q]
    \/ doc'[q] = NoDoc /\ (q \in Known \/ (user.at = "drop" /\ q = user.path /\ user'.at = "idle"))
    \/ doc'[q] = Fresh /\ \/ At("add") /\ q = scan.path /\ scan'.at = "discover"
                          \/ user.at = "reset" /\ q = user.path
    \/ /\ doc[q] # NoDoc /\ doc'[q] # NoDoc
       /\ \/ Same(q) \/ Claimed(q) \/ Collided(q)
          \/ /\ doc[q].owner # NoJob /\ Section(q)
             /\ Linked(q) \/ Settled(q) \/ ReleasedAs(q)

\* Only the link of its owner puts an output at its place.
OutputStep(q) ==
    /\ erased \subseteq erased'
    /\ disk'[Out(q)] = "made" =>
          \/ disk[Out(q)] = "made"
          \/ /\ doc[q] # NoDoc /\ doc'[q] # NoDoc /\ doc[q].owner # NoJob /\ Section(q)
             /\ Linked(q)

\* A path is left to discover if no result names it, and added if it has no document.
DiscoverStep(q) ==
    /\ scan'.at \in Discovering /\ q \in scan'.left =>
          \/ scan.at \in Discovering /\ q \in scan.left
          \/ At("documents") /\ q \notin Known
    /\ scan'.at \in {"stat", "add"} /\ q = scan'.path =>
          \/ scan.at \in {"stat", "add"} /\ q = scan.path
          \/ At("discover") /\ q \in scan.left /\ doc[q] = NoDoc /\ UNCHANGED doc

\* A procedure that deletes is begun on a file nobody works on.
UserMove(q) ==
    user'.at \in {"reset", "drop"} /\ q = user'.path =>
        \/ user.at \in {"reset", "drop"} /\ q = user.path
        \/ /\ doc[q] # NoDoc /\ doc[q].owner = NoJob /\ UNCHANGED <<doc, erased>>
           /\ \/ disk'[Out(q)] # "made"
              \/ ~doc[q].named /\ disk'[Out(q)] = disk[Out(q)]


\* Every step does one of these to a document.
LEMMA DocMoves == ASSUME Reconciled, NEW q \in Paths, [Next]_vars PROVE DocStep(q)
  <1> USE DEF Reconciled, Guarded, Types, DocsOK, DocStep, Same, Claimed, Collided, Linked,
    Settled, ReleasedAs, At, Section, others, aside, untouched
  <1>1. CASE ScanStep
    <2>1. CASE StartScan
      BY <2>1 DEF StartScan
    <2>2. CASE ReadDocuments
      BY <2>2 DEF ReadDocuments
    <2>3. CASE Stat
      BY <2>3 DEF Stat
    <2>4. CASE Add
      BY <2>4 DEF Add
    <2>5. CASE ReadPending
      BY <2>5 DEF ReadPending
    <2>6. CASE ReadQueued
      BY <2>6 DEF ReadQueued
    <2>7. CASE ListPending
      BY <2>7 DEF ListPending
    <2>8. CASE ListRunning
      BY <2>8 DEF ListRunning
    <2>9. CASE EndReconcile
      BY <2>9 DEF EndReconcile
    <2>10. CASE ReadFinished
      BY <2>10 DEF ReadFinished
    <2>11. CASE ReadFiles
      BY <2>11 DEF ReadFiles
    <2>12. CASE ReadOther
      BY <2>12 DEF ReadOther
    <2>13. CASE EndScan
      BY <2>13 DEF EndScan
    <2>14. ASSUME NEW p \in Paths, Exists(p) PROVE DocStep(q)
      BY <2>14 DEF Exists
    <2>15. ASSUME NEW p \in Paths, EnqueueProbe(p) PROVE DocStep(q)
      BY <2>15 DEF EnqueueProbe
    <2>16. ASSUME NEW p \in Paths, Ignore(p) PROVE DocStep(q)
      <3>1. CASE doc[p] = NoDoc
        BY <2>16, <3>1 DEF Ignore
      <3>2. CASE doc[p] # NoDoc
        <4>1. doc[p] \in Docs /\ doc' = [doc EXCEPT ![p] = [@ EXCEPT !.status = "ignored"]]
          BY <2>16, <3>2 DEF Ignore
        <4>2. doc'[p] = [doc[p] EXCEPT !.status = "ignored"]
          BY <4>1
        <4>3. doc'[p] \in Docs /\ Same(p) /\ (q # p => doc'[q] = doc[q])
          BY <4>1, <4>2 DEF Docs
        <4> QED
          BY <3>2, <4>3, DocAssumption
      <3> QED
        BY <3>1, <3>2
    <2>17. ASSUME NEW p \in Paths, Redrive(p) PROVE DocStep(q)
      BY <2>17 DEF Redrive
    <2>18. ASSUME NEW m \in Media, Walk(m) PROVE DocStep(q)
      BY <2>18 DEF Walk
    <2>19. ASSUME NEW j \in JobIds, RemoveJob(j) PROVE DocStep(q)
      BY <2>19 DEF RemoveJob
    <2> QED
      BY <1>1, <2>1, <2>2, <2>3, <2>4, <2>5, <2>6, <2>7, <2>8, <2>9, <2>10, <2>11, <2>12,
        <2>13, <2>14, <2>15, <2>16, <2>17, <2>18, <2>19 DEF ScanStep
  <1>2. ASSUME NEW j \in JobIds, NEW p \in Paths, LoopStep(j, p) PROVE DocStep(q)
    <2>1. CASE ProbeRefused(j, p)
      BY <2>1 DEF ProbeRefused
    <2>2. CASE ProbeUnmatched(j, p)
      <3>1. doc[p] \in Docs /\ doc[p] # NoDoc
        BY <2>2, DocAssumption, ScanAssumption DEF ProbeUnmatched, Is
      <3>2. q # p => doc'[q] = doc[q]
        BY <2>2 DEF ProbeUnmatched
      <3>3. /\ doc'[p].owner = doc[p].owner /\ doc'[p].named = doc[p].named
            /\ doc'[p].phase = doc[p].phase /\ doc'[p].result = doc[p].result
        BY <2>2, <3>1 DEF ProbeUnmatched, Docs
      <3>4. doc'[p] \in Docs
        BY <2>2, <3>1 DEF ProbeUnmatched, Docs
      <3>5. doc'[p] # NoDoc
        BY <3>4, DocAssumption
      <3> QED
        BY <2>2, <3>1, <3>2, <3>3, <3>5 DEF ProbeUnmatched
    <2>3. CASE ProbeMatched(j, p)
      <3>1. doc[p] \in Docs /\ doc[p] # NoDoc
        BY <2>3, DocAssumption, ScanAssumption DEF ProbeMatched, Is
      <3>2. q # p => doc'[q] = doc[q]
        BY <2>3 DEF ProbeMatched
      <3>3. /\ doc'[p].owner = doc[p].owner /\ doc'[p].named = doc[p].named
            /\ doc'[p].phase = doc[p].phase /\ doc'[p].result = doc[p].result
        BY <2>3, <3>1 DEF ProbeMatched, Docs
      <3>4. doc'[p] \in Docs
        BY <2>3, <3>1 DEF ProbeMatched, Docs
      <3>5. doc'[p] # NoDoc
        BY <3>4, DocAssumption
      <3> QED
        BY <2>3, <3>1, <3>2, <3>3, <3>5 DEF ProbeMatched
    <2>4. CASE Skip(j, p)
      BY <2>4 DEF Skip
    <2>5. CASE Collide(j, p)
      <3>1. doc[p] \in Docs /\ doc[p] # NoDoc
        BY <2>5, DocAssumption, ScanAssumption DEF Collide, Preparable
      <3>2. q # p => doc'[q] = doc[q]
        BY <2>5 DEF Collide
      <3>3. /\ doc'[p].owner = doc[p].owner /\ doc'[p].named = FALSE
            /\ doc[p].owner = NoJob /\ (doc[p].named => Out(p) \in erased')
        BY <2>5, <3>1 DEF Collide, Preparable, Docs
      <3>4. doc'[p] \in Docs
        <4>1. PICK status \in {"failed", "queued"} :
                doc' = [doc EXCEPT ![p].result = "failed", ![p].named = FALSE, ![p].status = status]
          BY <2>5 DEF Collide
        <4>2. doc' = [doc EXCEPT ![p] = [@ EXCEPT !.result = "failed", !.named = FALSE,
                                                   !.status = status]]
          BY <4>1
        <4>3. [doc[p] EXCEPT !.result = "failed", !.named = FALSE, !.status = status] \in Docs
          BY <3>1 DEF Docs
        <4> QED
          BY <4>2, <4>3
      <3>5. doc'[p] # NoDoc
        BY <3>4, DocAssumption
      <3> QED
        BY <2>5, <3>1, <3>2, <3>3, <3>5 DEF Collide
    <2>6. CASE Claim(j, p)
      <3>1. doc[p] \in Docs /\ doc[p] # NoDoc
        BY <2>6, DocAssumption, ScanAssumption DEF Claim, Preparable
      <3>2. q # p => doc'[q] = doc[q]
        BY <2>6 DEF Claim
      <3>3. doc'[p].owner = j /\ doc'[p].named = TRUE
        BY <2>6, <3>1 DEF Claim, Docs
      <3>4. doc'[p] \in Docs
        <4>1. doc' = [doc EXCEPT ![p] = [@ EXCEPT !.status = "processing", !.owner = j,
                                                   !.phase = "processing", !.named = TRUE]]
          BY <2>6 DEF Claim
        <4>2. [doc[p] EXCEPT !.status = "processing", !.owner = j, !.phase = "processing",
                             !.named = TRUE] \in Docs
          BY <3>1 DEF Docs
        <4> QED
          BY <4>1, <4>2
      <3>5. doc'[p] # NoDoc
        BY <3>4, DocAssumption
      <3> QED
        BY <2>6, <3>1, <3>2, <3>3, <3>5, ScanAssumption DEF Claim, Loop, Preparable
    <2> QED
      BY <1>2, <2>1, <2>2, <2>3, <2>4, <2>5, <2>6 DEF LoopStep
  <1>3. ASSUME NEW j \in JobIds, NEW p \in Paths, TaskStep(j, p) PROVE DocStep(q)
    <2>1. CASE Link(j, p)
      <3>1. doc[p] \in Docs /\ doc[p] # NoDoc
        BY <2>1, DocAssumption, ScanAssumption DEF Link, Owned, Owner
      <3>2. q # p => doc'[q] = doc[q]
        BY <2>1 DEF Link
      <3>3. /\ doc'[p].owner = doc[p].owner /\ doc'[p].named = doc[p].named
            /\ doc'[p].phase = "committing"
        BY <2>1, <3>1 DEF Link, Docs
      <3>4. doc'[p] \in Docs
        BY <2>1, <3>1 DEF Link, Docs
      <3>5. doc'[p] # NoDoc
        BY <3>4, DocAssumption
      <3> QED
        BY <2>1, <3>1, <3>2, <3>3, <3>5, ScanAssumption DEF Link, Owned, Owner
    <2>2. CASE Persist(j, p)
      <3>1. doc[p] \in Docs /\ doc[p] # NoDoc
        BY <2>2, DocAssumption, ScanAssumption DEF Persist, Owned, Owner
      <3>2. q # p => doc'[q] = doc[q]
        BY <2>2 DEF Persist
      <3>3. /\ doc'[p].owner = doc[p].owner /\ doc'[p].named = doc[p].named
            /\ doc'[p].phase = "settled" /\ doc'[p].result = "done"
        BY <2>2, <3>1 DEF Persist, Docs
      <3>4. doc'[p] \in Docs
        BY <2>2, <3>1 DEF Persist, Docs
      <3>5. doc'[p] # NoDoc
        BY <3>4, DocAssumption
      <3> QED
        BY <2>2, <3>1, <3>2, <3>3, <3>5, ScanAssumption DEF Persist, Owned, Owner
    <2>3. CASE Discard(j, p)
      <3>1. doc[p] \in Docs /\ doc[p] # NoDoc
        BY <2>3, DocAssumption, ScanAssumption DEF Discard, Owned, Owner
      <3>2. q # p => doc'[q] = doc[q]
        BY <2>3 DEF Discard
      <3>3. /\ doc'[p].owner = doc[p].owner /\ doc'[p].named = doc[p].named
            /\ doc'[p].phase = "settled"
            /\ doc[p].phase = "processing" \/ disk'[Out(p)] = "none"
        BY <2>3, <3>1, PathsOfVideos DEF Discard, Owned, Docs, Discovered, DiskOK
      <3>4. doc'[p] \in Docs
        <4>1. PICK result \in {"failed", doc[p].result} :
                doc' = [doc EXCEPT ![p] = [@ EXCEPT !.phase = "settled", !.result = result]]
          BY <2>3 DEF Discard
        <4>2. [doc[p] EXCEPT !.phase = "settled", !.result = result] \in Docs
          BY <3>1, <4>1 DEF Docs
        <4> QED
          BY <4>1, <4>2
      <3>5. doc'[p] # NoDoc
        BY <3>4, DocAssumption
      <3> QED
        BY <2>3, <3>1, <3>2, <3>3, <3>5, ScanAssumption DEF Discard, Owned, Owner
    <2>4. CASE Release(j, p)
      <3>1. doc[p] \in Docs /\ doc[p] # NoDoc
        BY <2>4, DocAssumption, ScanAssumption DEF Release, Owned, Owner
      <3>2. q # p => doc'[q] = doc[q]
        BY <2>4 DEF Release
      <3>3. /\ doc'[p].owner = NoJob
            /\ doc'[p].named = (doc[p].result = "done")
        BY <2>4, <3>1 DEF Release, Docs
      <3>4. doc'[p] \in Docs
        BY <2>4, <3>1 DEF Release, Docs
      <3>5. doc'[p] # NoDoc
        BY <3>4, DocAssumption
      <3> QED
        BY <2>4, <3>1, <3>2, <3>3, <3>5, ScanAssumption DEF Release, Owned, Owner
    <2>5. CASE LoseRunner(j, p)
      <3>1. doc[p] \in Docs /\ doc[p] # NoDoc
        BY <2>5, DocAssumption, ScanAssumption DEF LoseRunner, Owned, Owner
      <3>2. q # p => doc'[q] = doc[q]
        BY <2>5 DEF LoseRunner
      <3>3. /\ doc'[p].owner = NoJob /\ doc'[p].named = FALSE
        BY <2>5, <3>1 DEF LoseRunner, Docs
      <3>4. doc'[p] \in Docs
        BY <2>5, <3>1 DEF LoseRunner, Docs
      <3>5. doc'[p] # NoDoc
        BY <3>4, DocAssumption
      <3> QED
        BY <2>5, <3>1, <3>2, <3>3, <3>5, ScanAssumption DEF LoseRunner, Owned, Owner
    <2> QED
      BY <1>3, <2>1, <2>2, <2>3, <2>4, <2>5 DEF TaskStep
  <1>4. ASSUME NEW j \in JobIds, ReturnLost(j) PROVE DocStep(q)
    BY <1>4 DEF ReturnLost
  <1>5. CASE UserStep
    <2>1. CASE RequeueResets
      BY <2>1 DEF RequeueResets, UserOK
    <2>2. CASE RequeuePublishes
      <3>1. PICK j \in JobIds :
              doc' = IF Is(user.path, "pending") THEN [doc EXCEPT ![user.path].probe = j] ELSE doc
        BY <2>2 DEF RequeuePublishes
      <3>2. user.path \in Paths
        BY <2>2 DEF RequeuePublishes, UserOK
      <3>3. CASE ~Is(user.path, "pending")
        BY <3>1, <3>3
      <3>4. CASE Is(user.path, "pending")
        <4>1. doc' = [doc EXCEPT ![user.path] = [@ EXCEPT !.probe = j]] /\ doc[user.path] \in Docs
          BY <3>1, <3>2, <3>4 DEF Is
        <4>2. doc'[user.path] = [doc[user.path] EXCEPT !.probe = j]
          BY <3>2, <4>1
        <4>3. doc'[user.path] \in Docs /\ Same(user.path)
          BY <4>1, <4>2 DEF Docs
        <4>4. q # user.path => doc'[q] = doc[q]
          BY <4>1
        <4> QED
          BY <4>1, <4>3, <4>4, DocAssumption
      <3> QED
        BY <3>3, <3>4
    <2>3. CASE RemoveDocument
      BY <2>3 DEF RemoveDocument, UserOK, UserIdle
    <2>4. ASSUME NEW p \in Paths, Stop(p) PROVE DocStep(q)
      <3>1. doc[p] \in Docs /\ doc[p] # NoDoc
        BY <2>4, DocAssumption, ScanAssumption DEF Stop
      <3>2. q # p => doc'[q] = doc[q]
        BY <2>4 DEF Stop
      <3>3. /\ doc'[p].owner = doc[p].owner /\ doc'[p].named = doc[p].named
            /\ doc'[p].phase = doc[p].phase /\ doc'[p].result = doc[p].result
        BY <2>4, <3>1 DEF Stop, Docs
      <3>4. doc'[p] \in Docs
        BY <2>4, <3>1 DEF Stop, Docs
      <3>5. doc'[p] # NoDoc
        BY <3>4, DocAssumption
      <3> QED
        BY <2>4, <3>1, <3>2, <3>3, <3>5 DEF Stop
    <2>5. ASSUME NEW p \in Paths, RequeueDeletes(p) PROVE DocStep(q)
      BY <2>5 DEF RequeueDeletes
    <2>6. ASSUME NEW p \in Paths, RemoveFiles(p) PROVE DocStep(q)
      BY <2>6 DEF RemoveFiles
    <2>7. ASSUME NEW p \in Paths, PutFile(p) PROVE DocStep(q)
      BY <2>7 DEF PutFile
    <2> QED
      BY <1>5, <2>1, <2>2, <2>3, <2>4, <2>5, <2>6, <2>7 DEF UserStep
  <1>6. CASE UNCHANGED vars
    BY <1>6 DEF vars
  <1> QED
    BY <1>1, <1>2, <1>3, <1>4, <1>5, <1>6 DEF Next

\* Every step leaves an output so.
LEMMA OutputMoves == ASSUME Reconciled, NEW q \in Sources, [Next]_vars PROVE OutputStep(q)
  <1> USE DEF Reconciled, Guarded, OutputStep, At, others, aside, untouched
  <1>1. CASE ScanStep
    <2>1. CASE StartScan
      BY <2>1 DEF StartScan
    <2>2. CASE ReadDocuments
      BY <2>2 DEF ReadDocuments
    <2>3. CASE Stat
      BY <2>3 DEF Stat
    <2>4. CASE Add
      BY <2>4 DEF Add
    <2>5. CASE ReadPending
      BY <2>5 DEF ReadPending
    <2>6. CASE ReadQueued
      BY <2>6 DEF ReadQueued
    <2>7. CASE ListPending
      BY <2>7 DEF ListPending
    <2>8. CASE ListRunning
      BY <2>8 DEF ListRunning
    <2>9. CASE EndReconcile
      BY <2>9 DEF EndReconcile
    <2>10. CASE ReadFinished
      BY <2>10 DEF ReadFinished
    <2>11. CASE ReadFiles
      BY <2>11 DEF ReadFiles
    <2>12. CASE ReadOther
      BY <2>12 DEF ReadOther
    <2>13. CASE EndScan
      BY <2>13 DEF EndScan
    <2>14. ASSUME NEW p \in Paths, Exists(p) PROVE OutputStep(q)
      BY <2>14 DEF Exists
    <2>15. ASSUME NEW p \in Paths, EnqueueProbe(p) PROVE OutputStep(q)
      BY <2>15 DEF EnqueueProbe
    <2>16. ASSUME NEW p \in Paths, Ignore(p) PROVE OutputStep(q)
      BY <2>16 DEF Ignore
    <2>17. ASSUME NEW p \in Paths, Redrive(p) PROVE OutputStep(q)
      BY <2>17 DEF Redrive
    <2>18. ASSUME NEW m \in Media, Walk(m) PROVE OutputStep(q)
      BY <2>18 DEF Walk
    <2>19. ASSUME NEW j \in JobIds, RemoveJob(j) PROVE OutputStep(q)
      BY <2>19 DEF RemoveJob
    <2> QED
      BY <1>1, <2>1, <2>2, <2>3, <2>4, <2>5, <2>6, <2>7, <2>8, <2>9, <2>10, <2>11, <2>12,
        <2>13, <2>14, <2>15, <2>16, <2>17, <2>18, <2>19 DEF ScanStep
  <1>2. ASSUME NEW j \in JobIds, NEW p \in Paths, LoopStep(j, p) PROVE OutputStep(q)
    <2>1. CASE ProbeRefused(j, p)
      BY <2>1 DEF ProbeRefused
    <2>2. CASE ProbeUnmatched(j, p)
      BY <2>2 DEF ProbeUnmatched
    <2>3. CASE ProbeMatched(j, p)
      BY <2>3 DEF ProbeMatched
    <2>4. CASE Skip(j, p)
      BY <2>4 DEF Skip
    <2>5. CASE Collide(j, p)
      BY <2>5, PathsOfVideos DEF Collide
    <2>6. CASE Claim(j, p)
      BY <2>6 DEF Claim
    <2> QED
      BY <1>2, <2>1, <2>2, <2>3, <2>4, <2>5, <2>6 DEF LoopStep
  <1>3. ASSUME NEW j \in JobIds, NEW p \in Paths, TaskStep(j, p) PROVE OutputStep(q)
    <2>1. CASE Link(j, p)
      <3>1. doc[p] # NoDoc /\ doc[p].owner = j /\ doc[p].phase = "processing" /\ Section(p)
        BY <2>1, ScanAssumption DEF Link, Owned, Owner
      <3>2. p \in Sources
        BY <3>1, ScanAssumption DEF Discovered, NamedKnown, Owner, Names
      <3>3. CASE p # q
        BY <2>1, <3>2, <3>3, PathsOfVideos DEF Link
      <3>4. CASE p = q
        <4>1. doc[p] \in Docs /\ doc' = [doc EXCEPT ![p] = [@ EXCEPT !.phase = "committing"]]
          BY <2>1, <3>1, PathsOfVideos DEF Link, Types, DocsOK
        <4>2. doc'[p] = [doc[p] EXCEPT !.phase = "committing"]
          BY <4>1, DocsKept DEF Types, DocsOK
        <4>3. doc'[p] \in Docs /\ doc'[p].owner = doc[p].owner /\ doc'[p].named = doc[p].named
              /\ doc'[p].phase = "committing"
          BY <4>1, <4>2 DEF Docs
        <4> QED
          BY <2>1, <3>1, <3>4, <4>3, DocAssumption, ScanAssumption DEF Link, Linked
      <3> QED
        BY <3>3, <3>4
    <2>2. CASE Persist(j, p)
      BY <2>2 DEF Persist
    <2>3. CASE Discard(j, p)
      BY <2>3, PathsOfVideos DEF Discard
    <2>4. CASE Release(j, p)
      BY <2>4 DEF Release
    <2>5. CASE LoseRunner(j, p)
      BY <2>5 DEF LoseRunner
    <2> QED
      BY <1>3, <2>1, <2>2, <2>3, <2>4, <2>5 DEF TaskStep
  <1>4. ASSUME NEW j \in JobIds, ReturnLost(j) PROVE OutputStep(q)
    BY <1>4 DEF ReturnLost
  <1>5. CASE UserStep
    <2>1. CASE RequeueResets
      BY <2>1 DEF RequeueResets
    <2>2. CASE RequeuePublishes
      BY <2>2 DEF RequeuePublishes
    <2>3. CASE RemoveDocument
      BY <2>3 DEF RemoveDocument
    <2>4. ASSUME NEW p \in Paths, Stop(p) PROVE OutputStep(q)
      BY <2>4 DEF Stop
    <2>5. ASSUME NEW p \in Paths, RequeueDeletes(p) PROVE OutputStep(q)
      BY <2>5, PathsOfVideos DEF RequeueDeletes
    <2>6. ASSUME NEW p \in Paths, RemoveFiles(p) PROVE OutputStep(q)
      BY <2>6, PathsOfVideos DEF RemoveFiles
    <2>7. ASSUME NEW p \in Paths, PutFile(p) PROVE OutputStep(q)
      BY <2>7, PathsOfVideos DEF PutFile
    <2> QED
      BY <1>5, <2>1, <2>2, <2>3, <2>4, <2>5, <2>6, <2>7 DEF UserStep
  <1>6. CASE UNCHANGED vars
    BY <1>6 DEF vars
  <1> QED
    BY <1>1, <1>2, <1>3, <1>4, <1>5, <1>6 DEF Next

\* Every step of a scan leaves so what it may discover.
LEMMA DiscoverMoves == ASSUME Reconciled, NEW q \in Paths, [Next]_vars PROVE DiscoverStep(q)
  <1> USE DEF Reconciled, Guarded, Types, ScanOK, ScanStates, ScanSteps, DiscoverStep,
    Discovering, At, others, aside, untouched
  <1>1. CASE ScanStep
    <2>1. CASE StartScan
      BY <2>1 DEF StartScan, ScanIdle
    <2>2. CASE ReadDocuments
      BY <2>2 DEF ReadDocuments
    <2>3. CASE Stat
      BY <2>3 DEF Stat
    <2>4. CASE Add
      BY <2>4 DEF Add
    <2>5. CASE ReadPending
      BY <2>5 DEF ReadPending
    <2>6. CASE ReadQueued
      BY <2>6 DEF ReadQueued, ScanIdle
    <2>7. CASE ListPending
      BY <2>7 DEF ListPending
    <2>8. CASE ListRunning
      BY <2>8 DEF ListRunning
    <2>9. CASE EndReconcile
      BY <2>9 DEF EndReconcile, ScanIdle
    <2>10. CASE ReadFinished
      BY <2>10 DEF ReadFinished
    <2>11. CASE ReadFiles
      BY <2>11 DEF ReadFiles
    <2>12. CASE ReadOther
      BY <2>12 DEF ReadOther, ScanIdle
    <2>13. CASE EndScan
      BY <2>13 DEF EndScan, ScanIdle
    <2>14. ASSUME NEW p \in Paths, Exists(p) PROVE DiscoverStep(q)
      BY <2>14 DEF Exists
    <2>15. ASSUME NEW p \in Paths, EnqueueProbe(p) PROVE DiscoverStep(q)
      BY <2>15 DEF EnqueueProbe
    <2>16. ASSUME NEW p \in Paths, Ignore(p) PROVE DiscoverStep(q)
      BY <2>16 DEF Ignore
    <2>17. ASSUME NEW p \in Paths, Redrive(p) PROVE DiscoverStep(q)
      BY <2>17 DEF Redrive
    <2>18. ASSUME NEW m \in Media, Walk(m) PROVE DiscoverStep(q)
      BY <2>18 DEF Walk
    <2>19. ASSUME NEW j \in JobIds, RemoveJob(j) PROVE DiscoverStep(q)
      BY <2>19 DEF RemoveJob
    <2> QED
      BY <1>1, <2>1, <2>2, <2>3, <2>4, <2>5, <2>6, <2>7, <2>8, <2>9, <2>10, <2>11, <2>12,
        <2>13, <2>14, <2>15, <2>16, <2>17, <2>18, <2>19 DEF ScanStep
  <1>2. ASSUME NEW j \in JobIds, NEW p \in Paths, LoopStep(j, p) PROVE DiscoverStep(q)
    <2>1. CASE ProbeRefused(j, p)
      BY <2>1 DEF ProbeRefused, Loop
    <2>2. CASE ProbeUnmatched(j, p)
      BY <2>2 DEF ProbeUnmatched, Loop
    <2>3. CASE ProbeMatched(j, p)
      BY <2>3 DEF ProbeMatched, Loop
    <2>4. CASE Skip(j, p)
      BY <2>4 DEF Skip, Loop
    <2>5. CASE Collide(j, p)
      BY <2>5 DEF Collide, Loop
    <2>6. CASE Claim(j, p)
      BY <2>6 DEF Claim, Loop
    <2> QED
      BY <1>2, <2>1, <2>2, <2>3, <2>4, <2>5, <2>6 DEF LoopStep
  <1>3. ASSUME NEW j \in JobIds, NEW p \in Paths, TaskStep(j, p) PROVE DiscoverStep(q)
    <2>1. CASE Link(j, p)
      BY <2>1 DEF Link
    <2>2. CASE Persist(j, p)
      BY <2>2 DEF Persist
    <2>3. CASE Discard(j, p)
      BY <2>3 DEF Discard
    <2>4. CASE Release(j, p)
      BY <2>4 DEF Release
    <2>5. CASE LoseRunner(j, p)
      BY <2>5 DEF LoseRunner
    <2> QED
      BY <1>3, <2>1, <2>2, <2>3, <2>4, <2>5 DEF TaskStep
  <1>4. ASSUME NEW j \in JobIds, ReturnLost(j) PROVE DiscoverStep(q)
    BY <1>4 DEF ReturnLost
  <1>5. CASE UserStep
    <2>1. CASE RequeueResets
      BY <2>1 DEF RequeueResets
    <2>2. CASE RequeuePublishes
      BY <2>2 DEF RequeuePublishes
    <2>3. CASE RemoveDocument
      BY <2>3 DEF RemoveDocument
    <2>4. ASSUME NEW p \in Paths, Stop(p) PROVE DiscoverStep(q)
      BY <2>4 DEF Stop
    <2>5. ASSUME NEW p \in Paths, RequeueDeletes(p) PROVE DiscoverStep(q)
      BY <2>5 DEF RequeueDeletes
    <2>6. ASSUME NEW p \in Paths, RemoveFiles(p) PROVE DiscoverStep(q)
      BY <2>6 DEF RemoveFiles
    <2>7. ASSUME NEW p \in Paths, PutFile(p) PROVE DiscoverStep(q)
      BY <2>7 DEF PutFile
    <2> QED
      BY <1>5, <2>1, <2>2, <2>3, <2>4, <2>5, <2>6, <2>7 DEF UserStep
  <1>6. CASE UNCHANGED vars
    BY <1>6 DEF vars
  <1> QED
    BY <1>1, <1>2, <1>3, <1>4, <1>5, <1>6 DEF Next

\* Every step leaves the user's procedure so.
LEMMA UserMoves == ASSUME Reconciled, NEW q \in Paths, [Next]_vars PROVE UserMove(q)
  <1> USE DEF Reconciled, Guarded, Types, UserOK, UserMove, others, aside, untouched
  <1>1. CASE ScanStep
    <2>1. CASE StartScan
      BY <2>1 DEF StartScan
    <2>2. CASE ReadDocuments
      BY <2>2 DEF ReadDocuments
    <2>3. CASE Stat
      BY <2>3 DEF Stat
    <2>4. CASE Add
      BY <2>4 DEF Add
    <2>5. CASE ReadPending
      BY <2>5 DEF ReadPending
    <2>6. CASE ReadQueued
      BY <2>6 DEF ReadQueued
    <2>7. CASE ListPending
      BY <2>7 DEF ListPending
    <2>8. CASE ListRunning
      BY <2>8 DEF ListRunning
    <2>9. CASE EndReconcile
      BY <2>9 DEF EndReconcile
    <2>10. CASE ReadFinished
      BY <2>10 DEF ReadFinished
    <2>11. CASE ReadFiles
      BY <2>11 DEF ReadFiles
    <2>12. CASE ReadOther
      BY <2>12 DEF ReadOther
    <2>13. CASE EndScan
      BY <2>13 DEF EndScan
    <2>14. ASSUME NEW p \in Paths, Exists(p) PROVE UserMove(q)
      BY <2>14 DEF Exists
    <2>15. ASSUME NEW p \in Paths, EnqueueProbe(p) PROVE UserMove(q)
      BY <2>15 DEF EnqueueProbe
    <2>16. ASSUME NEW p \in Paths, Ignore(p) PROVE UserMove(q)
      BY <2>16 DEF Ignore
    <2>17. ASSUME NEW p \in Paths, Redrive(p) PROVE UserMove(q)
      BY <2>17 DEF Redrive
    <2>18. ASSUME NEW m \in Media, Walk(m) PROVE UserMove(q)
      BY <2>18 DEF Walk
    <2>19. ASSUME NEW j \in JobIds, RemoveJob(j) PROVE UserMove(q)
      BY <2>19 DEF RemoveJob
    <2> QED
      BY <1>1, <2>1, <2>2, <2>3, <2>4, <2>5, <2>6, <2>7, <2>8, <2>9, <2>10, <2>11, <2>12,
        <2>13, <2>14, <2>15, <2>16, <2>17, <2>18, <2>19 DEF ScanStep
  <1>2. ASSUME NEW j \in JobIds, NEW p \in Paths, LoopStep(j, p) PROVE UserMove(q)
    <2>1. CASE ProbeRefused(j, p)
      BY <2>1 DEF ProbeRefused
    <2>2. CASE ProbeUnmatched(j, p)
      BY <2>2 DEF ProbeUnmatched
    <2>3. CASE ProbeMatched(j, p)
      BY <2>3 DEF ProbeMatched
    <2>4. CASE Skip(j, p)
      BY <2>4 DEF Skip
    <2>5. CASE Collide(j, p)
      BY <2>5 DEF Collide
    <2>6. CASE Claim(j, p)
      BY <2>6 DEF Claim
    <2> QED
      BY <1>2, <2>1, <2>2, <2>3, <2>4, <2>5, <2>6 DEF LoopStep
  <1>3. ASSUME NEW j \in JobIds, NEW p \in Paths, TaskStep(j, p) PROVE UserMove(q)
    <2>1. CASE Link(j, p)
      BY <2>1 DEF Link
    <2>2. CASE Persist(j, p)
      BY <2>2 DEF Persist
    <2>3. CASE Discard(j, p)
      BY <2>3 DEF Discard
    <2>4. CASE Release(j, p)
      BY <2>4 DEF Release
    <2>5. CASE LoseRunner(j, p)
      BY <2>5 DEF LoseRunner
    <2> QED
      BY <1>3, <2>1, <2>2, <2>3, <2>4, <2>5 DEF TaskStep
  <1>4. ASSUME NEW j \in JobIds, ReturnLost(j) PROVE UserMove(q)
    BY <1>4 DEF ReturnLost
  <1>5. CASE UserStep
    <2>1. CASE RequeueResets
      BY <2>1 DEF RequeueResets
    <2>2. CASE RequeuePublishes
      BY <2>2 DEF RequeuePublishes, UserIdle
    <2>3. CASE RemoveDocument
      BY <2>3 DEF RemoveDocument, UserIdle
    <2>4. ASSUME NEW p \in Paths, Stop(p) PROVE UserMove(q)
      BY <2>4 DEF Stop
    <2>5. ASSUME NEW p \in Paths, RequeueDeletes(p) PROVE UserMove(q)
      <3>1. /\ doc[p] # NoDoc /\ doc[p].owner = NoJob /\ UNCHANGED <<doc, erased>>
            /\ user' = [at |-> "reset", path |-> p]
            /\ disk' = IF doc[p].named THEN [disk EXCEPT ![Out(p)] = "none"] ELSE disk
        BY <2>5 DEF RequeueDeletes, Unsettled
      <3>2. user'.path = p
        BY <3>1
      <3>3. CASE doc[p].named
        <4>1. disk'[Out(p)] = "none"
          BY <3>1, <3>3, PathsOfVideos DEF Discovered, DiskOK
        <4> QED
          BY <3>1, <3>2, <4>1
      <3>4. CASE ~doc[p].named
        BY <3>1, <3>2, <3>4
      <3> QED
        BY <3>3, <3>4
    <2>6. ASSUME NEW p \in Paths, RemoveFiles(p) PROVE UserMove(q)
      BY <2>6, PathsOfVideos DEF RemoveFiles, Unsettled
    <2>7. ASSUME NEW p \in Paths, PutFile(p) PROVE UserMove(q)
      BY <2>7 DEF PutFile
    <2> QED
      BY <1>5, <2>1, <2>2, <2>3, <2>4, <2>5, <2>6, <2>7 DEF UserStep
  <1>6. CASE UNCHANGED vars
    BY <1>6 DEF vars
  <1> QED
    BY <1>1, <1>2, <1>3, <1>4, <1>5, <1>6 DEF Next

\* Every step keeps the types of the disk.
LEMMA DiskKept == ASSUME DiskOK, [Next]_vars PROVE DiskOK'
  <1> USE DEF DiskOK, others, aside, untouched
  <1>1. CASE ScanStep
    <2>1. CASE StartScan
      BY <2>1 DEF StartScan
    <2>2. CASE ReadDocuments
      BY <2>2 DEF ReadDocuments
    <2>3. CASE Stat
      BY <2>3 DEF Stat
    <2>4. CASE Add
      BY <2>4 DEF Add
    <2>5. CASE ReadPending
      BY <2>5 DEF ReadPending
    <2>6. CASE ReadQueued
      BY <2>6 DEF ReadQueued
    <2>7. CASE ListPending
      BY <2>7 DEF ListPending
    <2>8. CASE ListRunning
      BY <2>8 DEF ListRunning
    <2>9. CASE EndReconcile
      BY <2>9 DEF EndReconcile
    <2>10. CASE ReadFinished
      BY <2>10 DEF ReadFinished
    <2>11. CASE ReadFiles
      BY <2>11 DEF ReadFiles
    <2>12. CASE ReadOther
      BY <2>12 DEF ReadOther
    <2>13. CASE EndScan
      BY <2>13 DEF EndScan
    <2>14. ASSUME NEW p \in Paths, Exists(p) PROVE DiskOK'
      BY <2>14 DEF Exists
    <2>15. ASSUME NEW p \in Paths, EnqueueProbe(p) PROVE DiskOK'
      BY <2>15 DEF EnqueueProbe
    <2>16. ASSUME NEW p \in Paths, Ignore(p) PROVE DiskOK'
      BY <2>16 DEF Ignore
    <2>17. ASSUME NEW p \in Paths, Redrive(p) PROVE DiskOK'
      BY <2>17 DEF Redrive
    <2>18. ASSUME NEW m \in Media, Walk(m) PROVE DiskOK'
      BY <2>18 DEF Walk
    <2>19. ASSUME NEW j \in JobIds, RemoveJob(j) PROVE DiskOK'
      BY <2>19 DEF RemoveJob
    <2> QED
      BY <1>1, <2>1, <2>2, <2>3, <2>4, <2>5, <2>6, <2>7, <2>8, <2>9, <2>10, <2>11, <2>12,
        <2>13, <2>14, <2>15, <2>16, <2>17, <2>18, <2>19 DEF ScanStep
  <1>2. ASSUME NEW j \in JobIds, NEW p \in Paths, LoopStep(j, p) PROVE DiskOK'
    <2>1. CASE ProbeRefused(j, p)
      BY <2>1 DEF ProbeRefused
    <2>2. CASE ProbeUnmatched(j, p)
      BY <2>2 DEF ProbeUnmatched
    <2>3. CASE ProbeMatched(j, p)
      BY <2>3 DEF ProbeMatched
    <2>4. CASE Skip(j, p)
      BY <2>4 DEF Skip
    <2>5. CASE Collide(j, p)
      BY <2>5 DEF Collide
    <2>6. CASE Claim(j, p)
      BY <2>6 DEF Claim
    <2> QED
      BY <1>2, <2>1, <2>2, <2>3, <2>4, <2>5, <2>6 DEF LoopStep
  <1>3. ASSUME NEW j \in JobIds, NEW p \in Paths, TaskStep(j, p) PROVE DiskOK'
    <2>1. CASE Link(j, p)
      BY <2>1, PathsOfVideos DEF Link
    <2>2. CASE Persist(j, p)
      BY <2>2 DEF Persist
    <2>3. CASE Discard(j, p)
      BY <2>3, PathsOfVideos DEF Discard
    <2>4. CASE Release(j, p)
      BY <2>4 DEF Release
    <2>5. CASE LoseRunner(j, p)
      BY <2>5 DEF LoseRunner
    <2> QED
      BY <1>3, <2>1, <2>2, <2>3, <2>4, <2>5 DEF TaskStep
  <1>4. ASSUME NEW j \in JobIds, ReturnLost(j) PROVE DiskOK'
    BY <1>4 DEF ReturnLost
  <1>5. CASE UserStep
    <2>1. CASE RequeueResets
      BY <2>1 DEF RequeueResets
    <2>2. CASE RequeuePublishes
      BY <2>2 DEF RequeuePublishes
    <2>3. CASE RemoveDocument
      BY <2>3 DEF RemoveDocument
    <2>4. ASSUME NEW p \in Paths, Stop(p) PROVE DiskOK'
      BY <2>4 DEF Stop
    <2>5. ASSUME NEW p \in Paths, RequeueDeletes(p) PROVE DiskOK'
      BY <2>5, PathsOfVideos DEF RequeueDeletes
    <2>6. ASSUME NEW p \in Paths, RemoveFiles(p) PROVE DiskOK'
      BY <2>6, PathsOfVideos DEF RemoveFiles
    <2>7. ASSUME NEW p \in Paths, PutFile(p) PROVE DiskOK'
      BY <2>7 DEF PutFile
    <2> QED
      BY <1>5, <2>1, <2>2, <2>3, <2>4, <2>5, <2>6, <2>7 DEF UserStep
  <1>6. CASE UNCHANGED vars
    BY <1>6 DEF vars
  <1> QED
    BY <1>1, <1>2, <1>3, <1>4, <1>5, <1>6 DEF Next

\* So an output whose result stands never gets a document.
LEMMA DiscoveredKept == ASSUME Reconciled, [Next]_vars PROVE Discovered'
  <1>1. \A q \in Paths : DocStep(q) /\ DiscoverStep(q) /\ UserMove(q)
    BY DocMoves, DiscoverMoves, UserMoves
  <1>2. \A q \in Sources : OutputStep(q)
    BY OutputMoves
  <1>3. Types /\ Types'
    BY GuardedKept DEF Reconciled, Guarded
  <1>4. /\ scan'.at \in {"stat", "add"} => scan'.path \in Paths
        /\ scan.at \in {"stat", "add"} => scan.path \in Paths
        /\ user'.at # "idle" => user'.path \in Paths
        /\ user.at # "idle" => user.path \in Paths
    BY <1>3 DEF Types, ScanOK, UserOK
  <1>5. NamedKnown /\ ExcludedKnown /\ AddedKnown /\ UserKnown /\ StandingKnown
    BY DEF Reconciled, Discovered
  <1>6. ASSUME NEW p \in Sources, Names(p)
        PROVE  doc[Out(p)] = NoDoc /\ Out(p) \in Known /\ Out(p) \in Paths
    BY <1>5, <1>6, PathsOfVideos DEF ExcludedKnown, Known
  <1>7. ASSUME NEW p \in Paths
        PROVE  /\ Owner(p)' # NoJob => Names(p)'
               /\ Names(p)' => Names(p) \/ Claimed(p)
               /\ Names(p)' => p \in Sources
    <2>1. DocStep(p) /\ (Owner(p) # NoJob => Names(p)) /\ (Names(p) => p \in Sources)
      BY <1>1, <1>5 DEF NamedKnown
    <2>2. Claimed(p) => p \in Sources
      BY PathsOfVideos DEF Claimed, Collides
    <2> QED
      BY <2>1, <2>2, FreshDoc
        DEF DocStep, Owner, Names, Same, Claimed, Collided, Linked, Settled, ReleasedAs
  <1>8. NamedKnown'
    BY <1>7 DEF NamedKnown
  <1>9. ExcludedKnown'
    <2> SUFFICES ASSUME NEW p \in Sources, Names(p)'
                 PROVE  /\ doc'[Out(p)] = NoDoc
                        /\ scan'.at \in Discovering => Out(p) \notin scan'.left
                        /\ scan'.at \in {"stat", "add"} => Out(p) # scan'.path
      BY DEF ExcludedKnown
    <2>1. p \in Paths /\ Out(p) \in Paths
      BY PathsOfVideos
    <2>2. /\ doc[Out(p)] = NoDoc
          /\ scan.at \in Discovering => Out(p) \notin scan.left
          /\ scan.at \in {"stat", "add"} => Out(p) # scan.path
          /\ At("documents") => Out(p) \in Known
      <3>1. CASE Names(p)
        BY <1>5, <1>6, <3>1 DEF ExcludedKnown
      <3>2. CASE Claimed(p)
        BY <3>2 DEF Claimed, Collides, At, Discovering
      <3> QED
        BY <1>7, <2>1, <3>1, <3>2
    <2>3. ~(user.at \in {"reset", "drop"} /\ user.path = Out(p))
      BY <1>5, <2>2 DEF UserKnown
    <2>4. doc'[Out(p)] = NoDoc
      BY <1>1, <2>1, <2>2, <2>3 DEF DocStep, At
    <2> QED
      BY <1>1, <2>1, <2>2, <2>4 DEF DiscoverStep, At, Discovering
  <1>10. AddedKnown'
    <2> SUFFICES ASSUME scan'.at \in {"stat", "add"} PROVE doc'[scan'.path] = NoDoc
      BY DEF AddedKnown
    <2> DEFINE q == scan'.path
    <2>1. q \in Paths
      BY <1>4
    <2>2. CASE scan.at \in {"stat", "add"} /\ q = scan.path
      <3>1. doc[q] = NoDoc
        BY <1>5, <2>2 DEF AddedKnown
      <3>2. ~(user.at \in {"reset", "drop"} /\ user.path = q)
        BY <1>5, <3>1 DEF UserKnown
      <3> QED
        BY <1>1, <2>1, <2>2, <3>1, <3>2 DEF DocStep, At
    <2>3. CASE doc[q] = NoDoc /\ UNCHANGED doc
      BY <2>3
    <2> QED
      BY <1>1, <2>1, <2>2, <2>3 DEF DiscoverStep
  <1>11. UserKnown'
    <2> SUFFICES ASSUME user'.at \in {"reset", "drop"}
                 PROVE  /\ doc'[user'.path] # NoDoc /\ doc'[user'.path].owner = NoJob
                        /\ user'.path \in Sources => ~(disk'[Out(user'.path)] = "made" /\ Out(user'.path) \notin erased')
      BY DEF UserKnown, Standing
    <2> DEFINE q == user'.path
    <2>1. q \in Paths /\ DocStep(q) /\ UserMove(q)
      BY <1>1, <1>4
    <2>2. CASE user.at \in {"reset", "drop"} /\ q = user.path
      <3>1. /\ doc[q] # NoDoc /\ doc[q].owner = NoJob
            /\ q \in Sources => ~Standing(q)
        BY <1>5, <2>2 DEF UserKnown
      <3>2. q \notin Known
        BY <1>6, <3>1 DEF Known
      <3>3. doc'[q] # NoDoc /\ doc'[q].owner = NoJob
        BY <2>1, <2>2, <3>1, <3>2, FreshDoc DEF DocStep, Same, Claimed, Collided, Section
      <3>4. ASSUME q \in Sources PROVE ~(disk'[Out(q)] = "made" /\ Out(q) \notin erased')
        BY <1>2, <3>1, <3>4 DEF OutputStep, Standing
      <3> QED
        BY <3>3, <3>4
    <2>3. CASE /\ doc[q] # NoDoc /\ doc[q].owner = NoJob /\ UNCHANGED <<doc, erased>>
               /\ \/ disk'[Out(q)] # "made"
                  \/ ~doc[q].named /\ disk'[Out(q)] = disk[Out(q)]
      <3>1. ASSUME q \in Sources PROVE ~(disk'[Out(q)] = "made" /\ Out(q) \notin erased')
        BY <1>5, <2>3, <3>1 DEF StandingKnown, Standing, Names
      <3> QED
        BY <2>3, <3>1
    <2> QED
      BY <2>1, <2>2, <2>3 DEF UserMove
  <1>12. StandingKnown'
    <2> SUFFICES ASSUME NEW p \in Sources, Standing(p)'
                 PROVE  /\ Names(p)'
                        /\ Owner(p)' # NoJob => \/ doc'[p].phase = "committing"
                                                \/ /\ doc'[p].phase = "settled"
                                                   /\ doc'[p].result = "done"
      BY DEF StandingKnown
    <2>1. /\ p \in Paths /\ DocStep(p) /\ OutputStep(p) /\ p \notin Known
          /\ Owner(p) # NoJob => Names(p)
      BY <1>1, <1>2, <1>5, PathsOfVideos DEF NamedKnown
    <2>2. CASE doc[p] # NoDoc /\ doc'[p] # NoDoc /\ doc[p].owner # NoJob /\ Linked(p)
      BY <2>1, <2>2 DEF Linked, Owner, Names
    <2>3. CASE Standing(p)
      <3>1. /\ doc[p] # NoDoc /\ doc[p].named
            /\ doc[p].owner # NoJob => \/ doc[p].phase = "committing"
                                       \/ doc[p].phase = "settled" /\ doc[p].result = "done"
        BY <1>5, <2>3 DEF StandingKnown, Names, Owner
      <3>2. ~(user.at \in {"reset", "drop"} /\ user.path = p)
        BY <1>5, <2>3 DEF UserKnown
      <3>3. ~(At("add") /\ p = scan.path)
        BY <1>5, <3>1 DEF AddedKnown, At
      <3>4. ~Claimed(p) /\ ~Collided(p)
        BY <2>1, <3>1 DEF Claimed, Collides, Collided, Standing
      <3>5. CASE doc'[p] = doc[p] \/ (doc'[p] # NoDoc /\ Same(p))
        BY <3>1, <3>5 DEF Names, Owner, Same
      <3>6. CASE doc'[p] # NoDoc /\ doc[p].owner # NoJob /\ (Linked(p) \/ Settled(p) \/ ReleasedAs(p))
        BY <3>1, <3>6 DEF Names, Owner, Linked, Settled, ReleasedAs, Standing
      <3> QED
        BY <2>1, <3>1, <3>2, <3>3, <3>4, <3>5, <3>6 DEF DocStep
    <2> QED
      BY <2>1, <2>2, <2>3 DEF OutputStep, Standing
  <1> QED
    BY <1>8, <1>9, <1>10, <1>11, <1>12, DiskKept DEF Reconciled, Discovered


-----------------------------------------------------------------------------
(***************************************************************************)
(* What a scan has read never goes stale in a way that matters.            *)
(***************************************************************************)
\* A library that has been scanned and probed: no evidence, and nothing made yet.
LEMMA InitReconciled == ASSUME Init PROVE Reconciled
  <1>1. PICK idOf \in [Sources -> JobIds] :
          job = [j \in JobIds |->
                   IF \E p \in Sources : idOf[p] = j
                   THEN [status |-> "pending", type |-> "transcode",
                         path |-> CHOOSE p \in Sources : idOf[p] = j]
                   ELSE Unused]
    BY DEF Init
  <1>2. JobsOK
    <2> SUFFICES ASSUME NEW j \in JobIds PROVE job[j] \in JobRecords
      BY <1>1 DEF JobsOK
    <2>1. CASE \E p \in Sources : idOf[p] = j
      <3>1. (CHOOSE p \in Sources : idOf[p] = j) \in Paths
        BY <2>1, PathsOfVideos
      <3> QED
        BY <1>1, <2>1, <3>1 DEF JobRecords
    <2>2. CASE ~\E p \in Sources : idOf[p] = j
      BY <1>1, <2>2 DEF JobRecords, Unused
    <2> QED
      BY <2>1, <2>2
  <1>3. /\ [Fresh EXCEPT !.status = "queued"] \in Docs
        /\ [Fresh EXCEPT !.status = "queued"].owner = NoJob
        /\ [Fresh EXCEPT !.status = "queued"].probe = NoJob
        /\ [Fresh EXCEPT !.status = "queued"].named = FALSE
    BY DEF Fresh, Docs
  <1>4. /\ doc \in [Paths -> Docs \cup {NoDoc}]
        /\ \A p \in Paths : doc[p] # NoDoc =>
              doc[p].owner = NoJob /\ doc[p].probe = NoJob /\ doc[p].named = FALSE
    BY <1>3 DEF Init
  <1>5. \A p \in Paths : ~Names(p) /\ Owner(p) = NoJob
    BY <1>4 DEF Names, Owner
  <1>6. /\ disk \in [Paths -> {"none", "original", "made"}]
        /\ \A p \in Sources : disk[Out(p)] = "none"
    BY PathsOfVideos DEF Init
  <1>7. scan = ScanIdle /\ user = UserIdle
    BY DEF Init
  <1>8. Types
    BY <1>2, <1>4, <1>7
      DEF Types, DocsOK, ScanOK, ScanStates, ScanSteps, ScanIdle, UserOK, UserIdle
  <1>9. EvidenceKnown /\ ReadKnown /\ ExcessKnown
    BY <1>4, <1>7, ScanAssumption
      DEF EvidenceKnown, ReadKnown, ExcessKnown, OwnerOf, ProbeOf, ScanIdle, At
  <1>10. NamedKnown /\ ExcludedKnown
    BY <1>5, PathsOfVideos DEF NamedKnown, ExcludedKnown
  <1>11. AddedKnown /\ UserKnown
    BY <1>7 DEF AddedKnown, UserKnown, ScanIdle, UserIdle
  <1>12. DiskOK /\ StandingKnown
    BY <1>6 DEF DiskOK, StandingKnown, Standing
  <1> QED
    BY <1>8, <1>9, <1>10, <1>11, <1>12 DEF Reconciled, Guarded, Discovered

\* The reads of a scan, the evidence of the files and the user's deletions agree
\* at every step.
THEOREM ReconciledHolds == Spec => []Reconciled
  <1>1. Init => Reconciled
    BY InitReconciled
  <1>2. Reconciled /\ [Next]_vars => Reconciled'
    BY GuardedKept, DiscoveredKept DEF Reconciled
  <1> QED
    BY <1>1, <1>2, PTL DEF Spec

\* A pruning removes no job that is the owner or the probe of a file, however the
\* claims, releases and publications fall between its two reads and its removals
\* (job.js:190-206): what it removes was ended at one read and
\* unprotected at the other, and an ended job becomes nobody's evidence again.
THEOREM EvidenceStays == Spec => []EvidenceKept
  <1>1. ASSUME Reconciled PROVE EvidenceKept
    <2> SUFFICES ASSUME NEW p \in Paths, doc[p] # NoDoc,
                        NEW j \in {doc[p].owner, doc[p].probe} \ {NoJob}
                 PROVE  job[j].status # "pruned"
      BY DEF EvidenceKept
    <2>1. Types /\ EvidenceKnown
      BY <1>1 DEF Reconciled, Guarded
    <2>2. j \in JobIds
      BY <2>1 DEF Types, DocsOK, Docs
    <2>3. OwnerOf(p, j) \/ ProbeOf(p, j)
      BY DEF OwnerOf, ProbeOf
    <2> QED
      BY <2>1, <2>2, <2>3 DEF EvidenceKnown, Gone
  <1> QED
    BY <1>1, ReconciledHolds, PTL

\* A scan takes no output of the program for a new source while the result that
\* names it stands, though it read the directory, the documents and the file at
\* different times (scanner.js:107-148).
THEOREM NoOutputBecomesSource == Spec => []OutputsAreNotSources
  <1>1. ASSUME Reconciled PROVE OutputsAreNotSources
    <2> SUFFICES ASSUME NEW p \in Outputs, doc[p] # NoDoc, disk[p] = "made", p \notin erased
                 PROVE  FALSE
      BY DEF OutputsAreNotSources
    <2>1. PICK q \in Sources : p = Out(q)
      BY PathsOfVideos
    <2>2. Names(q)
      BY <1>1, <2>1 DEF Reconciled, Discovered, StandingKnown, Standing
    <2> QED
      BY <1>1, <2>1, <2>2 DEF Reconciled, Discovered, ExcludedKnown
  <1> QED
    BY <1>1, ReconciledHolds, PTL
=============================================================================
