---------------------------- MODULE ScanReconcile ----------------------------
(***************************************************************************)
(* The library scan (scanner.js): discovery, the probes of pending files,  *)
(* the re-drive of queued files and the pruning of old jobs.               *)
(*                                                                         *)
(* The queue loop runs a scan inline, so no probe and no claim falls in a  *)
(* scan.  What does: a transcode that ends, a runner that is lost, and the *)
(* user's stop, requeue and remove.  A step of the scan is one of its      *)
(* database or filesystem calls.  FileLifecycle and OutputCommit have the  *)
(* detail of the other parties: here a probe and a prepare are one step,   *)
(* each file has one transcode setting, and a path is a source or the      *)
(* output that the setting derives from it.  Scratch and backup files are  *)
(* named by the same fields of the document as the output.                 *)
(***************************************************************************)
EXTENDS Naturals, FiniteSets, FiniteSetsExt

CONSTANTS
    Media,      \* the videos of the library
    JobIds,     \* bound: jobs in a behaviour
    MaxScans,   \* bound: scans in a behaviour
    MaxLosses,  \* bound: runners lost in a behaviour
    Keep,       \* finished jobs a scan leaves (MAX_PAGE_SIZE)
    NoJob, NoDoc, NoPath

ASSUME ScanAssumption ==
    /\ MaxScans \in Nat /\ MaxLosses \in Nat /\ Keep \in Nat
    /\ NoJob \notin JobIds

VARIABLES
    disk,     \* what is at each path
    doc,      \* the file document of each path
    job,      \* the jobs
    scan,     \* the scan in progress
    lost,     \* jobs whose runner is gone and whose file is already queued again
    user,     \* the user's requeue or remove in progress
    scans, losses,
    erased    \* history: outputs whose result a later failure has replaced

vars == <<disk, doc, job, scan, lost, user, scans, losses, erased>>

Paths   == Media \X {"source", "output"}
Own(m)  == <<m, "source">>
Out(p)  == <<p[1], "output">>
Sources == {Own(m) : m \in Media}
Outputs == Paths \ Sources

Fresh == [status |-> "pending", owner |-> NoJob, phase |-> "none", probe |-> NoJob,
          result |-> "none", named |-> FALSE]
Docs == [status : {"pending", "queued", "processing", "transcoded", "failed", "ignored",
                   "stopped"},
         owner : JobIds \cup {NoJob}, phase : {"none", "processing", "committing", "settled"},
         probe : JobIds \cup {NoJob}, result : {"none", "done", "failed"}, named : BOOLEAN]

ASSUME DocAssumption == NoDoc \notin Docs

Unused == [status |-> "unused", type |-> "none", path |-> NoPath]
ScanIdle == [at |-> "idle", left |-> {}, found |-> {}, inFlight |-> {},
             attempted |-> {}, path |-> NoPath, finished |-> {}, files |-> {}, jobs |-> {}]
UserIdle == [at |-> "idle", path |-> NoPath]

\* A library whose videos have been scanned and probed.
Init ==
    /\ disk = [p \in Paths |-> IF p \in Sources THEN "original" ELSE "none"]
    /\ doc = [p \in Paths |-> IF p \in Sources THEN [Fresh EXCEPT !.status = "queued"] ELSE NoDoc]
    /\ \E idOf \in [Sources -> JobIds] :
         /\ \A p, q \in Sources : idOf[p] = idOf[q] => p = q
         /\ job = [j \in JobIds |->
                     IF \E p \in Sources : idOf[p] = j
                     THEN [status |-> "pending", type |-> "transcode",
                           path |-> CHOOSE p \in Sources : idOf[p] = j]
                     ELSE Unused]
    /\ scan = ScanIdle
    /\ lost = {}
    /\ user = UserIdle
    /\ scans = 0 /\ losses = 0
    /\ erased = {}

-----------------------------------------------------------------------------
Is(p, status) == doc[p] # NoDoc /\ doc[p].status = status
Names(p)      == doc[p] # NoDoc /\ doc[p].named
Owner(p)      == IF doc[p] = NoDoc THEN NoJob ELSE doc[p].owner
Active(j)     == job[j].status \in {"pending", "running"}
Of(p)         == {j \in JobIds : job[j].path = p}
Outstanding(p) == {j \in Of(p) : Active(j)}
Unsettled(p)  == doc[p].owner # NoJob \/ doc[p].probe # NoJob
Section(p)    == user.path # p

Created(j, type, p) == [status |-> "pending", type |-> type, path |-> p]
Create(type, p) == \E j \in JobIds :
    job[j] = Unused /\ job' = [job EXCEPT ![j] = Created(j, type, p)]

Ended(js, status) ==
    job' = [j \in JobIds |-> IF j \in js THEN [job[j] EXCEPT !.status = status] ELSE job[j]]

-----------------------------------------------------------------------------
(***************************************************************************)
(* The scan.                                                               *)
(***************************************************************************)
At(at) == scan.at = at
others == <<lost, user, losses, erased>>

Known == {Out(p) : p \in {q \in Sources : Names(q)}}

StartScan ==
    /\ At("idle") /\ scans < MaxScans
    /\ scans' = scans + 1
    /\ scan' = [ScanIdle EXCEPT !.at = "walk", !.left = Paths]
    /\ UNCHANGED <<disk, doc, job, others>>

\* walkDirectory reads the directory of a video, with its output, at a time.
Walk(m) ==
    /\ At("walk") /\ Own(m) \in scan.left
    /\ LET here == {Own(m), Out(Own(m))}
           left == scan.left \ here IN
       scan' = [scan EXCEPT !.left = left,
                            !.found = @ \cup {p \in here : disk[p] # "none"},
                            !.at = IF left = {} THEN "documents" ELSE @]
    /\ UNCHANGED <<disk, doc, job, scans, others>>

\* The known outputs are not left out.
ReadDocumentsUnfiltered ==
    /\ At("documents")
    /\ scan' = [scan EXCEPT !.at = "discover", !.left = scan.found, !.found = {}]
    /\ UNCHANGED <<disk, doc, job, scans, others>>

\* Known outputs are left out; a document found for one is removed.
ReadDocuments ==
    /\ At("documents")
    /\ scan' = [scan EXCEPT !.at = "discover", !.left = scan.found \ Known, !.found = {}]
    /\ doc' = [p \in Paths |-> IF p \in Known THEN NoDoc ELSE doc[p]]
    /\ UNCHANGED <<disk, job, scans, others>>

Exists(p) ==
    /\ At("discover") /\ p \in scan.left
    /\ scan' = [scan EXCEPT !.left = @ \ {p}, !.path = p,
                            !.at = IF doc[p] = NoDoc THEN "stat" ELSE @]
    /\ UNCHANGED <<disk, doc, job, scans, others>>

\* getDiscoveredFileSize: a file that is gone by now gets no document.
Stat ==
    /\ At("stat")
    /\ scan' = [scan EXCEPT !.at = IF disk[scan.path] = "none" THEN "discover" ELSE "add"]
    /\ UNCHANGED <<disk, doc, job, scans, others>>

Add ==
    /\ At("add")
    /\ doc' = [doc EXCEPT ![scan.path] = Fresh]
    /\ scan' = [scan EXCEPT !.at = "discover"]
    /\ UNCHANGED <<disk, job, scans, others>>

ReadPending ==
    /\ At("discover") /\ scan.left = {}
    /\ scan' = [scan EXCEPT !.at = "probe", !.left = {p \in Paths : Is(p, "pending")},
                            !.path = NoPath]
    /\ UNCHANGED <<disk, doc, job, scans, others>>

\* A probe for each file that was pending, whatever has become of it.
EnqueueProbe(p) ==
    /\ At("probe") /\ p \in scan.left
    /\ Create("probe", p)
    /\ scan' = [scan EXCEPT !.left = @ \ {p}]
    /\ UNCHANGED <<disk, doc, scans, others>>

-----------------------------------------------------------------------------
(***************************************************************************)
(* reconcileQueuedFiles: a snapshot of the queued files and, after it, two *)
(* reads of the jobs, the pending ones first.                              *)
(***************************************************************************)
ReadQueued ==
    /\ At("probe") /\ scan.left = {}
    /\ LET queued == {p \in Paths : Is(p, "queued")} IN
       scan' = [ScanIdle EXCEPT !.at = IF queued = {} THEN "prune" ELSE "pending", !.left = queued,
                            !.attempted = {p \in queued : doc[p].result # "none"}]
    /\ UNCHANGED <<disk, doc, job, scans, others>>

InStatus(status) == {job[j].path : j \in {i \in JobIds : job[i].type = "transcode" /\ job[i].status = status}}

ListPending ==
    /\ At("pending")
    /\ scan' = [scan EXCEPT !.at = "running", !.inFlight = InStatus("pending")]
    /\ UNCHANGED <<disk, doc, job, scans, others>>

ListRunning ==
    /\ At("running")
    /\ scan' = [scan EXCEPT !.at = "reconcile", !.inFlight = @ \cup InStatus("running")]
    /\ UNCHANGED <<disk, doc, job, scans, others>>

\* Whether a setting still matches the file is left open.  If none does, the
\* patch tests nothing.
Ignore(p) ==
    /\ At("reconcile") /\ p \in scan.left
    /\ doc' = IF doc[p] = NoDoc THEN doc ELSE [doc EXCEPT ![p].status = "ignored"]
    /\ scan' = [scan EXCEPT !.left = @ \ {p}]
    /\ UNCHANGED <<disk, job, scans, others>>

Covered(p) == p \in scan.attempted \cup scan.inFlight

Redrive(p) ==
    /\ At("reconcile") /\ p \in scan.left
    /\ scan' = [scan EXCEPT !.left = @ \ {p}]
    /\ IF Covered(p) THEN UNCHANGED job ELSE Create("transcode", p)
    /\ UNCHANGED <<disk, doc, scans, others>>

EndReconcile ==
    /\ At("reconcile") /\ scan.left = {}
    /\ scan' = [ScanIdle EXCEPT !.at = "prune"]
    /\ UNCHANGED <<disk, doc, job, scans, others>>

-----------------------------------------------------------------------------
(***************************************************************************)
(* pruneFinished: the two reads are started together and answered in       *)
(* either order; then the excess is removed job by job.                    *)
(***************************************************************************)
Protected == UNION {{doc[p].owner, doc[p].probe} : p \in {q \in Paths : doc[q] # NoDoc}}

\* Which finished jobs are the newest, and so kept, is left open.
AllButNewest(js) ==
    LET kept == IF Cardinality(js) < Keep THEN Cardinality(js) ELSE Keep
    IN  {js \ newest : newest \in kSubset(kept, js)}

\* The protected jobs are not told apart.
ExcessOfAll(finished, protected) == AllButNewest(finished)

\* selectPrunableFinished: a protected job is no history and stays.
Excess(finished, protected) == AllButNewest(finished \ protected)

Finished == {j \in JobIds : job[j].status \in {"done", "failed"}}

ReadFinished ==
    /\ At("prune")
    /\ scan' = [scan EXCEPT !.at = "files", !.finished = Finished]
    /\ UNCHANGED <<disk, doc, job, scans, others>>

ReadFiles ==
    /\ At("prune")
    /\ scan' = [scan EXCEPT !.at = "finished", !.files = Protected]
    /\ UNCHANGED <<disk, doc, job, scans, others>>

ReadOther ==
    /\ scan.at \in {"files", "finished"}
    /\ \E excess \in IF At("files") THEN Excess(scan.finished, Protected)
                                     ELSE Excess(Finished, scan.files) :
         scan' = [ScanIdle EXCEPT !.at = "remove", !.jobs = excess]
    /\ UNCHANGED <<disk, doc, job, scans, others>>

RemoveJob(j) ==
    /\ At("remove") /\ j \in scan.jobs
    /\ job' = [job EXCEPT ![j].status = "pruned"]
    /\ scan' = [scan EXCEPT !.jobs = @ \ {j}]
    /\ UNCHANGED <<disk, doc, scans, others>>

EndScan ==
    /\ At("remove") /\ scan.jobs = {}
    /\ scan' = ScanIdle
    /\ UNCHANGED <<disk, doc, job, scans, others>>

ScanStep ==
    \/ StartScan \/ ReadDocuments \/ Stat \/ Add \/ ReadPending \/ ReadQueued
    \/ ListPending \/ ListRunning \/ EndReconcile
    \/ ReadFinished \/ ReadFiles \/ ReadOther \/ EndScan
    \/ \E p \in Paths : Exists(p) \/ EnqueueProbe(p) \/ Ignore(p) \/ Redrive(p)
    \/ \E m \in Media : Walk(m)
    \/ \E j \in JobIds : RemoveJob(j)

-----------------------------------------------------------------------------
(***************************************************************************)
(* The queue loop between two scans: probes and claims.                    *)
(***************************************************************************)
Loop(j, type, p) ==
    /\ At("idle") /\ Section(p)
    /\ job[j] = [status |-> "pending", type |-> type, path |-> p]

aside == <<scan, scans, lost, user, losses>>

\* handleProbeFile refuses a file that is not pending or has another probe.
ProbeRefused(j, p) ==
    /\ Loop(j, "probe", p)
    /\ ~(Is(p, "pending") /\ doc[p].probe \in {NoJob, j})
    /\ Ended({j}, "done")
    /\ UNCHANGED <<disk, doc, erased, aside>>

\* No setting matches, or ffprobe fails: two statuses the user may requeue,
\* which nothing here tells apart.
ProbeUnmatched(j, p) ==
    /\ Loop(j, "probe", p)
    /\ Is(p, "pending") /\ doc[p].probe \in {NoJob, j}
    /\ doc' = [doc EXCEPT ![p].status = "ignored", ![p].probe = NoJob]
    /\ Ended({j}, "done")
    /\ UNCHANGED <<disk, erased, aside>>

ProbeMatched(j, p) ==
    /\ Loop(j, "probe", p) /\ p \in Sources
    /\ Is(p, "pending") /\ doc[p].probe \in {NoJob, j}
    /\ doc' = [doc EXCEPT ![p].status = "queued", ![p].probe = NoJob]
    /\ \E new \in JobIds :
         /\ job[new] = Unused
         /\ job' = [job EXCEPT ![j].status = "done", ![new] = Created(new, "transcode", p)]
    /\ UNCHANGED <<disk, erased, aside>>

\* prepareTranscode has nothing to do: the file is gone or stopped, or the
\* setting is disabled.
Skip(j, p) ==
    /\ Loop(j, "transcode", p) /\ Owner(p) = NoJob
    /\ Ended({j}, "done")
    /\ UNCHANGED <<disk, doc, erased, aside>>

Preparable(p) == doc[p] # NoDoc /\ doc[p].status # "stopped" /\ doc[p].owner = NoJob
Collides(p)   == disk[Out(p)] # "none" \/ doc[Out(p)] # NoDoc \/ doc[p].named

\* recordPreparationFailure replaces the result of the setting by one that
\* names no output; the loop then fails the job and recounts.
Collide(j, p) ==
    /\ Loop(j, "transcode", p)
    /\ Preparable(p) /\ Collides(p)
    /\ doc' = [doc EXCEPT ![p].result = "failed", ![p].named = FALSE,
                           ![p].status = IF Outstanding(p) \ {j} = {} THEN "failed" ELSE "queued"]
    /\ Ended({j}, "failed")
    /\ erased' = IF doc[p].named THEN erased \cup {Out(p)} ELSE erased
    /\ UNCHANGED <<disk, aside>>

Claim(j, p) ==
    /\ Loop(j, "transcode", p)
    /\ Preparable(p) /\ ~Collides(p)
    /\ doc' = [doc EXCEPT ![p].status = "processing", ![p].owner = j,
                           ![p].phase = "processing", ![p].named = TRUE]
    /\ job' = [job EXCEPT ![j].status = "running"]
    /\ UNCHANGED <<disk, erased, aside>>

LoopStep(j, p) ==
    \/ ProbeRefused(j, p) \/ ProbeUnmatched(j, p) \/ ProbeMatched(j, p)
    \/ Skip(j, p) \/ Collide(j, p) \/ Claim(j, p)

-----------------------------------------------------------------------------
(***************************************************************************)
(* The end of a transcode.  The document names the output before it is on  *)
(* the disk and after it is off; the job ends before the file is released. *)
(***************************************************************************)
Owned(j, p, phase) == Owner(p) = j /\ doc[p].phase = phase /\ Section(p)

\* The commit point and the link, which never replaces a file.
Link(j, p) ==
    /\ Owned(j, p, "processing") /\ job[j].status = "running"
    /\ doc[p].status # "stopped"
    /\ disk[Out(p)] = "none"
    /\ disk' = [disk EXCEPT ![Out(p)] = "made"]
    /\ doc' = [doc EXCEPT ![p].phase = "committing"]
    /\ UNCHANGED <<job, erased, aside>>

\* The result is written and the job completed.
Persist(j, p) ==
    /\ Owned(j, p, "committing")
    /\ doc' = [doc EXCEPT ![p].phase = "settled", ![p].result = "done"]
    /\ Ended({j}, "done")
    /\ UNCHANGED <<disk, erased, aside>>

\* A failure, a stop or an undone commit: clean up, write the result, end the job.
Discard(j, p) ==
    /\ Owned(j, p, "processing") \/ Owned(j, p, "committing")
    /\ job[j].status = "running"
    /\ disk' = IF doc[p].phase = "committing" THEN [disk EXCEPT ![Out(p)] = "none"] ELSE disk
    /\ doc' = [doc EXCEPT ![p].phase = "settled",
                           ![p].result = IF doc[p].status = "stopped" THEN @ ELSE "failed"]
    /\ Ended({j}, "failed")
    /\ UNCHANGED <<erased, aside>>

\* The owner is released on the evidence of its ended job.
Release(j, p) ==
    /\ Owned(j, p, "settled")
    /\ job[j].status \in {"done", "failed"}
    /\ doc' = [doc EXCEPT ![p].owner = NoJob, ![p].phase = "none",
                           ![p].named = doc[p].result = "done",
                           ![p].status = IF @ = "stopped" THEN @
                                         ELSE IF Outstanding(p) # {} THEN "queued"
                                         ELSE IF doc[p].result = "done" THEN "transcoded"
                                         ELSE "failed"]
    /\ UNCHANGED <<disk, job, erased, aside>>

\* requeueLostWork releases the file first; the job is returned, or failed if
\* the file was stopped, afterwards.
LoseRunner(j, p) ==
    /\ Owned(j, p, "processing") /\ job[j].status = "running" /\ losses < MaxLosses
    /\ doc' = [doc EXCEPT ![p].owner = NoJob, ![p].phase = "none", ![p].named = FALSE,
                           ![p].status = IF @ = "stopped" THEN @ ELSE "queued"]
    /\ losses' = losses + 1
    /\ IF doc[p].status = "stopped" THEN Ended({j}, "failed") /\ UNCHANGED lost
                                    ELSE lost' = lost \cup {j} /\ UNCHANGED job
    /\ UNCHANGED <<disk, erased, scan, scans, user>>

ReturnLost(j) ==
    /\ j \in lost /\ lost' = lost \ {j}
    /\ job' = IF job[j].status = "running" THEN [job EXCEPT ![j].status = "pending"] ELSE job
    /\ UNCHANGED <<disk, doc, erased, scan, scans, losses, user>>

TaskStep(j, p) ==
    Link(j, p) \/ Persist(j, p) \/ Discard(j, p) \/ Release(j, p) \/ LoseRunner(j, p)

-----------------------------------------------------------------------------
(***************************************************************************)
(* The user: stop, requeue and remove, and what he does to the library.    *)
(***************************************************************************)
untouched == <<erased, scan, scans, lost, losses>>

\* The stop and the failing of the jobs it has listed.
Stop(p) ==
    /\ Section(p) /\ doc[p] # NoDoc
    /\ doc[p].status \in {"pending", "queued", "processing"}
    /\ doc[p].phase # "committing" /\ ~(doc[p].phase = "settled" /\ doc[p].result = "done")
    /\ doc' = [doc EXCEPT ![p].status = "stopped", ![p].probe = NoJob]
    /\ Ended(Outstanding(p) \ {doc[p].owner}, "failed")
    /\ UNCHANGED <<disk, user, untouched>>

\* requeue deletes what the document names before it forgets the name.
RequeueDeletes(p) ==
    /\ user = UserIdle /\ doc[p] # NoDoc /\ ~Unsettled(p)
    /\ doc[p].status \in {"failed", "transcoded", "ignored", "stopped"}
    /\ disk' = IF doc[p].named THEN [disk EXCEPT ![Out(p)] = "none"] ELSE disk
    /\ user' = [at |-> "reset", path |-> p]
    /\ UNCHANGED <<doc, job, untouched>>

RequeueResets ==
    /\ user.at = "reset"
    /\ Ended(Outstanding(user.path), "failed")
    /\ doc' = [doc EXCEPT ![user.path] = Fresh]
    /\ user' = [user EXCEPT !.at = "publish"]
    /\ UNCHANGED <<disk, untouched>>

\* The probe's id is published on the document just before the job exists.
RequeuePublishes ==
    /\ user.at = "publish"
    /\ LET p == user.path IN
       \E j \in JobIds :
         /\ job[j] = Unused
         /\ job' = [job EXCEPT ![j] = Created(j, "probe", p)]
         /\ doc' = IF Is(p, "pending") THEN [doc EXCEPT ![p].probe = j] ELSE doc
    /\ user' = UserIdle
    /\ UNCHANGED <<disk, untouched>>

\* remove deletes the output and the source, then the document; the pending
\* jobs of a queued file stay.
RemoveFiles(p) ==
    /\ user = UserIdle /\ doc[p] # NoDoc /\ ~Unsettled(p)
    /\ doc[p].status # "processing"
    /\ disk' = [q \in Paths |-> IF q = p \/ (q = Out(p) /\ doc[p].named) THEN "none" ELSE disk[q]]
    /\ user' = [at |-> "drop", path |-> p]
    /\ UNCHANGED <<doc, job, untouched>>

RemoveDocument ==
    /\ user.at = "drop"
    /\ doc' = [doc EXCEPT ![user.path] = NoDoc]
    /\ user' = UserIdle
    /\ UNCHANGED <<disk, job, untouched>>

\* The library is a directory of the user's.
PutFile(p) ==
    /\ disk[p] = "none"
    /\ disk' = [disk EXCEPT ![p] = "original"]
    /\ UNCHANGED <<doc, job, user, untouched>>

UserStep ==
    \/ RequeueResets \/ RequeuePublishes \/ RemoveDocument
    \/ \E p \in Paths : Stop(p) \/ RequeueDeletes(p) \/ RemoveFiles(p) \/ PutFile(p)

Next ==
    \/ ScanStep
    \/ \E j \in JobIds, p \in Paths : LoopStep(j, p) \/ TaskStep(j, p)
    \/ \E j \in JobIds : ReturnLost(j)
    \/ UserStep

Spec == Init /\ [][Next]_vars

-----------------------------------------------------------------------------
(***************************************************************************)
(* No output of this program becomes a source, unless a second job for its *)
(* setting has replaced the result that named it (scanner.js:107-148).     *)
(***************************************************************************)
OutputsAreNotSources ==
    \A p \in Outputs : doc[p] # NoDoc /\ disk[p] = "made" => p \in erased

(***************************************************************************)
(* The job that a file's owner or probe is fenced by is never pruned, or   *)
(* the file could not be released any more (job.js:190-206).               *)
(***************************************************************************)
EvidenceKept ==
    \A p \in Paths : doc[p] # NoDoc =>
        \A j \in {doc[p].owner, doc[p].probe} \ {NoJob} : job[j].status # "pruned"

(***************************************************************************)
(* Outputs "should never be queued as sources" (scanner.js:107-108).       *)
(***************************************************************************)
OutputsNeverSources ==
    \A p \in Outputs : doc[p] # NoDoc => disk[p] # "made"
=============================================================================
