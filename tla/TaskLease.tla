----------------------------- MODULE TaskLease -----------------------------
(***************************************************************************)
(* What the runner pool promises about the lease of a transcode job: a     *)
(* pending job is leased to one runner; the lease ends once, either        *)
(* because the result of that very lease is settled or because the lease   *)
(* is recovered after the runner was lost; and a settled job never moves   *)
(* again.  Sockets, messages and reconnections do not appear: RunnerPool   *)
(* implements this specification.                                          *)
(***************************************************************************)
CONSTANT Jobs           \* the transcode jobs

VARIABLE lease          \* the lease of each job

States   == {"pending", "leased", "settling", "recovering", "done", "failed"}
Terminal == {"done", "failed"}

LeaseTypeOK == lease \in [Jobs -> States]

Init == lease = [j \in Jobs |-> "pending"]

Move(j, from, to) ==
    /\ lease[j] \in from
    /\ \E t \in to : lease' = [lease EXCEPT ![j] = t]

Grant(j)    == Move(j, {"pending"}, {"leased"})
Settle(j)   == Move(j, {"leased"}, {"settling"})
Lose(j)     == Move(j, {"leased"}, {"recovering"})
Finish(j)   == Move(j, {"settling"}, Terminal)
Retry(j)    == Move(j, {"recovering"}, {"pending", "failed"})
Cancel(j)   == Move(j, {"pending"}, {"failed"})

Next ==
    \E j \in Jobs :
        Grant(j) \/ Settle(j) \/ Lose(j) \/ Finish(j) \/ Retry(j) \/ Cancel(j)

Spec == Init /\ [][Next]_lease
=============================================================================
