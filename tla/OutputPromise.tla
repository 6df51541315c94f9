---------------------------- MODULE OutputPromise ----------------------------
(***************************************************************************)
(* What committing the output of one profile promises about a media file:  *)
(* the outcome is decided once, a published output is never taken back,    *)
(* and the original may only be discarded for an output that replaces it.  *)
(* Journals, renames, crashes and restarts do not appear: OutputCommit     *)
(* implements this specification.                                          *)
(***************************************************************************)
VARIABLES outcome,   \* "open", "published" (done or replaced) or "refused"
          original   \* whether the original can still be read or restored

PromiseTypeOK ==
    /\ outcome \in {"open", "published", "refused"}
    /\ original \in BOOLEAN

Init == outcome = "open" /\ original = TRUE

Decide ==
    /\ outcome = "open"
    /\ outcome' \in {"published", "refused"}
    /\ UNCHANGED original

Discard ==
    /\ outcome = "published"
    /\ original
    /\ original' = FALSE
    /\ UNCHANGED outcome

Next == Decide \/ Discard

Spec == Init /\ [][Next]_<<outcome, original>>
=============================================================================
