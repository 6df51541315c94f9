--------------------------- MODULE MCOutputCommit ---------------------------
(***************************************************************************)
(* Instances of OutputCommit for TLC.                                      *)
(***************************************************************************)
EXTENDS OutputCommit

CONSTANTS a1, a2

TwoAttempts == {a1, a2}
=============================================================================
