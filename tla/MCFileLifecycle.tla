-------------------------- MODULE MCFileLifecycle --------------------------
(***************************************************************************)
(* Instances of FileLifecycle for TLC.                                     *)
(***************************************************************************)
EXTENDS FileLifecycle

CONSTANTS adj, ovr

OneAdjacent == {adj}
BothModes   == {adj, ovr}
JustOver    == {ovr}
=============================================================================
