------------------------- MODULE MCMonitorLifecycle -------------------------
(***************************************************************************)
(* Instances of MonitorLifecycle for TLC.                                  *)
(***************************************************************************)
EXTENDS MonitorLifecycle

CONSTANTS q1, q2

OneRequest  == {q1}
TwoRequests == {q1, q2}
=============================================================================
