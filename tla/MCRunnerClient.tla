--------------------------- MODULE MCRunnerClient ---------------------------
(***************************************************************************)
(* Instances of RunnerClient for TLC.                                      *)
(***************************************************************************)
EXTENDS RunnerClient

CONSTANTS s1, s2, t1, t2, t3

TwoSockets == {s1, s2}
TwoTasks   == {t1, t2}
ThreeTasks == {t1, t2, t3}
=============================================================================
