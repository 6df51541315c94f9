--------------------------- MODULE MCScanReconcile ---------------------------
(***************************************************************************)
(* Instances of ScanReconcile for TLC.                                     *)
(***************************************************************************)
EXTENDS ScanReconcile, TLC

CONSTANTS m1, m2, j1, j2, j3, j4, j5, j6

OneVideo  == {m1}
TwoVideos == {m1, m2}
FourJobs  == {j1, j2, j3, j4}
FiveJobs  == {j1, j2, j3, j4, j5}
SixJobs   == {j1, j2, j3, j4, j5, j6}

Symmetry == Permutations(JobIds)
=============================================================================
