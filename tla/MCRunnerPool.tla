---------------------------- MODULE MCRunnerPool ----------------------------
(***************************************************************************)
(* Instances of RunnerPool for TLC.                                        *)
(***************************************************************************)
EXTENDS RunnerPool, TLC

CONSTANTS r1, r2, s1, s2, s3, j1, j2

OneRunner    == {r1}
TwoRunners   == {r1, r2}
TwoSockets   == {s1, s2}
ThreeSockets == {s1, s2, s3}
OneJob       == {j1}
TwoJobs      == {j1, j2}

Symmetry == Permutations(Sockets) \union Permutations(Runners) \union Permutations(Jobs)
=============================================================================
