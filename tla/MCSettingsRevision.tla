------------------------- MODULE MCSettingsRevision -------------------------
(***************************************************************************)
(* Instances of SettingsRevision for TLC.                                  *)
(***************************************************************************)
EXTENDS SettingsRevision, TLC

CONSTANTS c1, c2, e1, e2

TwoClients == {c1, c2}
TwoEdits   == {e1, e2}

Symmetry == Permutations(Clients) \cup Permutations(Edits)
=============================================================================
