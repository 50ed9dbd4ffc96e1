------------------------- MODULE MCPlayListHistory --------------------------
(* Small instances of PlayListHistory for TLC.                             *)
EXTENDS PlayListHistory, TLC

Symmetry == Permutations(Workers) \cup Permutations(Songs) \cup Permutations(Ids)
=============================================================================
