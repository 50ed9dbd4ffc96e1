------------------------- MODULE MCPlayListService -------------------------
(* Small instances of PlayListService for TLC.                             *)
EXTENDS PlayListService, TLC

(* Workers, songs and playlist ids are interchangeable; users are not when *)
(* one of them has no row.                                                 *)
Symmetry == Permutations(Workers) \cup Permutations(Songs) \cup Permutations(Ids)
=============================================================================
