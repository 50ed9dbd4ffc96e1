--------------------------- MODULE MCBrowserPage ---------------------------
(* Instances of BrowserPage for TLC.                                       *)
EXTENDS BrowserPage, TLC

Symmetry == Permutations(Lists) \cup Permutations(Songs) \cup Permutations(Conns)
=============================================================================
