-------------------------- MODULE MCPlayerDisplay --------------------------
(* Four tracks: one without a rating and a cover, one whose cover cannot   *)
(* be loaded.                                                              *)
EXTENDS PlayerDisplay

FourRatings == <<7, 0, 8, 8>>
=============================================================================
