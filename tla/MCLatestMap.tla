----------------------------- MODULE MCLatestMap -----------------------------
(***************************************************************************)
(* Two preparations and a query side by side.  Preparations and values are *)
(* told apart only by being different, so TLC may permute both.            *)
(***************************************************************************)
EXTENDS LanternLatestMap, TLC

Permuted == Permutations(Tasks) \cup Permutations(Values)
=============================================================================
