------------------------------ MODULE MCHistory ------------------------------
(***************************************************************************)
(* Tasks that prepare appends side by side on one small range, and one     *)
(* task that fills a larger one.  Tasks run the same code and records are  *)
(* told apart only by being different, so TLC may permute both.            *)
(***************************************************************************)
EXTENDS LanternHistory, TLC

Permuted == Permutations(Tasks) \cup Permutations(Records)
=============================================================================
