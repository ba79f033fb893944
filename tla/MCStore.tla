------------------------------- MODULE MCStore -------------------------------
(***************************************************************************)
(* Threads that prepare and commit against each other through crashes.     *)
(* They run the same code, so TLC may permute them.                        *)
(***************************************************************************)
EXTENDS LanternStore, TLC

Permuted == Permutations(Threads)
=============================================================================
