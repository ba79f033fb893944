---------------------------- MODULE MCCheckpoints ----------------------------
(***************************************************************************)
(* A committing thread against two keepers that race for the same paths,   *)
(* in a parent that exists or that the first call creates.                 *)
(***************************************************************************)
EXTENDS LanternCheckpoints, TLC

MCParentOf == [path \in Paths |-> CHOOSE d \in Parents : TRUE]

Permuted == Permutations(Keepers) \cup Permutations(Paths)
=============================================================================
