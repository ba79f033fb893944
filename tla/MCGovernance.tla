---------------------------- MODULE MCGovernance ----------------------------
(***************************************************************************)
(* Two valid replacements of one configuration, and replacements each      *)
(* wrong in one way: rearranged, unchanged, doubled, short, of another     *)
(* power, address or network, without sequence or height.  Three trusted   *)
(* holders and an outsider sign, with right and wrong indices.             *)
(***************************************************************************)
EXTENDS LanternGovernance

CONSTANTS g0, g1, g2, outsider

Address == [k \in ConsensusKeys |-> k]
Holders == [i \in 0..2 |-> CASE i = 0 -> g0 [] i = 1 -> g1 [] i = 2 -> g2]

Info(k) == [address |-> k, key |-> k, power |-> 1]
Config(keys) ==
    [network |-> "lantern", epoch |-> 1, height |-> 1,
     validators |-> [i \in DOMAIN keys |-> Info(keys[i])]]
Update(c) == [network |-> "lantern", sequence |-> 1, current |-> Config(<<1, 2, 3, 4>>),
              replacement |-> c]

Current == Config(<<1, 2, 3, 4>>)
Valid == {Update(Config(<<2, 3, 4, 5>>)), Update([Current EXCEPT !.epoch = 2])}
Proposals ==
    Valid
    \cup {Update(Config(<<2, 1, 3, 4>>)), Update(Current),
          Update(Config(<<1, 2, 5, 5>>)), Update(Config(<<1, 2, 5>>)),
          Update([Current EXCEPT !.validators[1].power = 2]),
          Update([Current EXCEPT !.validators[1].address = 0]),
          Update([Current EXCEPT !.network = "other", !.epoch = 2]),
          Update([Current EXCEPT !.height = 0]),
          [Update(Config(<<1, 2, 3, 5>>)) EXCEPT !.sequence = 0]}

Pair(i, k) == [index |-> i, key |-> k]
Callers == {Pair(0, g0), Pair(1, g1), Pair(2, g2), Pair(1, g0), Pair(2, outsider), Pair(3, g2)}
Lists == UNION {[1..n -> Callers] : n \in 0..3}
=============================================================================
