------------------------- MODULE LanternVersionedMap -------------------------
(***************************************************************************)
(* What the latest map promises of its versions: a sequence of whole maps, *)
(* to which only the next one can be added, one in a step, and of which    *)
(* none is ever changed.  Any map may follow any other, since a block may  *)
(* set or delete any keys.                                                 *)
(***************************************************************************)
EXTENDS Naturals, Sequences

CONSTANTS MapKeys, MapValues, Absent

VARIABLE versions

Maps == [MapKeys -> MapValues \cup {Absent}]

Init == versions = <<>>

Advance(map) == versions' = Append(versions, map)

Next == \E map \in Maps : Advance(map)

Spec == Init /\ [][Next]_versions
=============================================================================
