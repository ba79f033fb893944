---------------------------- MODULE LanternLedger ----------------------------
(***************************************************************************)
(* What the store promises: blocks are executed one after the other, each  *)
(* from the whole of the ledger before it, in one step.  Losing power cuts *)
(* the ledger back to some prefix that holds everything made durable.      *)
(***************************************************************************)
EXTENDS Naturals, Sequences

CONSTANT Lives   \* tells apart the lives of the process that executes blocks

VARIABLES
    ledger,      \* the committed blocks
    durable      \* how many of them no crash can take back

Init == ledger = <<>> /\ durable = 0

\* A block reads the ledger at one length, the one it extends.
Execute(life, sync) ==
    /\ ledger' = Append(ledger, [life |-> life, saw |-> {Len(ledger)}])
    /\ durable' = IF sync THEN Len(ledger) + 1 ELSE durable

Harden == ledger' = ledger /\ durable' \in durable..Len(ledger)

Lose(n) == ledger' = SubSeq(ledger, 1, n) /\ durable' = n

Next ==
    \/ \E life \in Lives, sync \in BOOLEAN : Execute(life, sync)
    \/ Harden
    \/ \E n \in durable..Len(ledger) : Lose(n)

Spec == Init /\ [][Next]_<<ledger, durable>>
=============================================================================
