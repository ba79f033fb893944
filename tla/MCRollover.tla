----------------------------- MODULE MCRollover -----------------------------
(***************************************************************************)
(* Three CAs: two may roll over to the same absent third, one of the two   *)
(* may terminate instead, and the third, once up, rolls over in its turn   *)
(* to a CA that may exist or not.  The third may be brought up under the   *)
(* key its predecessor authorized or under another one.                    *)
(***************************************************************************)
EXTENDS LanternState

Ctl(ca, nonce, sequence, previous, signer, action) ==
    [kind |-> "Control", ours |-> TRUE, ca |-> ca, nonce |-> nonce,
     sequence |-> sequence, previous |-> previous, signer |-> signer, action |-> action]

EnableUnder(key) == [op |-> "Enable", manifest |-> "m", key |-> key]
RolloverTo(ca, key) == [op |-> "Rollover", successor |-> ca, key |-> key]

MCTx ==
    [t \in TxIds |->
        CASE t = "enableA"  -> Ctl("a", "n1", 1, None, "k1", EnableUnder("k1"))
          [] t = "enableB"  -> Ctl("b", "n1", 1, None, "k2", EnableUnder("k2"))
          [] t = "rollA"    -> Ctl("a", "n2", 2, <<1, "enableA">>, "k1", RolloverTo("s", "k1"))
          [] t = "lateA"    -> Ctl("a", "n3", 3, <<2, "rollA">>, "k1", [op |-> "Terminal"])
          [] t = "rollB"    -> Ctl("b", "n2", 2, <<1, "enableB">>, "k2", RolloverTo("s", "k2"))
          [] t = "forgeB"   -> Ctl("b", "n2", 2, <<1, "enableB">>, "k1", [op |-> "Terminal"])
          [] t = "endB"     -> Ctl("b", "n2", 2, <<1, "enableB">>, "k2", [op |-> "Terminal"])
          [] t = "enableS1" -> Ctl("s", "n1", 1, None, "k1", EnableUnder("k1"))
          [] t = "enableS2" -> Ctl("s", "n2", 1, None, "k2", EnableUnder("k2"))
          [] t = "rollS"    -> Ctl("s", "n3", 2, <<1, "enableS1">>, "k1", RolloverTo("a", "k2"))]

MCRoom == [t \in TxIds |-> 1]

MCNumberOf == [m \in Manifests |-> 1]
==============================================================================
