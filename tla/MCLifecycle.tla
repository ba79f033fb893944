----------------------------- MODULE MCLifecycle -----------------------------
(***************************************************************************)
(* One CA and every transaction of a publication's life: registration,     *)
(* publications, a cancellation, one of the wrong target, the cancelled    *)
(* manifest again, disabling and re-enabling, a publication of a foreign   *)
(* network under a nonce another one uses, and a malformed transaction.    *)
(***************************************************************************)
EXTENDS LanternState

Pub(ours, nonce, manifest, previous, authorized) ==
    [kind |-> "Publication", ours |-> ours, ca |-> "c", nonce |-> nonce,
     manifest |-> manifest, previous |-> previous, authorized |-> authorized]

Ctl(nonce, sequence, previous, signer, action) ==
    [kind |-> "Control", ours |-> TRUE, ca |-> "c", nonce |-> nonce,
     sequence |-> sequence, previous |-> previous, signer |-> signer, action |-> action]

EnableWith(manifest) == [op |-> "Enable", manifest |-> manifest, key |-> "k"]

MCTx ==
    [t \in TxIds |->
        CASE t = "enable"   -> Ctl("n1", 1, None, "k", EnableWith("m1"))
          [] t = "pub1"     -> Pub(TRUE, "n2", "m1", None, {0})
          [] t = "pub2"     -> Pub(TRUE, "n3", "m2", "m1", {0})
          [] t = "pub2alien" -> Pub(FALSE, "n3", "m2", "m1", {0})
          [] t = "pub2again"-> Pub(TRUE, "n5", "m2", "m1", {0})
          [] t = "cancel"   -> Ctl("n7", 2, <<3, "pub2">>, "k",
                                   [op |-> "Cancel", version |-> 3, target |-> "m2",
                                    restore |-> "m1"])
          [] t = "cancelbad" -> Ctl("n7", 2, <<3, "pub2">>, "k",
                                    [op |-> "Cancel", version |-> 3, target |-> "m1",
                                     restore |-> "m2"])
          [] t = "disable"  -> Ctl("n8", 2, <<2, "pub1">>, "k", [op |-> "Disable"])
          [] t = "reenable" -> Ctl("n9", 3, <<3, "disable">>, "k", EnableWith("m2"))
          [] t = "disablenew" -> Ctl("n10", 2, <<1, "enable">>, "k", [op |-> "Disable"])
          [] t = "garbled"  -> Pub(TRUE, "n11", "m1", "m1", {0})]

\* Re-enabling fills a block but for one more outcome.
MCRoom == [t \in TxIds |-> IF t = "reenable" THEN 3 ELSE 1]

MCNumberOf == [m \in Manifests |-> CASE m = "m1" -> 1 [] m = "m2" -> 2]
==============================================================================
