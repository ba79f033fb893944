------------------------------ MODULE MCEpochs ------------------------------
(***************************************************************************)
(* Few transactions and many block times: epochs of two ticks, blocks that *)
(* fall on both sides of every boundary, skip epochs, and leave a backlog  *)
(* larger than one block may close.                                        *)
(***************************************************************************)
EXTENDS LanternState

\* Authorized in the first epoch and a late one, not in between.
MCTx ==
    [t \in TxIds |->
        CASE t = "enableA" ->
                [kind |-> "Control", ours |-> TRUE, ca |-> "a", nonce |-> "n1",
                 sequence |-> 1, previous |-> None, signer |-> "k",
                 action |-> [op |-> "Enable", manifest |-> "m", key |-> "k"]]
          [] t = "enableB" ->
                [kind |-> "Control", ours |-> TRUE, ca |-> "b", nonce |-> "n1",
                 sequence |-> 1, previous |-> None, signer |-> "k",
                 action |-> [op |-> "Enable", manifest |-> "m", key |-> "k"]]
          [] t = "publishA" ->
                [kind |-> "Publication", ours |-> TRUE, ca |-> "a", nonce |-> "n2",
                 manifest |-> "m", previous |-> None, authorized |-> {0, 1, 6, 7, 8}]]

MCRoom == [t \in TxIds |-> 1]

MCNumberOf == [m \in Manifests |-> 1]
=============================================================================
