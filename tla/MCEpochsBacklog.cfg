SPECIFICATION Spec
CONSTANTS
    None = None
    CAs = {"a", "b"}
    Nonces = {"n1", "n2"}
    Keys = {"k"}
    Manifests = {"m"}
    TxIds = {"enableA", "enableB", "publishA"}
    Tx <- MCTx
    NumberOf <- MCNumberOf
    Room <- MCRoom
    MaxRoom = 2
    Delta = 2
    MaxEpochCatchup = 2
    MaxHeight = 4
    MaxTime = 8
    MaxBlockTxs = 2
INVARIANTS
    AllDueEpochsClose
