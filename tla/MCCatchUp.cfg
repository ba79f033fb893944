SPECIFICATION FairSpec
CONSTANTS
    None = None
    CAs = {"a", "b"}
    Nonces = {"n1", "n2"}
    Keys = {"k"}
    Manifests = {"m"}
    TxIds = {"enableA", "publishA"}
    Tx <- MCTx
    NumberOf <- MCNumberOf
    Room <- MCRoom
    MaxRoom = 1
    Delta = 2
    MaxEpochCatchup = 1
    MaxHeight = 6
    MaxTime = 7
    MaxBlockTxs = 1
PROPERTIES
    BacklogClears
