SPECIFICATION Spec
CONSTANTS
    None = None
    CAs = {"c"}
    Nonces = {"n1", "n2", "n3", "n5", "n7", "n8", "n9", "n10", "n11"}
    Keys = {"k", "k2"}
    Manifests = {"m1", "m2"}
    TxIds = {"enable", "pub1", "pub2", "pub2alien", "pub2again",
             "cancel", "cancelbad", "disable", "reenable", "disablenew", "garbled"}
    Tx <- MCTx
    NumberOf <- MCNumberOf
    Room <- MCRoom
    MaxRoom = 4
    Delta = 1
    MaxEpochCatchup = 1
    MaxHeight = 2
    MaxTime = 0
    MaxBlockTxs = 3
PROPERTIES
    ManifestIndexImmutable
