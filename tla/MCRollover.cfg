SPECIFICATION Spec
CONSTANTS
    None = None
    CAs = {"a", "b", "s"}
    Nonces = {"n1", "n2", "n3"}
    Keys = {"k1", "k2"}
    Manifests = {"m"}
    TxIds = {"enableA", "enableB", "rollA", "lateA", "rollB", "forgeB", "endB",
             "enableS1", "enableS2", "rollS"}
    Tx <- MCTx
    NumberOf <- MCNumberOf
    Room <- MCRoom
    MaxRoom = 3
    Delta = 1
    MaxEpochCatchup = 1
    MaxHeight = 2
    MaxTime = 0
    MaxBlockTxs = 3
INVARIANTS
    PreauthExact
    SuccessorKeyHonoured
    RolloverChains
PROPERTIES
    TerminalIsFinal
