SPECIFICATION Spec
CONSTANTS
    None = None
    Identity = Identity
    Threads = {t1, t2}
    Keepers = {}
    t1 = t1
    t2 = t2
    MaxBlocks = 3
    MaxCrashes = 2
SYMMETRY Permuted
INVARIANTS
    SyncedReceiptsDurable
    StaysOpenable
PROPERTIES
    SerialLedger
