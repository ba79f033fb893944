SPECIFICATION SpecCheckpoints
CONSTANTS
    None = None
    Identity = Identity
    Threads = {t1}
    Keepers = {k1, k2}
    Paths = {p, q}
    Parents = {"d"}
    ParentOf <- MCParentOf
    t1 = t1
    k1 = k1
    k2 = k2
    p = p
    q = q
    MaxBlocks = 2
    MaxCrashes = 2
SYMMETRY Permuted
INVARIANTS
    ManifestsTrue
    NothingTorn
    NeverAheadOfSource
PROPERTIES
    PromisedStay
    PublishedIsPermanent
