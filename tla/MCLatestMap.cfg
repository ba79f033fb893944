SPECIFICATION Spec
CONSTANTS
    Tasks = {p1, p2}
    Readers = {q1}
    LatestKeys = {k1}
    Values = {v1, v2}
    p1 = p1
    p2 = p2
    q1 = q1
    k1 = k1
    v1 = v1
    v2 = v2
    None = None
    MaxBlocks = 4
SYMMETRY Permuted
INVARIANTS
    HistoriesAgree
    QueriesExact
    RefusalNeedsRace
PROPERTIES
    SerialVersions
