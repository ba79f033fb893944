SPECIFICATION Spec
CONSTANTS
    Tasks = {p1, p2}
    Records = {rec1, rec2}
    p1 = p1
    p2 = p2
    rec1 = rec1
    rec2 = rec2
    TopHeight = 2
    MaxBatch = 2
    MaxBlocks = 3
SYMMETRY Permuted
INVARIANTS
    MountainRange
    CorruptionNeedsRace
PROPERTIES
    AppendOnly
