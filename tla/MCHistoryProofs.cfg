SPECIFICATION Spec
CONSTANTS
    Tasks = {p1}
    Records = {rec1, rec2}
    p1 = p1
    rec1 = rec1
    rec2 = rec2
    TopHeight = 3
    MaxBatch = 4
    MaxBlocks = 2
SYMMETRY Permuted
INVARIANTS
    InclusionExact
    ConsistencyComplete
    ForkRefused
