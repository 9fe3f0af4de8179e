SPECIFICATION Spec
CONSTANTS
    Keys = {k1, k2}
    Writes <- PutsAndTombstones
    Workers = {1, 2}
    MaxWrites = 4
    MaxFiles = 3
INVARIANTS
    RecoversLatest
SYMMETRY KeySymmetry
