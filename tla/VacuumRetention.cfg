SPECIFICATION Spec
CONSTANTS
    Keys = {k1, k2}
    Writes <- PutsAndMark
    Retentions = {1, 9}
    Workers = {1}
    MaxWrites = 4
    MaxFiles = 5
    MaxFaults = 1
    MaxCrashes = 0
INVARIANTS
    HistoryKept
SYMMETRY KeySymmetry
CHECK_DEADLOCK FALSE
