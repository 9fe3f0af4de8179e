SPECIFICATION Spec
CONSTANTS
    Keys = {k1}
    Writes <- PutsAndDels
    Retentions = {9}
    Workers = {1}
    MaxWrites = 3
    MaxFiles = 4
    MaxFaults = 0
    MaxCrashes = 0
INVARIANTS
    SequencesIncrease
CHECK_DEADLOCK FALSE
