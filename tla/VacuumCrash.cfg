SPECIFICATION Spec
CONSTANTS
    Keys = {k1}
    Writes <- PutsAndDels
    Retentions = {9}
    Workers = {1}
    MaxWrites = 3
    MaxFiles = 5
    MaxFaults = 1
    MaxCrashes = 2
INVARIANTS
    
    ReadsLatest
    LocatedOnDisk
    DurableHonest
    OpenSucceeds
CHECK_DEADLOCK FALSE
