SPECIFICATION Spec
CONSTANTS
    Readers = {r1, r2}
    Dbs = {d1}
    IdleEpochs = 0
    MaxReads = 2
    MaxWrites = 0
    MaxRefusals = 0
    MaxLives = 1
    MaxScrapes = 1
SYMMETRY Symmetry
INVARIANTS EntryAlive FreedOnce  DestroyReleases
