SPECIFICATION FairSpec
CONSTANTS
    Readers = {r1}
    Dbs = {d1}
    IdleEpochs = 0
    MaxReads = 2
    MaxWrites = 1
    MaxRefusals = 2
    MaxLives = 1
    MaxScrapes = 0
INVARIANTS TypeOK ReadsFresh
PROPERTIES  RefusalReturns
