SPECIFICATION FairSpec
CONSTANTS
  w1 = w1
  w2 = w2
  Writers = {w1, w2, w3}
  Committer = committer
  Syncs <- SyncChoices
  MaxSubmits <- Budget
INVARIANTS
  TypeOK
  OneBatchAtATime
  QueueServed
  SlotAliveWhileHeld
  ReturnsItsVerdict
  InflightCounts
PROPERTIES
  ImplementsSerialExecutor
  SubmitReturns
  DestroyEnds
