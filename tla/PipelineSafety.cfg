SPECIFICATION Spec
CONSTANTS
  Writers = {w1, w2}
  Stage1 = stage1
  Admins = {a1}
  NoOne = none
  Plans <- AllPlans
  Faults = {"append", "sync", "create", "limit", "alloc"}
  MaxFaults = 2
  MaxAdmin = 1
  MaxCrashes = 1
SYMMETRY Symmetry
INVARIANTS
  TypeOK
  DurableSeqHonest
  DurableBeforeVisible
  SyncCallKept
  AcknowledgedKept
  
  HeadInFile
  OrphansRefused
  FlushErrorReported
  PublicationsPass
  NoLostWakeup
PROPERTIES
  RefusalHolds
  PublishedMonotone
  OutcomePublished
