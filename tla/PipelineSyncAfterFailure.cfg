SPECIFICATION Spec
CONSTANTS
  Writers = {w1, w2}
  Stage1 = stage1
  Admins = {a1}
  NoOne = none
  Plans <- PutPlans
  Faults = {"append", "append_sync"}
  MaxFaults = 2
  MaxAdmin = 0
  MaxCrashes = 0
INVARIANTS
  DurableSeqHonest
