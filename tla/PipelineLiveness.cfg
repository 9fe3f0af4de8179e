SPECIFICATION FairSpec
CONSTANTS
  Writers = {w1, w2}
  Stage1 = stage1
  Admins = {a1}
  NoOne = none
  Plans <- MixedPlans
  Faults = {"append", "sync"}
  MaxFaults = 1
  MaxAdmin = 1
  MaxCrashes = 0
PROPERTIES
  CallReturns
