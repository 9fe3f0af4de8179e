SPECIFICATION Spec
CONSTANTS
  Writers = {w1, w2}
  Stage1 = stage1
  Admins = {a1}
  NoOne = none
  Plans <- PutPlans
  Faults = {"sync"}
  MaxFaults = 1
  MaxAdmin = 1
  MaxCrashes = 0
INVARIANTS
  ThrownUnseen
