SPECIFICATION Spec
CONSTANTS
  Writers = {w1, w2, w3}
  Stage1 = stage1
  Admins = {a1}
  NoOne = none
  Plans <- PutPlans
  Faults = {"append", "sync", "create"}
  MaxFaults = 1
  MaxAdmin = 0
  MaxCrashes = 0
SYMMETRY Symmetry
PROPERTIES
  ThrownStaysUnseen
