SPECIFICATION PodSpec
CONSTANTS
  NPods = 1
  Nodes = {n1}
  PodSpecs = {"v1"}
  InitConfig = {1}
  MaxLag = 1
  MaxInc = 2
  Limits <- OneDeletion
INVARIANT
  StatusIsOwn
CHECK_DEADLOCK FALSE
