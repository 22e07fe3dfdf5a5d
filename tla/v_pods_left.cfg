SPECIFICATION PodSpec
CONSTANTS
  NPods = 1
  Nodes = {n1}
  PodSpecs = {"v1"}
  InitConfig = {1}
  MaxLag = 1
  MaxInc = 1
  Limits <- OnePool
INVARIANT
  FinalizedPodsGone
CHECK_DEADLOCK FALSE
