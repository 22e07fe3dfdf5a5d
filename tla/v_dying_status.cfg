SPECIFICATION PodSpec
CONSTANTS
  NPods = 1
  Nodes = {n1}
  PodSpecs = {"v1"}
  InitConfig = {1}
  MaxLag = 2
  MaxInc = 1
  Limits <- OneFlap
INVARIANT
  KilledNotReported
CHECK_DEADLOCK FALSE
