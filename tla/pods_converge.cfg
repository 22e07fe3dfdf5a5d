SPECIFICATION PodFairSpec
CONSTANTS
  NPods = 1
  Nodes = {n1, n2}
  PodSpecs = {"v1", "v2", "csi", "projected"}
  InitConfig = {0}
  MaxLag = 3
  MaxInc = 1
  Limits <- Churn
INVARIANT
  PodTypeOK
PROPERTIES
  ReplacesOnlyOutdated PodsConverge
CHECK_DEADLOCK FALSE
