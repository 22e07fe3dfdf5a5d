SPECIFICATION PodSpec
CONSTANTS
  NPods = 1
  Nodes = {n1, n2}
  PodSpecs = {"v1"}
  InitConfig = {0}
  MaxLag = 3
  MaxInc = 3
  Limits <- Reused
SYMMETRY NodeSymmetry
PROPERTIES
  NoRerun TerminalIsFinal
CHECK_DEADLOCK FALSE
