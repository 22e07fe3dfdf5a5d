SPECIFICATION Spec
CONSTANTS
  Nodes = {n1}
  MaxLag = 2
  Disturbances <- TwoFlips
INVARIANT
  AccurateAtRest
CHECK_DEADLOCK FALSE
