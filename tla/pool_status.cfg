SPECIFICATION StatusFairSpec
CONSTANTS
  Nodes = {n1, n2}
  MaxLag = 1
  Disturbances <- Disturbed
INVARIANTS
  StatusTypeOK
  
PROPERTIES
  DeletingStays
  ExecutionReported
CHECK_DEADLOCK FALSE
