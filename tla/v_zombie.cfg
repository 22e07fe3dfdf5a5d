SPECIFICATION Spec
CONSTANTS
  MaxName = 2
  MaxLag = 1
  SameSecond = FALSE
  Specs <- OneTwoOrInvalid
  Starts <- OneDelete
  StartNodes = {}
  TenantErrs = {}
INVARIANT
  FinalizedClean
CHECK_DEADLOCK FALSE
