SPECIFICATION Spec
CONSTANTS
  MaxName = 2
  MaxLag = 1
  SameSecond = FALSE
  Specs <- OneTwoOrInvalid
  Starts <- LateSecret
  StartNodes = {}
  TenantErrs = {}
INVARIANT
  SelfHealing
CHECK_DEADLOCK FALSE
