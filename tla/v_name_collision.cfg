SPECIFICATION FairSpec
CONSTANTS
  MaxName = 2
  MaxLag = 1
  SameSecond = FALSE
  Specs <- OneTwoOrInvalid
  Starts <- TwoNodes
  StartNodes = {2}
  TenantErrs = {}
PROPERTY
  EnoughNodes
CHECK_DEADLOCK FALSE
