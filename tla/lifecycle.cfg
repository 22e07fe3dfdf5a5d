SPECIFICATION Spec
CONSTANTS
  MaxName = 3
  MaxLag = 1
  SameSecond = TRUE
  Specs <- OneTwoOrInvalid
  Starts <- Disturbed
  StartNodes = {}
  TenantErrs = {"Ignorable"}
INVARIANTS
  TypeOK SettledCount NamesContiguous NoHalfCreated ReadyRegistered
  ResurrectsOnlyRetired ProvisionUnderFinalizer 
PROPERTIES
  FulfilsContract
CHECK_DEADLOCK FALSE
