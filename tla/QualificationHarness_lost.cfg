SPECIFICATION Spec
CONSTANTS
  TABLES = {"t1", "t2"}
  Elsewhere = {"x"}
  TableActions = {"get", "put"}
  OtherActions = {"log"}
  Partitions = {"own", "foreign"}
  Roles = 1
  Lossy = TRUE
  Specs <- MCSpecs
  OldSpecs <- MCOldSpecs
  Policies <- MCOnePolicy
INVARIANT LostCreatesAreCleaned
CHECK_DEADLOCK FALSE
