SPECIFICATION Spec
CONSTANTS
  TABLES = {"t1", "t2"}
  Elsewhere = {"x"}
  TableActions = {"get", "put"}
  OtherActions = {"log"}
  Partitions = {"own", "foreign"}
  Roles = 2
  Lossy = FALSE
  Specs <- MCSpecs
  OldSpecs <- MCOldSpecs
  Policies <- MCPolicies
INVARIANTS CompleteWhenAnswered FixtureDecidesAsLive
CHECK_DEADLOCK FALSE
