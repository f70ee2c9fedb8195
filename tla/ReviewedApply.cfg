SPECIFICATION FairSpec
CONSTANTS
  Codes = {"c1", "c2"}
  Revisions = {1}
  Pinned <- MCPinned
  Candidate = "c2"
  Installable = {"c1"}
  Gates <- MCGates
  MaxRuns = 2
  MaxTroubles = 1
PROPERTIES ReviewedOverwrites PreservedKeepsGates HalfAppliedIsRepaired
CHECK_DEADLOCK FALSE
