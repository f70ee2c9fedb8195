SPECIFICATION FairSpec
CONSTANTS
  Fixtures = {"completion", "identity", "retirement", "lifecycle"}
  MaxTroubles = 3
INVARIANTS NothingForgotten RemovedMeansGone
PROPERTIES CleanupCompletes TablesAreRemoved ImplementsWriteAhead
CHECK_DEADLOCK FALSE
