SPECIFICATION FairSpec
CONSTANTS
  Runner = runner
  Cleaners = {cleaner}
  Tables = 2
  Roles = 1
  MaxCrashes = 2
INVARIANTS NothingForgotten CompleteMeansGone
PROPERTIES RemovedEventually CleanupCompletes ImplementsWriteAhead
CHECK_DEADLOCK FALSE
