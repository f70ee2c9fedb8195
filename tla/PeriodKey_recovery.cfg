\* One journal, two kills, lost and late responses.
CONSTANTS
  Journals = {j1}
  PERIOD_SECONDS = 1
  GRACE = 0
  MaxTime = 1
  MaxOutsideKeys = 0
  Spoils = {}
  MaxCrashes = 2
CHECK_DEADLOCK FALSE
SPECIFICATION FairSpec
INVARIANT AttemptIsDurable
PROPERTIES RecoveryCompletes ImplementsWriteAhead
