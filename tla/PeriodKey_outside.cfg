\* One journal, a kill, another creator, a roll-over and a skewed KMS clock.
CONSTANTS
  Journals = {j1}
  PERIOD_SECONDS = 3
  GRACE = 1
  MaxTime = 3
  MaxOutsideKeys = 1
  Spoils = {"ineligible", "other"}
  MaxCrashes = 1
CHECK_DEADLOCK FALSE
SPECIFICATION Spec
INVARIANTS TypeOK ClaimIsPlausible
PROPERTY BindingStable
