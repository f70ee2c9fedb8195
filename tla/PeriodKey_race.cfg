\* Two journals, applied one after the other or side by side, one kill.
CONSTANTS
  Journals = {j1, j2}
  PERIOD_SECONDS = 1
  GRACE = 0
  MaxTime = 0
  MaxOutsideKeys = 0
  Spoils = {"ineligible"}
  MaxCrashes = 1
CHECK_DEADLOCK FALSE
SPECIFICATION Spec
SYMMETRY Symmetry
INVARIANTS VerifiedAgree OneCreatePerJournal JournalsValid SerializedUnique
