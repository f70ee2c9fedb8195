SPECIFICATION MCSpec
CONSTANTS
  Plans = {p1}
  Attempts = {a1, a2}
  Data = {r1, r2}
  Marker = marker
  Baseline = {r1}
  Values = {1}
  Writers = {gatedWriter, reviewWriter}
  Ungated = {reviewWriter}
  TIMEOUT = 1
  MARGIN = 1
  LIMIT = 3
  BUDGET = 2
  FINAL = 1
  FRESH = 1
  Boundaries = {TRUE, FALSE}
  ClosedFirst = TRUE
  MaxTime = 4
  MaxWrites = 1
  MaxDeploys = 2
  MaxRestores = 1
  a1 = a1
  a2 = a2
INVARIANTS MissedIsExcused
PROPERTIES BaselineIsFinal ImplementsWriteAhead
CHECK_DEADLOCK FALSE
