SPECIFICATION Spec
CONSTANTS
  Plans = {p1}
  Attempts = {a1}
  Data = {r1, r2}
  Marker = marker
  Baseline = {r1}
  Values = {1}
  Writers = {gatedWriter, reviewWriter}
  Ungated = {reviewWriter}
  TIMEOUT = 2
  MARGIN = 2
  LIMIT = 7
  BUDGET = 4
  FINAL = 1
  FRESH = 2
  Boundaries = {TRUE}
  ClosedFirst = FALSE
  MaxTime = 6
  MaxWrites = 2
  MaxDeploys = 2
  MaxRestores = 0
  a1 = a1
  a2 = a2
PROPERTY DrainedBeforeSend
CHECK_DEADLOCK FALSE
