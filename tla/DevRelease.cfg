SPECIFICATION Spec
CONSTANTS
  s1 = s1
  s2 = s2
  s3 = s3
  Subjects = {s1, s2, s3}
  MaxAdmitted = 2
  Member = "member"
  Tester = "tester"
  MaxRuns <- MCRuns
  MaxTroubles <- MCTroubles
SYMMETRY Symmetric
INVARIANTS TypeOK BilledAreErasable HalfAppliedNeedsAHand
PROPERTIES OverwritesWhatWasReviewed PassedIsDeployed StaleTfvarsTakeNothing
  AnalysisPackageStays BeginsOverIndex NoForeignGrant
CHECK_DEADLOCK FALSE
