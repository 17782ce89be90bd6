SPECIFICATION Spec
CONSTANTS
  j1 = j1
  j2 = j2
  j3 = j3
  Jobs = {j1, j2, j3}
  WithEvidence = {j1, j2}
  Absent = Absent
  Torn = Torn
  NoOne = NoOne
  Overlap = FALSE
  MayAlter = TRUE
  MaxNow = 4
  MaxFailures = 1
  MaxCrashes = 1
INVARIANTS
  NothingLost
  CasesRecoverable
  LatestIsShown
  AlteredOnlyWhenCutShort
CHECK_DEADLOCK FALSE
