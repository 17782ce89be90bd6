SPECIFICATION Spec
CONSTANTS
  j1 = j1
  j2 = j2
  j3 = j3
  Jobs = {j1, j2}
  WithEvidence = {j1, j2}
  Absent = Absent
  Torn = Torn
  NoOne = NoOne
  Overlap = TRUE
  MayAlter = FALSE
  MaxNow = 1
  MaxFailures = 0
  MaxCrashes = 0
INVARIANT
  EveryRunRecorded
CHECK_DEADLOCK FALSE
