SPECIFICATION Spec
CONSTANTS
  j1 = j1
  j2 = j2
  Jobs = {j1, j2}
  Total <- LongAndShort
  Readings = {0, 2}
  MaxRestarts = 1
  NoReport = NoReport
INVARIANTS
  PollIsCoherent
  RunningIsBacked
PROPERTIES
  PollsGoForward
  KeepsContract
  ToldJobsEnd
CHECK_DEADLOCK FALSE
