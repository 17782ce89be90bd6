SPECIFICATION DownloadSpec
CONSTANTS
  MaxRetries = 3
  Skew = 3
  Lifetimes = {2, 3, 4}
  Delay = 1
  MaxNow = 4
  MaxRevoked = 1
  MaxDeploys = 1
  NoToken = NoToken
INVARIANTS
  DeadNeverPresented
  FreshVersion
  GivesUpLast
PROPERTY
  SnapshotEnds
CHECK_DEADLOCK FALSE
