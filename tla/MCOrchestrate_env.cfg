SPECIFICATION Spec
CONSTANTS
  j1 = j1
  j2 = j2
  anypoint = anypoint
  file = file
  shop = shop
  bank = bank
  NoLog = NoLog
  NoReport = NoReport
  Jobs = {j1, j2}
  App <- TwoApps
  SuiteUrl = {}
  SourceOf <- SingleSource
  Expected <- SingleExpected
  Tokens <- DoneToken
  Resolving <- Anypoint
  BadPattern <- None
  Unfindable <- None
  MaxRetries = 0
INVARIANT
  FailsHonestly
CHECK_DEADLOCK FALSE
