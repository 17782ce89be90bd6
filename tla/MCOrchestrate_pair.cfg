SPECIFICATION Spec
CONSTANTS
  j1 = j1
  j2 = j2
  anypoint = anypoint
  file = file
  shop = shop
  bank = bank
  NoLog = NoLog
  NoReport = NoReport
  Jobs = {j1, j2}
  App <- OneApp
  SuiteUrl = {j2}
  SourceOf <- SomeSources
  Expected <- SomeExpected
  Tokens <- DoneToken
  Resolving <- Anypoint
  BadPattern <- LastCase
  Unfindable <- LastCase
  MaxRetries = 1
INVARIANTS
  TypeOK
  SnapshotsDiscarded
  StrictlyScoped
  FailsHonestly
PROPERTIES
  KeepsContract
  EveryRunEnds
CHECK_DEADLOCK FALSE
