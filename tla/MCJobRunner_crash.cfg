SPECIFICATION Spec
CONSTANTS
  anypoint = anypoint
  file = file
  NoLog = NoLog
  NoReport = NoReport
  NCases = 2
  SourceOf <- TwoSources
  Expected <- OneExpected
  Tokens <- DoneToken
  Fetchable <- Anypoint
  AnyOf <- None
  BadPattern <- None
  OwnHeader <- Second
  Fallback = FALSE
  MaxRetries = 1
  MaxCrashes = 1
INVARIANTS
  TypeOK
  NoLostWakeup
  CompleteIsEarned
  StrictlyScoped
  RetryBudget
  FewWorkbooks
PROPERTIES
  KeepsContract
  EventuallyOver
CHECK_DEADLOCK FALSE
