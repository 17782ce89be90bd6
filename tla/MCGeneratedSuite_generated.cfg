SPECIFICATION Spec
CONSTANTS
  Specs <- WithBodies
  Apps <- SomeApps
  NoApp = NoApp
  compare <- Compare
  IndexOf <- Empty
INVARIANTS
  EveryRuleProbed
  OneFaultPerCase
  DeclaredAnswersPass
  BranchesReached
CHECK_DEADLOCK FALSE
