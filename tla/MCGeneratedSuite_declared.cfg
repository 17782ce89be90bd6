SPECIFICATION Spec
CONSTANTS
  Specs <- Declared
  Apps = {}
  NoApp = NoApp
  compare <- Compare
  IndexOf <- Empty
INVARIANT ConformingApiPasses
CHECK_DEADLOCK FALSE
