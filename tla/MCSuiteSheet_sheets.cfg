SPECIFICATION Spec
CONSTANTS
  Rows <- SmallRows
  MaxRows = 5
  NoValue = ""
  Canonical <- Columns
  BaseLabels <- Base
  LogLabels <- NoLabels
  Markers <- Results
  Wrong <- Rejects
  Overflow <- Huge
INVARIANTS
  CasesAreFirstGoodRows
  EveryRowAnswered
CHECK_DEADLOCK FALSE
