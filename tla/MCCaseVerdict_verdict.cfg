SPECIFICATION Spec
CONSTANTS
  prune_one <- PruneOne
  prune <- Prune
  compare <- Compare
  demands <- Demands
  meets <- Meets
  Docs <- AllDocs
  DocDepth <- Depth
  IndexOf <- Zero_One
  PathSegments <- Segments
  ExpectedDocs <- Expectations
  ActualDocs <- Answers
  IgnorePaths <- Ignores
  Logs <- SmallLogs
  Needles <- XY
  Ids = {Mine, other}
  Mine = Mine
  other = other
  NoId = NoId
INVARIANTS
  VerdictMeansDemands
  IgnoringOnlyRelaxes
  LogVerdictIsEarned
CHECK_DEADLOCK FALSE
