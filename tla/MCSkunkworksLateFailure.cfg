SPECIFICATION Spec
CONSTANTS
  Pids = {p1}
  NoPid = NoPid
  Before = {}
  Deciders = {d1}
  MaxRunsPerDay = 1
  LastDay = 1
  OverlappingStarts = FALSE
  LateFailures = TRUE
CHECK_DEADLOCK FALSE
PROPERTY DecisionFinal
