SPECIFICATION Spec
CONSTANTS
  Pids = {p1}
  NoPid = NoPid
  Before = {}
  Deciders = {d1, d2}
  MaxRunsPerDay = 1
  LastDay = 1
  OverlappingStarts = FALSE
  LateFailures = FALSE
CHECK_DEADLOCK FALSE
PROPERTY DecisionFinal
