SPECIFICATION Spec
CONSTANTS
  Pids = {p1, p2}
  NoPid = NoPid
  Before = {}
  Deciders = {}
  MaxRunsPerDay = 1
  LastDay = 1
  OverlappingStarts = TRUE
  LateFailures = FALSE
CHECK_DEADLOCK FALSE
INVARIANT OneLiveRun
