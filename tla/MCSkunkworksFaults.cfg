SPECIFICATION FairSpec
CONSTANTS
  Pids = {p1, p2, p3}
  NoPid = NoPid
  Before = {p3}
  Deciders = {}
  MaxRunsPerDay = 1
  LastDay = 1
  OverlappingStarts = TRUE
  LateFailures = TRUE
CHECK_DEADLOCK FALSE
INVARIANTS EvidenceOnDisk NeverLockedOut
PROPERTIES StartEnds
