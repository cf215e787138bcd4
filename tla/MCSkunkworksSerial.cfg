SPECIFICATION Spec
CONSTANTS
  Pids = {p1, p2}
  NoPid = NoPid
  Before = {}
  Deciders = {d1}
  MaxRunsPerDay = 1
  LastDay = 2
  OverlappingStarts = FALSE
  LateFailures = FALSE
CHECK_DEADLOCK FALSE
INVARIANTS TypeOK OneLiveRun DailyCap GateHolds AssessmentAgrees
PROPERTIES DecisionFinal ImplementsLifecycle
