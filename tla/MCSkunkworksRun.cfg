SPECIFICATION FairSpec
CONSTANTS
  MaxJobs = 10
  MaxQueries = 8
  MaxRunTime = 18
  JobTimeout = 6
  PollTime = 1
  MaxWanted = 9
CHECK_DEADLOCK FALSE
INVARIANTS RunTypeOK NeverOutOfJobs OneJobOut NothingDropped
PROPERTIES NothingBegunLate RunEnds ImplementsLifecycle
