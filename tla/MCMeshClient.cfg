SPECIFICATION Spec
CONSTANTS
  Tasks = {t1, t2}
  Fetches <- MCFetches
  MaxDMs = 2
  MaxCalls = 3
  MaxMade = 3
SYMMETRY MCSymmetry
CHECK_DEADLOCK FALSE
INVARIANTS MeshTypeOK SentOnce InboxExact NoneOrphaned
