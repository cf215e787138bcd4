SPECIFICATION Spec
CONSTANTS
  Threads = {t1, t2}
  Names = {"a", "b"}
  Specs <- MCSpecs
  Given <- MCGiven
  Requests <- MCRequests
  MaxSnapshots = 1
  MaxCalls = 4
SYMMETRY MCSymmetry
CHECK_DEADLOCK FALSE
INVARIANTS RegistryTypeOK EntriesTrue GatewayTrue RouteOK
