SPECIFICATION FairSpec
CONSTANTS
  Threads = {t1, t2}
  Developers = {d1}
  Ttl = 1
  MaxPages = 2
  MaxCall = 1
  MaxTime = 3
CHECK_DEADLOCK FALSE
INVARIANTS DiscoveryTypeOK AgeBounded ForgetBounded NeverCutByError FallbackReached
PROPERTIES NeverFarBack CallsEnd
