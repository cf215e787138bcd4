SPECIFICATION FairSpec
CONSTANTS
  PreHooks = 1
  ErrorHooks = 2
  PostHooks = 3
  Writer = 2
  MaxTokens = 2
CHECK_DEADLOCK FALSE
INVARIANTS CallTypeOK RowIsTotal UndercountVisible ReturnedAttributed ParsedOrClassified ErrorsTold 
PROPERTY TimedCallEnds
