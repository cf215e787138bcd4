SPECIFICATION Spec
CONSTANTS
  PreHooks = 1
  ErrorHooks = 2
  PostHooks = 3
  Writer = 2
  MaxTokens = 2
CHECK_DEADLOCK FALSE
INVARIANT SuccessAttributed
