SPECIFICATION FairSpec
CONSTANTS
  Dispatches = 2
  MaxAttempts <- MCAttempts
  RetryableErrors = {"timeout", "reply"}
  MaxCancels = 1
INVARIANTS
  OneAttemptExecutes
  TeamIsCurrent
PROPERTIES
  ImplementsContract
  DispatchAnswered
CHECK_DEADLOCK FALSE
