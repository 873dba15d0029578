SPECIFICATION Spec
CONSTANTS
  N = 2
  MaxAttempts = 2
  NumCalls = 1
  Claims = {}
CHECK_DEADLOCK FALSE
INVARIANTS SuccessMeansDone
