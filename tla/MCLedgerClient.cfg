SPECIFICATION Spec
CONSTANTS
  N = 3
  MaxAttempts = 4
  NumCalls = 3
  Claims <- MCClaims
CHECK_DEADLOCK FALSE
INVARIANTS TypeOK AppliedOnce GivesUpAfterAllNodes
