SPECIFICATION Spec
CONSTANTS
  owner = owner
  trainer = trainer
  none = none
  Accounts <- MCPair
  Owner = owner
  ZeroAddress = none
  MaxUint = 3
  MaxTasks = 1
  MaxReceived = 3
  MaxCount = 1
  Values <- MCPairValues
  ChunkCounts <- MCChunkCounts
CHECK_DEADLOCK FALSE
INVARIANT RefundReachesDepositor
