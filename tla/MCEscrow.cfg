SPECIFICATION Spec
CONSTANTS
  owner = owner
  trainer = trainer
  none = none
  Accounts <- MCPair
  Owner = owner
  ZeroAddress = none
  MaxUint = 3
  MaxTasks = 2
  MaxReceived = 3
  MaxCount = 1
  Values <- MCPairValues
  ChunkCounts <- MCChunkCounts
CHECK_DEADLOCK FALSE
INVARIANTS TypeOK TaskBalanced OpenWhileOwing BalanceAccounted RewardsPaidOrCredited
PROPERTY ImplementsPromise
