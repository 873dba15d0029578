SPECIFICATION Spec
CONSTANTS
  t1 = t1
  t2 = t2
  none = none
  fed = fed
  Trainers <- MCTrainer
  Rounds <- TwoRounds
  FedLearn = fed
  LeaveTopics <- AllTopics
  NumChunks = 2
  ChannelSize = 2
  LogsPerChunk = 1
  MaxCommands = 4
  MaxTrains = 2
  MaxFaults = 1
  NoUrl = none
CHECK_DEADLOCK FALSE
INVARIANTS OneRoundAtATime MissingChunkHasCause ChunkRewardedOnce
