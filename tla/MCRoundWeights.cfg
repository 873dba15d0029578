SPECIFICATION Spec
CONSTANTS
  t1 = t1
  t2 = t2
  none = none
  fed = fed
  Trainers <- MCTrainers
  Rounds <- OneRound
  FedLearn = fed
  LeaveTopics <- NoLeaves
  NumChunks = 2
  ChannelSize = 2
  LogsPerChunk = 1
  MaxCommands = 1
  MaxTrains = 1
  MaxFaults = 1
  NoUrl = none
CHECK_DEADLOCK FALSE
INVARIANT RewardedForWeights
