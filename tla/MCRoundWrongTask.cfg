SPECIFICATION Spec
CONSTANTS
  t1 = t1
  t2 = t2
  none = none
  fed = fed
  Trainers <- MCTrainer
  Rounds <- TwoRounds
  FedLearn = fed
  LeaveTopics <- TwoRounds
  NumChunks = 2
  ChannelSize = 3
  LogsPerChunk = 1
  MaxCommands = 3
  MaxTrains = 1
  MaxFaults = 0
  NoUrl = none
CHECK_DEADLOCK FALSE
INVARIANT WeightsReachTheirRound
