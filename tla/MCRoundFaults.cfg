SPECIFICATION FairSpec
CONSTANTS
  t1 = t1
  t2 = t2
  none = none
  fed = fed
  Trainers <- MCTrainers
  Rounds <- OneRound
  FedLearn = fed
  LeaveTopics <- OneRound
  NumChunks = 3
  ChannelSize = 2
  LogsPerChunk = 1
  MaxCommands = 2
  MaxTrains = 1
  MaxFaults = 2
  NoUrl = none
CHECK_DEADLOCK FALSE
INVARIANTS TypeOK CompletedMeansUploaded ChunkRewardedOnce
PROPERTY TrainedRoundEnds
