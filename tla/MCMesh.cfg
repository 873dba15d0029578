SPECIFICATION FairSpec
CONSTANTS
  c = c
  t1 = t1
  t2 = t2
  fed = fed
  round = round
  Trainers <- MCTrainer
  Client = c
  FedLearn = fed
  Round = round
  Greets = 2
  MaxLostGreetings = 1
  MaxFaults = 1
CHECK_DEADLOCK FALSE
INVARIANTS TypeOK RosterIsGenuine
PROPERTY TrainerIsFound
