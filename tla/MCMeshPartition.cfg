SPECIFICATION Spec
CONSTANTS
  c = c
  t1 = t1
  t2 = t2
  fed = fed
  round = round
  Trainers <- MCTrainers
  Client = c
  FedLearn = fed
  Round = round
  Greets = 1
  MaxLostGreetings = 0
  MaxFaults = 0
SYMMETRY Symmetry
CHECK_DEADLOCK FALSE
INVARIANT BroadcastReachesRoster
