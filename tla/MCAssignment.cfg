SPECIFICATION Spec
CONSTANTS
  n1 = n1
  n2 = n2
  n3 = n3
  Nodes <- MCNodes
  MaxRows = 6
  MaxRowSize = 3
  ChunkSize = 3
  MaxFaults = 1
CHECK_DEADLOCK FALSE
INVARIANTS TypeOK DealtOnce DealsShares ChunksFit EveryRowTrainedOnce
