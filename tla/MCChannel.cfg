SPECIFICATION FairSpec
CONSTANTS
  u1 = u1
  r1 = r1
  exec = exec
  Executor = exec
  Users <- OneUser
  Receivers <- OneReceiver
  Capacity = 2
  MaxChunks = 2
  MaxLogs = 2
  MaxSends = 2
  MaxSent = 12
CHECK_DEADLOCK FALSE
INVARIANTS TypeOK
PROPERTIES ParkedForEver ExecutedUnlessParked
