SPECIFICATION FairSpec
CONSTANTS
  u1 = u1
  r1 = r1
  exec = exec
  Executor = exec
  Users <- OneUser
  Receivers <- OneReceiver
  Capacity = 3
  MaxChunks = 2
  MaxLogs = 2
  MaxSends = 1
  MaxSent = 6
CHECK_DEADLOCK FALSE
PROPERTY EverySentExecuted
