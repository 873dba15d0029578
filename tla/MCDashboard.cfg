SPECIFICATION FairSpec
CONSTANTS
  u1 = u1
  u2 = u2
  Users <- OneUser
  MaxPayments = 2
  NumChunks = 2
  PageSize = 3
  MaxFaults = 1
  MaxMisreads = 1
  MaxUnconfirmed = 1
CHECK_DEADLOCK FALSE
INVARIANTS TypeOK CompletedHasEveryWeight NoPaymentForgotten
PROPERTIES CompletedIsFinal SettledIsReported
