SPECIFICATION Spec
CONSTANTS
  u1 = u1
  u2 = u2
  Users <- OneUser
  MaxPayments = 1
  NumChunks = 2
  PageSize = 2
  MaxFaults = 0
  MaxMisreads = 0
  MaxUnconfirmed = 0
CHECK_DEADLOCK FALSE
INVARIANT AllWeightsDelivered
