SPECIFICATION Spec
CONSTANTS
  u1 = u1
  u2 = u2
  Users <- OneUser
  MaxPayments = 2
  NumChunks = 2
  PageSize = 8
  MaxFaults = 0
  MaxMisreads = 0
  MaxUnconfirmed = 1
CHECK_DEADLOCK FALSE
INVARIANT HeldInEscrow
