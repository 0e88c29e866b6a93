SPECIFICATION Spec
CONSTANTS
  p1 = p1
  p2 = p2
  Procs = {p1, p2}
  Plans <- MCPlans
  Exiting = {p1}
  FlushAt = 2
  WithPayload <- MCWithPayload
  Malformed <- MCMalformed
  MaxFaults = 1
INVARIANTS
  NothingLost
  OrderKept
PROPERTY
  Drains
CHECK_DEADLOCK FALSE
