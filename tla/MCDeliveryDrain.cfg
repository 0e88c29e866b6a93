SPECIFICATION Spec
CONSTANTS
  p1 = p1
  p2 = p2
  Procs = {p1, p2}
  Plans <- MCPlans
  Exiting = {p1}
  FlushAt = 2
  WithPayload <- MCWithPayload
  Malformed <- MCNone
  MaxFaults = 1
PROPERTY
  DrainsOnRecovery
CHECK_DEADLOCK FALSE
