SPECIFICATION Spec
CONSTANTS
  b1 = b1
  b2 = b2
  Batches = {b1, b2}
  Policies = {1, 2}
  DefaultDays = 1
  TierDays = 1
  MaxDay = 3
  MaxChanges = 2
  Gone = Gone
  Free = Free
  Sweeper = Sweeper
INVARIANTS
  NoDanglingRow
PROPERTIES
  NothingDeletedEarly
  ExpiresInTime
SYMMETRY Symmetry
CHECK_DEADLOCK FALSE
