SPECIFICATION AlertsSpec
CONSTANTS
  b1 = b1
  b2 = b2
  b3 = b3
  e1 = e1
  e2 = e2
  e3 = e3
  d1 = d1
  d2 = d2
  w1 = w1
  w2 = w2
  c1 = c1
  Batches = {b1, b2, b3}
  Batch <- MCBatch
  Events = {e1, e2, e3}
  Defs = {d1, d2}
  NoDef = NoDef
  Tool <- MCTool
  Destructive = {e1, e2}
  Workers = {w1, w2}
  Calls = {c1}
  NoJob = NoJob
  Free = Free
  Never = Never
  Cooldown = 1
  MaxTime = 2
  MaxDeaths = 1
PROPERTY
  ChangesAreReal
CHECK_DEADLOCK FALSE
