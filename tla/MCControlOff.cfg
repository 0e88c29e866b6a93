SPECIFICATION ControlSpec
CONSTANTS
  w1 = w1
  w2 = w2
  w3 = w3
  d1 = d1
  d2 = d2
  p1 = p1
  p2 = p2
  r1 = r1
  r2 = r2
  k1 = k1
  q1 = q1
  q2 = q2
  q3 = q3
  q4 = q4
  q5 = q5
  q6 = q6
  q7 = q7
  t1 = t1
  t2 = t2
  tok1 = tok1
  tok2 = tok2
  tok3 = tok3
  a1 = a1
  u1 = u1
  x1 = x1
  v1 = v1
  v2 = v2
  o1 = o1
  Names = {1}
  Bodies <- MCBodies
  ActionRequests = {r1, r2}
  PolicyProcs = {p1, p2}
  Writes = {w1, w2, w3}
  Decisions = {d1, d2}
  ProcOf <- MCProcOf
  BodyOf <- MCBodyOf
  None = None
  MaxSwitch = 1
  MaxRestart = 1
  MasterKeys = {k1, k2, k3}
  Segments = {s1, s2}
  KeyProcs = {p1}
  Jobs = {j1, j2}
  NoKey = NoKey
  BATCH_SIZE = 1
  Requests = {q1, q2, q3, q4, q5, q6, q7}
  Tenants = {t1, t2}
  Tokens = {tok1, tok2, tok3}
  Accounts = {a1}
  Issued <- MCIssued
  OperatorKey = OperatorKey
  Nobody = Nobody
  Ask <- MCAsk
  GlobalLimit = 1
  CostlyLimit = 1
  CallerLimit = 1
  MaxWindow = 1
  AtOnce = 2
  Visitors = {v1, v2}
  Customers = {o1}
  Visits = {x1, x2, x3}
  Mixes <- MCMixes
  MaxRuns = 2
  MaxRunsGlobal = 3
  MaxLive = 1
  Hour = 2
  Ttl = 2
  MaxClock = 2
INVARIANT OffMeansOff
CHECK_DEADLOCK FALSE
