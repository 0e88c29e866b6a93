SPECIFICATION SourcesSpec
CONSTANTS
  c1 = c1
  o1 = o1
  m1 = m1
  m2 = m2
  m3 = m3
  m4 = m4
  L1 = L1
  L2 = L2
  V1 = V1
  r1 = r1
  r2 = r2
  r3 = r3
  a1 = a1
  a2 = a2
  Context = Context
  Providers = {"aws", "github", "gcp", "azure", "workspace", "slack"}
  Creds = {c1}
  Owners = {o1}
  OwnerOf <- MCOwnerOf
  Used <- MCUsed
  Old = {c1}
  Grants <- MCGrants
  ScanJobs = {j1, j2}
  j1 = j1
  j2 = j2
  u1 = u1
  Uploads = {u1}
  Casts <- MCCasts
  Revocations = {v1}
  Workers = 2
  MaxChanges = 1
  MaxDead = 1
  Messages = {m1, m2, m3, m4}
  Shape <- MCShape
  NoneYet = NoneYet
  MaxQueue = 2
  MaxPending = 2
  Runs = {r1, r2, r3}
  ParentOf <- MCParentOf
  AgentOf <- MCAgentOf
  ContextOf <- MCContextOf
  NoRun = NoRun
  MaxTries = 2
  MaxFaults = 1
  b1 = b1
  b2 = b2
  b3 = b3
  b4 = b4
  b5 = b5
  n1 = n1
  n2 = n2
  n3 = n3
  D1 = D1
  D2 = D2
  Tool = Tool
  Acts = {b1, b2, b3, b4, b5, n1, n2, n3}
  Act <- MCAct
  Past <- MCPast
  DestructiveOps = {"delete"}
  ProdRefs = {v1}
  KindOf <- MCKindOf
  t1 = t1
  v1 = v1
  FirstSeen = 0
  MaxRefs = 2
  PoisonedDefs = {D2}
  NoCredential = NoCredential
  NoInventory = NoInventory
  Outcomes <- MCOutcomes
  AlertWorkers = 1
  Jumps = {25}
  MaxToday = 34
SYMMETRY JobsAlike
INVARIANTS
  FindingsFollowGraph
  RevokedIsGone
  RepliesFit
  LossHasCause
  NumbersAccounted
  DeviationsReported
CHECK_DEADLOCK FALSE
