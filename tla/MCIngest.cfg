SPECIFICATION Spec
CONSTANTS
  r1 = r1
  r2 = r2
  forged = forged
  admin = admin
  t1 = t1
  e1 = e1
  e2 = e2
  e3 = e3
  e4 = e4
  e5 = e5
  EventIds = {e1, e2, e3, e4, e5}
  Requests = {r1, r2, forged, admin}
  Batch <- MCBatch
  Token <- MCToken
  Tokens = {t1}
  NoToken = NoToken
  Limits <- MCLimits
  Unlimited = Unlimited
  MaxTry <- MCMaxTry
  MaxDay = 2
  Free = Free
INVARIANTS
  HistoryInLog
  NoFork
  PayloadsResolve
  MetersMatchRecord
PROPERTIES
  AllowanceRespected
  CaptureBarrier
  RecordsWholeBatches
CHECK_DEADLOCK FALSE
