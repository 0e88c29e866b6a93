SPECIFICATION VerifySpec
CONSTANTS
  r1 = r1
  r2 = r2
  t1 = t1
  e1 = e1
  e2 = e2
  EventIds = {e1, e2}
  Requests = {r1, r2}
  Batch <- MCBatch
  Token <- MCToken
  Tokens = {t1}
  NoToken = NoToken
  Limits <- MCLimits
  Unlimited = Unlimited
  MaxTry <- MCMaxTry
  MaxDay = 1
  Free = Free
  NoAnchor = NoAnchor
  NoJob = NoJob
  PageSize = 2
  MaxDamage = 0
PROPERTY
  OrphansSurface
CHECK_DEADLOCK FALSE
