SPECIFICATION ScenesSpec
CONSTANTS
  None = None
  u1 = u1  plan = plan  pack = pack
  s1 = s1  s2 = s2  hook = hook  cron = cron  drip1 = drip1  drip2 = drip2
  MaxAttempts = 2
  MaxRestarts = 1
  Scenes = {"renewals", "drips", "switches"}
  LsSubs <- TwoSubs
  First = s1
  Hooks <- OneHook
  Cron = cron
  Drips <- TwoDrips
  Period = 2
  GrantEvery = 1
  GrantsPerPeriod = 2
  Grace = 1
  Window = 3
  MaxTime = 4
SYMMETRY DripSymmetry
INVARIANTS AllocationsBounded RenewalsInOrder PaidThrough
CHECK_DEADLOCK FALSE
