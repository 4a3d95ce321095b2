CONSTANTS
  t1 = t1  t2 = t2  t3 = t3  t4 = t4  t5 = t5
  Tasks = {t1, t2, t3}
  OwnTiers <- Mixed
  WakerTiers <- Wakers
  Realtime = FALSE
  Stealing = FALSE
  SLICE = 2
  RESUME_SLICE_MIN = 0
  WAKE_BOOST_BUDGET = 2
  STARVE_BUDGET <- Budgets
  STARVE_OVERRIDE_COOLDOWN = 1
  MaxAge = 7
  Idle = Idle
  Rt = Rt
SPECIFICATION Spec
INVARIANT RestOfSlice
