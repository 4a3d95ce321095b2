CONSTANTS
  t1 = t1  t2 = t2  t3 = t3  t4 = t4  t5 = t5
  Tasks = {t1, t2, t3, t4, t5}
  OwnTiers <- Crowd
  WakerTiers <- NoWakers
  Realtime = FALSE
  Stealing = TRUE
  SLICE = 2
  RESUME_SLICE_MIN = 0
  WAKE_BOOST_BUDGET = 1
  STARVE_BUDGET <- Budgets
  STARVE_OVERRIDE_COOLDOWN = 1
  MaxAge = 12
  Idle = Idle
  Rt = Rt
SPECIFICATION Spec
INVARIANT StarvationBounded
