SPECIFICATION Spec
CONSTANTS
  DUTY_WINDOW = 10000
  DUTY_INIT_RUN = 8000
  INTERVAL_REF = 100000
  INTERVAL_MIN = 1
  Kthread = TRUE
  Durations <- Gaps
  MaxSteps = 7
CHECK_DEADLOCK FALSE
INVARIANTS
  TypeOK
  DutyBounded
  IntervalsBounded
  CritIsLog2
  TierInBand
