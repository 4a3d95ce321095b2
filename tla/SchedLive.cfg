SPECIFICATION LiveSpec
CONSTANTS
  c1 = c1
  c2 = c2
  c3 = c3
  t1 = t1
  t2 = t2
  t3 = t3
  CPUs = {c1, c2}
  Online = {c1, c2}
  LLC <- C2Apart
  Tasks = {t1, t2}
  Allowed <- Everywhere
  Kthreads = {}
  Mortal = {t1}
  Retuned = {}
  OwnTiers <- AllGreedy
  StarvedTiers = {4}
  Higher <- NoHigher
  Idle = Idle
  Rt = Rt
  PercpuRt = PercpuRt
  NoTask = NoTask
INVARIANTS
  NoLostWakeup
PROPERTIES
  NoLostIdleCpu
  EveryTaskRuns
