SPECIFICATION Spec
CONSTANTS
  c1 = c1
  c2 = c2
  c3 = c3
  t1 = t1
  t2 = t2
  t3 = t3
  CPUs = {c1, c2, c3}
  Online = {c1, c2}
  LLC <- OneLLC
  Tasks = {t1, t2}
  Allowed <- T1Pinned
  Kthreads = {t1}
  Mortal = {}
  Retuned = {t2}
  OwnTiers <- T2Moves
  StarvedTiers = {}
  Higher <- BothOnC1
  Idle = Idle
  Rt = Rt
  PercpuRt = PercpuRt
  NoTask = NoTask
INVARIANTS
  TypeOK
  QueueMatchesTier
  CurrentTypeAccurate
  NoStaleResume
  OfflineUnused
  RtBusyCounted
PROPERTIES
  StrictTiers
