CONSTANTS
  t0 = t0  t1 = t1  t2 = t2  i0 = i0
  Contexts = {t0, t1, t2, i0}
  CpuOf <- WithInterrupt
  Level <- InterruptLevel
  NR_CPUS = 3
  _Q_MAX_CPUS = 4
  TailCpus = 4
  _Q_MAX_NODES = 1
  MaxBreaks = 1
SPECIFICATION Spec
INVARIANTS TypeOK Balanced NobodyWedged
PROPERTIES ImplementsFifoLock
CHECK_DEADLOCK FALSE
