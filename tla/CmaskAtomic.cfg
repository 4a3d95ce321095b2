CONSTANTS
  t1 = t1
  t2 = t2
  Threads = {t1, t2}
  W = 2
  base = 1
  nr_cids = 3
  CMASK_CAS_TRIES = 2
SPECIFICATION Spec
SYMMETRY Symmetry
INVARIANTS FailsByContention
PROPERTIES ImplementsAtomicMask
