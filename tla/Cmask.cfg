CONSTANTS
  W = 2
  CMASK_MAX_WORDS = 3
  Masks = {"a", "b"}
  Scratch = {"a"}
  ALLOC_CIDS = 4
  MaxBase = 2
  cpu_to_cid <- CidOfCpu
SPECIFICATION Spec
INVARIANTS TypeOK PaddingClear ChangesExact ScansExact Rotates
