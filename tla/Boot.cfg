CONSTANTS
  MAX_CPUS = 3
  DSQ_CPU_QUEUE_BASE <- Bases
  Machines <- MCMachines
  U32 = 4
  EnumNames <- Names
  AbiVals <- Vals
  StartLimitBurst = 2
  MaxHotplug = 2
SPECIFICATION Spec
INVARIANTS TypeOK TopologyCurrent FitsKernel EndUnderstood
PROPERTIES QueuesFit StopRestoresDefault Recovers
