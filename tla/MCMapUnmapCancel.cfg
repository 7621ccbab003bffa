SPECIFICATION Spec
CONSTANTS
  N = 2
  NMaps = 2
  MaxOps = 2
  RegionSlots = 2
  AboveSlots = 0
  PoolSlots = 4
  MayFail = {"thread_start"}
  Configs <- DefaultConfigs
INVARIANT
  CancelledThreadsStop
CHECK_DEADLOCK FALSE
