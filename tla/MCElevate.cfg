SPECIFICATION Spec
CONSTANTS
  N = 2
  MaxOps = 3
  MaxMem = 3
  RegionSlots = 6
  AboveSlots = 0
  PoolSlots = 5
  MayFail = {"thread_start", "map", "unmap", "protect"}
  Configs <- MCConfigs
INVARIANTS
  TypeOK
  ElevatesReadOnly
  OwnPages
PROPERTIES
  ReturnsUnlessFailed
CHECK_DEADLOCK FALSE
