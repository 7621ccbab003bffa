SPECIFICATION Spec
CONSTANTS
  N = 2
  MaxOps = 3
  MaxMem = 3
  RegionSlots = 6
  AboveSlots = 0
  PoolSlots = 5
  MayFail = {}
  Configs <- OnePageConfigs
INVARIANT
  ElevationOnly
CHECK_DEADLOCK FALSE
