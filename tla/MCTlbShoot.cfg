SPECIFICATION Spec
CONSTANTS
  N = 3
  MaxOps = 2
  RegionSlots = 4
  AboveSlots = 0
  PoolSlots = 4
  MayFail = {"thread_start", "map", "unmap"}
  Configs <- MCConfigs
INVARIANTS
  TypeOK
  ReadersRun
  TouchMapped
  DoneOutlivesReaders
PROPERTIES
  ReturnsUnlessFailed
CHECK_DEADLOCK FALSE
