SPECIFICATION Spec
CONSTANTS
  N = 2
  NMaps = 2
  MaxOps = 5
  RegionSlots = 2
  AboveSlots = 0
  PoolSlots = 4
  MayFail = {"barrier_init", "thread_start", "calloc", "map", "unmap"}
  Configs <- MCConfigs
INVARIANTS
  TypeOK
  PhasesDisjoint
  AddrsOwned
  OwnRegion
  NothingLeftMapped
  ReportComplete
PROPERTIES
  NoForeignUnmap
  ImplementsForkJoin
  ReturnsUnlessDeserted
CHECK_DEADLOCK FALSE
