SPECIFICATION Spec
CONSTANTS
  N = 3
  MaxStats = 2
  Prepopulate = 2
  Dryrun = 1
  Delta = 2
  MaxTime = 4
  MaxCalls = 3
  MayFail = {"calloc", "create", "map", "run"}
INVARIANTS
  TypeOK
  ReadyToRun
  ObjectsReleased
  SamplesInPart
  SamplesSpaced
CHECK_DEADLOCK FALSE
