SPECIFICATION Spec
CONSTANTS
  N = 3
  MaxStats = 2
  Prepopulate = 2
  Dryrun = 1
  Delta = 2
  MaxTime = 4
  MaxCalls = 3
  MayFail = {"create"}
INVARIANT
  PrepareReturns
CHECK_DEADLOCK FALSE
