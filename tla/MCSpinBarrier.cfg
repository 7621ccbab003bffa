SPECIFICATION Spec
CONSTANTS
  Threads = {t1, t2, t3, t4}
  MaxCalls = 3
INVARIANTS
  TypeOK
  RoundSync
  SpinInv
PROPERTIES
  RoundsComplete
  ImplementsBarrier
