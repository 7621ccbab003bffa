SPECIFICATION Spec
CONSTANTS
  Inputs <- MCInputs
  Ports <- MCPorts
  MayFail <- MCMayFail
  NumVregions = 2
  MaxMaps = 3
INVARIANTS
  TypeOK
  CoresListed
  InitBeforeUse
  NoEarlyThread
  VregionsDistinct
PROPERTIES
  InitReturns
CHECK_DEADLOCK FALSE
