SPECIFICATION Spec
CONSTANTS
  LOOKAHEAD = 1
  HUNDRED = 2
  Setups <- TwoProcessesSetups
  MaxRuns = 1
  MaxOut = 0
INVARIANT RemovedNotAccessed
CHECK_DEADLOCK FALSE
