SPECIFICATION Spec
CONSTANTS
  LOOKAHEAD = 1
  HUNDRED = 100
  Setups <- ExampleSetups
  MaxRuns = 1
  MaxOut = 0
INVARIANT LaterWindowsLabelled
CHECK_DEADLOCK FALSE
