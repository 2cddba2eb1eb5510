\* Four PEs, no int overflows.
CONSTANTS
  Shapes <- TwoByTwo
  MaxPix = 6
  MaxBlock = 4
  MaxFBlock = 2
  MaxStride = 3
  Ranks = {0, 1, 5}
  MaxCalls = 2
  INT_DOUBLES = 1000
SPECIFICATION Spec
INVARIANT ConditionsSuffice
CHECK_DEADLOCK FALSE
