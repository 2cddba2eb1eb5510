\* Four gangs of one PE, no int overflows.
CONSTANTS
  Shapes <- FourGangs
  MaxPix = 6
  MaxBlock = 4
  MaxFBlock = 2
  MaxStride = 3
  Ranks = {0, 1, 5}
  MaxCalls = 2
  INT_DOUBLES = 1000
SPECIFICATION Spec
INVARIANT PrescribedStride
CHECK_DEADLOCK FALSE
