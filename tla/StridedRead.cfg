\* Matrices of up to 36 doubles, of which an int of bytes counts 20.
CONSTANTS
  Shapes <- AllShapes
  MaxPix = 6
  MaxBlock = 4
  MaxFBlock = 2
  MaxStride = 3
  Ranks = {0, 1, 5}
  MaxCalls = 2
  INT_DOUBLES = 20
SPECIFICATION Spec
INVARIANTS
  ReadExact
  NoOverrun
  AbortOnlyOnMisfit
  RecordPositive
  LayoutRight
CHECK_DEADLOCK FALSE
