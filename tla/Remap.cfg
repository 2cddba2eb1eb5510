SPECIFICATION FairSpec
CONSTANT Shapes <- SmallShapes
INVARIANTS Remapped RecvFits
PROPERTY AllArrive
CHECK_DEADLOCK FALSE
