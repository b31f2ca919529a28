SPECIFICATION Spec
CONSTANT MaxPkts = 7
INVARIANT ListWellFormed
INVARIANT WalkIsNext
PROPERTY WalkClears
PROPERTY ImplementsPacketSet
CHECK_DEADLOCK FALSE
