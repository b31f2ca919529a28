SPECIFICATION Spec
CONSTANTS
  Wire <- MCWire
  SplitHeaders = FALSE
INVARIANT TypeOK
INVARIANT FramedExactly
INVARIANT HandledOnce
PROPERTY AppendReturns
CHECK_DEADLOCK FALSE
