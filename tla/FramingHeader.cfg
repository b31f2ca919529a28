SPECIFICATION Spec
CONSTANTS
  Wire <- MCWire
  SplitHeaders = TRUE
INVARIANT FramedExactly
CHECK_DEADLOCK FALSE
