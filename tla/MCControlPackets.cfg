SPECIFICATION Spec
CONSTANTS
  Type <- MCType
  Offset = {0, 1, 2, 3, 4, 5}
  Bit = {0, 1}
  MaxLength = 2
  WrapMax = 9
  Inputs <- MCInputs
  MaxOps = 3
CHECK_DEADLOCK FALSE
PROPERTY ImplementsWrites
PROPERTY Configured
