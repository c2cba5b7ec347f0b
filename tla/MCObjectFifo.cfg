SPECIFICATION Spec
CONSTANTS
  Depth = 4
  Items = 12
INVARIANT TypeOK
INVARIANT Exclusive
INVARIANT ReadsInOrder
PROPERTY ImplementsFifo
CHECK_DEADLOCK FALSE
