SPECIFICATION Spec
CONSTANTS
  fA = fA
  fB = fB
  fC = fC
  fM = fM
  fA2 = fA2
  fC2 = fC2
  Shim = Shim
  Cores = {1, 2}
  Depth <- MCDepth
  Source <- MCSource
  Targets <- MCTargets
  Programs <- MCPrograms
  MaxShort = 5
  Dispatches = 4
  MaxObjects = 60
INVARIANT CircularsUnique
INVARIANT SplitInOrder
INVARIANT ReadsInOrder
PROPERTY FifosImplemented
PROPERTY Settles
CHECK_DEADLOCK FALSE
