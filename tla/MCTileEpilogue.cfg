SPECIFICATION Spec
CONSTANTS
  fA = fA
  fB = fB
  fC = fC
  fM = fM
  fA2 = fA2
  fC2 = fC2
  Shim = Shim
  Cores = {1, 2}
  Depth <- MCDeep
  Source <- MCSource
  Targets <- MCTargets
  Programs <- MCWriteLoops
  MaxShort = 5
  Dispatches = 4
  MaxObjects = 60
INVARIANT ReadsInOrder
CHECK_DEADLOCK FALSE
