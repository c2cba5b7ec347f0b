SPECIFICATION FairSpec
CONSTANTS
  a = a
  b = b
  NoLoop = NoLoop
  Programs <- MCPrograms
  IntraDims <- MCIntraDims
  InterDims <- MCInterDims
  WrapMax = 4
  IterWrapMax = 3
  StepMax = 16
  IterStepMax = 32
  MaxRepeatCount = 6
  NoLimit = 1000
CHECK_DEADLOCK FALSE
INVARIANT DataKept
PROPERTY Terminates
