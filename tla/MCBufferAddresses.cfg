SPECIFICATION PlanningSpec
CONSTANTS
    NumBanks = 4
    BankSize = 16384
    NBuffers = 6
    None = None
    MemTileSize = 524288
    StackSize = 1024
    Sizes = {1, 3, 4, 5, 9}
    Stacks = {1, 5}
    Tiles <- SafeTiles
    Dims = {12, 96, 512}
    Types = {"bf16", "i8", "i32"}
    Arrays <- AllArrays
    Matmuls <- MCMatmuls
CHECK_DEADLOCK FALSE
INVARIANT BuffersApart
INVARIANT CompilesWhatFits
INVARIANT PlanIsPlaced
