SPECIFICATION FairSpec
CONSTANTS
    x = x
    y = y
    z = z
    Connection = {x, y, z}
    TileOf <- MCTileOf
    PortOf <- MCPortOf
    BdId = {0, 1, 2, 3}
    MaxQueueSize = 2
    NoBd = NoBd
    NoTask = NoTask
    Programs <- MCPrograms
CHECK_DEADLOCK FALSE
INVARIANT OpenBdIdsDisjoint
INVARIANT ChainOwnsItsBds
INVARIANT QueuesFit
INVARIANT NoTokenLeft
PROPERTY KeepsContract
PROPERTY BdNotOverwritten
PROPERTY Terminates
