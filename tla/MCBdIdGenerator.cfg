SPECIFICATION MCSpec
CONSTANTS
    Channel <- MCChannel
    Sharing = {0, 1}
    ValidBdIds <- MCValidBdIds
    BdIdBound = 6
    UINT32_MAX = 99
    Modes <- MCModes
INVARIANT IdleLiesAhead
PROPERTY PoolSpec
PROPERTY LeastRecentlyUsed
