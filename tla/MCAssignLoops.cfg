SPECIFICATION Spec
CONSTANTS
    Tile = {0, 1}
    NumBdIds = 4
    Loops <- LoopsUsed
    MaxDmas = 4
    MaxLoops = 2
    MaxDepth = 2
CHECK_DEADLOCK FALSE
INVARIANT OutstandingIdsDiffer
INVARIANT AllIdsReleased
