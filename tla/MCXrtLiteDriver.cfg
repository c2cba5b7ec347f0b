SPECIFICATION Spec
CONSTANTS
    Buffer = {"a", "b"}
    Entry = {"e1", "e2"}
    HostValue = {"v"}
    KernelRuns = {0, 2}
    ReconfRuns = {2}
    PdiLoads = {2}
    MaxOps = 5
    UnflushedUse = FALSE
    AnyEntryFirst = FALSE
INVARIANT QuietOutsideWait
PROPERTY ImplementsQueue
PROPERTY Returns
CHECK_DEADLOCK FALSE
