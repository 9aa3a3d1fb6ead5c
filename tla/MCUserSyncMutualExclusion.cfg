CONSTANTS
    MaxThreads = 3
    MaxNodes = 3
    Progs <- SyncProgs
    MainProgs = {"main"}
    Slots <- SyncSlots
    NoNode = NoNode
    Garbage = Garbage
    NULL = NULL
SPECIFICATION SyncSpec
INVARIANT MutualExclusion
\* The process ends: it exits, or faults on what the code does.
CHECK_DEADLOCK FALSE
