CONSTANTS
    MaxThreads = 3
    MaxNodes = 3
    Progs <- BusyProgs
    MainProgs = {"main"}
    Slots <- BusySlots
    NoNode = NoNode
    Garbage = Garbage
SPECIFICATION Spec
INVARIANT NoUninitialisedTcbReached
\* The process ends: it exits, or faults on what the code does.
CHECK_DEADLOCK FALSE
