CONSTANTS
    MaxThreads = 2
    MaxNodes = 5
    Progs <- SerialProgs
    MainProgs = {"main"}
    Slots <- SerialSlots
    NoNode = NoNode
    Garbage = Garbage
SPECIFICATION Spec
INVARIANT CurrentIsExecuting
CHECK_DEADLOCK FALSE
