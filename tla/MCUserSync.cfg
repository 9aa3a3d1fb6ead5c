CONSTANTS
    MaxThreads = 3
    MaxNodes = 4
    Progs <- AllProgs
    MainProgs = {"main", "busy", "reinit", "twice", "overlimit", "exitmain"}
    Slots <- AllSlots
    NoNode = NoNode
    Garbage = Garbage
    NULL = NULL
SPECIFICATION SyncSpec
INVARIANT SyncTypeOK
INVARIANT ExitOnlyWhenNoThreadLeft
PROPERTY ProcessTerminates
\* The process ends: it exits, or faults on what the code does.
CHECK_DEADLOCK FALSE
