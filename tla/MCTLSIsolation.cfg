CONSTANTS
    t1 = t1  t2 = t2  t3 = t3
    f1 = f1  f2 = f2  f3 = f3  f4 = f4
    Threads <- MCThreads
    Frames <- MCFrames
    Sizes <- MCSizes
    Accesses <- MCAccesses
    MaxThreads = 2
    PageSize = 2
    UIntWidth = 3
    Bytes = {0, 1}
    Zero = 0
    NULL = NULL
SPECIFICATION Spec
SYMMETRY Symmetry
CHECK_DEADLOCK FALSE
INVARIANT Isolation
