SPECIFICATION ServerSafeSpec
CONSTANTS
    NumThreads = 1
    Quitters = {0}
    Conn = {k1, k2}
    Acceptor = Acceptor
    FdLimit = 2
INVARIANT DestroyedBeforeFreed
CHECK_DEADLOCK FALSE
