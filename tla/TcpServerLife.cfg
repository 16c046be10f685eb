SPECIFICATION ServerSpec
CONSTANTS
    NumThreads = 2
    Quitters = {0}
    Conn = {k1, k2}
    Acceptor = Acceptor
    FdLimit = 1
INVARIANTS
    ServerTypeOK
    ConnectDestroyedOnce
    PollerHoldsLive
    QueuesOnLiveLoop
    ServerOutlivesCalls
    RoundRobin
PROPERTIES
    ImplementsLife
    ClosedIsFreed
    ClientAccepted
    TeardownFrees
CHECK_DEADLOCK FALSE
