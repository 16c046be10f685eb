SPECIFICATION Spec
CONSTANTS
    Channel = {conn1, conn2, listener}
    Connection = {conn1, conn2}
    Racers = {conn2}
    Fd = {fd1, fd2}
    None = None
    InitEventListSize = 1
INVARIANTS
    CtlNeverFails
    KernelAgrees
    MapAgrees
    ActiveAlive
PROPERTIES
    ReadyIsHandled
CHECK_DEADLOCK FALSE
