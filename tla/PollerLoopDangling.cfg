SPECIFICATION SafeSpec
CONSTANTS
    Channel = {conn1}
    Connection = {conn1}
    Racers = {conn1}
    Fd = {fd1}
    None = None
    InitEventListSize = 2
INVARIANT
    RemovedWhenDestructed
CHECK_DEADLOCK FALSE
