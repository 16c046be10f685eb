SPECIFICATION Spec
CONSTANTS
    NumThreads = 2
    Quitters = {0, 1}
INVARIANTS
    LoopsExist
    QuitsLiveLoop
    NoneOutlivesPool
PROPERTIES
    StartEnds
    DestructorEnds
CHECK_DEADLOCK FALSE
