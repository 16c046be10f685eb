SPECIFICATION Spec
CONSTANTS
    Functor = {f1, f2, f3}
    Caller = {c1, c2}
    EventfdMax = 2
INVARIANTS
    NoLostWakeup
    NothingLost
PROPERTIES
    ImplementsExecutor
    QueuedRuns
    QuitStops
