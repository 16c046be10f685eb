SPECIFICATION TimeoutSpec
CONSTANTS
    Functor = {f1}
    Caller = {c1}
    EventfdMax = 1
PROPERTIES
    QuitIsHonoured
