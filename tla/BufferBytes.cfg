SPECIFICATION Spec
CONSTANTS
    Byte = {0, 1}
    Zero = 0
    CheapPrepend = 2
    InitialSize = 2
    ExtraSize = 2
    MaxChunk = 3
    MaxContent = 5
INVARIANTS
    InBounds
PROPERTIES
    ImplementsQueue
    GrowsOnlyIfNeeded
