SPECIFICATION SafeSpec
CONSTANTS
    m1 = m1
    m2 = m2
    m3 = m3
    Message = {m1, m2, m3}
    Size <- ThreeSizes
    Caller = {"t1", "t2"}
    Senders = {"t1", "t2", "loop"}
    Closers = {"loop"}
    HighWaterMark = 2
    MaxRoom = 2
    IgnoreSigpipe = FALSE
INVARIANTS
    TypeOK
    WritingIffBuffered
    StreamIntact
    UpThenDown
    DestroyedOnce
    NothingLeftInPoller
PROPERTIES
    StateOnlyAdvances
CHECK_DEADLOCK FALSE
