SPECIFICATION SafeSpec
CONSTANTS
    m1 = m1
    m2 = m2
    m3 = m3
    Message = {m1, m2}
    Size <- TwoSizes
    Caller = {"t1"}
    Senders = {"t1"}
    Closers = {"t1"}
    HighWaterMark = 2
    MaxRoom = 2
    IgnoreSigpipe = FALSE
INVARIANT
    NeverWritesAfterFin
CHECK_DEADLOCK FALSE
