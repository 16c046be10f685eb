SPECIFICATION Spec
CONSTANTS
    m1 = m1
    m2 = m2
    m3 = m3
    Message = {m1, m2}
    Size <- TwoSizes
    Caller = {"t1"}
    Senders = {"t1", "loop"}
    Closers = {"t1"}
    HighWaterMark = 2
    MaxRoom = 1
    IgnoreSigpipe = TRUE
INVARIANTS
    HighWaterReported
    DrainReported
    NothingBehindFin
PROPERTIES
    ShutdownHappens
    PeerCloseEndsIt
CHECK_DEADLOCK FALSE
