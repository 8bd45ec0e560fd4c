SPECIFICATION FairSpec
CONSTANTS
    t1 = t1
    Threads = {t1}
    Loop = loop
    Apps <- MCApps
    HighWaterMark = 2
    WhileConnected = TRUE
    NDEBUG = TRUE
INVARIANTS
    BytesThenFin
    UpThenDown
    NoAssertionFails
PROPERTIES
    NothingSentAfterDown
    BufferDrains
    PeerCloseDestroys
CHECK_DEADLOCK FALSE
