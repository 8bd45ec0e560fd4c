SPECIFICATION FairSpec
CONSTANTS
    t1 = t1
    Threads = {}
    Loop = loop
    Apps <- MCFinApps
    HighWaterMark = 2
    WhileConnected = FALSE
    NDEBUG = TRUE
PROPERTIES
    ShutdownSendsFin
CHECK_DEADLOCK FALSE
