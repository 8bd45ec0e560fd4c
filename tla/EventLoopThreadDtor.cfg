SPECIFICATION FairSpec
CONSTANTS
    Threads = {"owner", "child"}
    Mutexes = {"latch", "mutex"}
    CallbackMayQuit = FALSE
PROPERTY DtorReturns
CHECK_DEADLOCK FALSE
