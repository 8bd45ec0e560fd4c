SPECIFICATION FairSpec
CONSTANTS
    Threads = {"owner", "child"}
    Mutexes = {"latch", "mutex"}
    CallbackMayQuit = FALSE
INVARIANTS
    LoopOutlivesUse
PROPERTIES
    OwnerReturns
CHECK_DEADLOCK FALSE
