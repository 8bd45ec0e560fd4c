SPECIFICATION Spec
CONSTANTS
    t1 = t1
    Addrs = {1, 2}
    Threads = {t1}
    MaxTimers = 3
    MaxTime = 2
    Whens <- MCWhens
    Interval = 1
INVARIANTS
    SetsConsistent
    AlarmCoversEarliest
    CancelledStaysCancelled
    NoTimerLost
CHECK_DEADLOCK FALSE
