SPECIFICATION FairSpec
CONSTANTS
    w1 = w1
    w2 = w2
    c1 = c1
    c2 = c2
    a = a
    b = b
    c = c
    d = d
    NoTask = NoTask
    Workers = {w1, w2}
    Callers = {c1, c2}
    Tasks = {a, b, c, d}
    MaxQueueSize = 2
INVARIANTS
    TasksAccounted
PROPERTIES
    QueuedTaskRuns
    CallsReturn
    ImplementsBoundedQueue
CHECK_DEADLOCK FALSE
