SPECIFICATION FairSpec
CONSTANTS
    c1 = c1
    c2 = c2
    f1 = f1
    f2 = f2
    f3 = f3
    LoopThread = loop
    Callers <- MCCallers
    Functors <- MCFunctors
    MaxQuits = 1
INVARIANTS
    NoLostWakeup
PROPERTIES
    BatchClosed
    ImplementsTaskQueue
    PostedRuns
    QuitStops
