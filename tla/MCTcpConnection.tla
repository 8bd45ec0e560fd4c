--------------------------- MODULE MCTcpConnection ---------------------------
EXTENDS TcpConnection

CONSTANT t1

\* Every way to close, on the loop, against sends of two bytes from two threads.
Closing ==
    [loopOps |-> {"send", "shutdown", "forceClose", "forceCloseWithDelay"}, foreignOps |-> {"send"},
     ownerMayDie |-> FALSE, maxMessage |-> 2, maxBytes |-> 2, maxCalls |-> 2]

\* Close and reading switched by any thread, and a server that may be destroyed.
Meddling ==
    LET ops == {"send", "shutdown", "forceClose", "startRead", "stopRead"} IN
    [loopOps |-> ops, foreignOps |-> ops,
     ownerMayDie |-> TRUE, maxMessage |-> 1, maxBytes |-> 1, maxCalls |-> 1]

\* Sends from two threads, and a server that may be destroyed.
Sending ==
    [loopOps |-> {"send"}, foreignOps |-> {"send"},
     ownerMayDie |-> TRUE, maxMessage |-> 2, maxBytes |-> 2, maxCalls |-> 0]

\* Data, then shutdown(), on the loop.
SendThenShutdown ==
    [loopOps |-> {"send", "shutdown"}, foreignOps |-> {},
     ownerMayDie |-> FALSE, maxMessage |-> 2, maxBytes |-> 2, maxCalls |-> 1]

MCApps == {Closing, Sending, Meddling}
MCFinApps == {SendThenShutdown}
=============================================================================
