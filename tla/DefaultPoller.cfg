CONSTANTS
    a = a
    b = b
    c = c
    Channels <- MCChannels
    FdsOf <- MCFdsOf
    Events = {"in"}
    kInitEventListSize = 1
SPECIFICATION PollerSpec
INVARIANTS
    WatchedAsAsked
PROPERTIES
    ImplementsPoller
    ReadyIsHandled
CHECK_DEADLOCK FALSE
