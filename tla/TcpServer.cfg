SPECIFICATION FairSpec
CONSTANTS
    MaxThreads = 2
    MaxClients = 4
    Fds <- MCFds
    DestroyUnderLoop = FALSE
INVARIANTS
    ConnectionsSafe
PROPERTIES
    ClientsAnswered
    ClosedIsFreed
    ServerGoes
CHECK_DEADLOCK FALSE
