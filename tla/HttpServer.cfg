SPECIFICATION Spec
CONSTANTS
    kCheapPrepend = 1
    kInitialSize = 2
    ExtraSize = 6
    Base = 4
    CR = "CR"
    LF = "LF"
    NUL = "NUL"
    MaxWeight = 6
    MaxCells = 5
INVARIANTS
    AnswersRight
    BufferIsDeque
CHECK_DEADLOCK FALSE
