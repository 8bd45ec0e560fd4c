SPECIFICATION LoggingSpec
CONSTANTS
    RollSize = 2
    CheckEveryN = 2
    FlushInterval = 1
    RollPerSeconds = 3
    MaxTime = 4
    MaxLines = 6
    BufferLines = 1
    MaxToWrite = 3
    Threads = {t1, t2}
    Macros = {"LOG_DEBUG", "LOG_SYSFATAL"}
    Zones <- MCZones
    MessageLengths = {5, 3900, 3937}
    Boot <- MCBoot
    MaxLogTime = 2
    MicroSecondsPerSecond = 1
    kSmallBuffer = 4000
    kMaxNumericSize = 32
INVARIANTS
    LinesInOrder
    BuffersGoRound
    OverrunsOnlyAtFirst
    LinesWhole
    TimesRight
PROPERTIES
    LinesWritten
CHECK_DEADLOCK FALSE
