------------------------------- MODULE Logging -------------------------------
(***************************************************************************)
(* Logging: the LOG_ macros, which make a Logger whose Impl begins a line  *)
(* in a LogStream and ends it, and what a line is given to: stdout, or     *)
(* AsyncLogging's append().  What a thread does before that call does not  *)
(* depend on where the line goes: with AsyncLogging a line is one          *)
(* AppendLine, and the steps that make it are those of the threads that    *)
(* log to stdout.                                                          *)
(***************************************************************************)
EXTENDS AsyncLogging, LogStream

CONSTANTS
    Threads,            \* threads that log
    Macros,             \* the LOG_ macros they use
    Zones,              \* what setTimeZone() is called with
    MessageLengths,     \* lengths of the text of a message
    Boot,               \* the second since the epoch in which now is 0
    MaxLogTime          \* bound on the clock while a line is made

\* Boot is late enough for t_lastSecond, which begins as 0, to be no second.
ASSUME LoggingAssumption == Boot \in Nat \ {0} /\ MessageLengths \subseteq Nat

VARIABLES
    g_output,           \* "stdout" or "async", set before the threads log
    g_logLevel, g_logTimeZone,
    zoneSet,            \* history: the second in which setTimeZone() last ran
    t_time, t_lastSecond,   \* each thread's: the parts of the last second, and which
    logger,             \* each thread's Logger, and where it is
    printed,            \* the line given to g_output by the last step, or none
    unflushed,          \* threads whose last line may be in stdout's buffer still
    aborted             \* a FATAL line has ended the program

logVars == <<g_logLevel, g_logTimeZone, zoneSet, t_time, t_lastSecond, logger, printed,
             unflushed, aborted>>
loggingVars == <<vars, g_output, logVars>>

-----------------------------------------------------------------------------
(* Levels, and lines as sequences of pieces.                               *)

LogLevel == [TRACE |-> 0, DEBUG |-> 1, INFO |-> 2, WARN |-> 3, ERROR |-> 4, FATAL |-> 5]

\* The level of a macro's Logger.
Level(macro) ==
    LogLevel[CASE macro = "LOG_TRACE" -> "TRACE"
               [] macro = "LOG_DEBUG" -> "DEBUG"
               [] macro = "LOG_INFO"  -> "INFO"
               [] macro = "LOG_WARN"  -> "WARN"
               [] macro \in {"LOG_ERROR", "LOG_SYSERR"} -> "ERROR"
               [] macro \in {"LOG_FATAL", "LOG_SYSFATAL"} -> "FATAL"]

\* Only these look at g_logLevel.
Filtered == {"LOG_TRACE", "LOG_DEBUG", "LOG_INFO"}
Logs(macro) == macro \in Filtered => g_logLevel <= Level(macro)

NoZone == [valid |-> FALSE, data |-> FixedZone(0)]

Piece(part, len) == [part |-> part, len |-> len]
NoLogger == [at |-> "none"]

\* The line's second, as it is printed: by the zone, or by gmtime_r() without one.
Broken(zone, seconds) ==
    IF zone.valid THEN ToLocalTime(zone.data, seconds) ELSE ToUtcTime(seconds)

-----------------------------------------------------------------------------
LoggingInit ==
    /\ Init
    /\ g_output \in {"stdout", "async"}
    /\ g_logLevel = LogLevel.INFO                   \* initLogLevel()
    /\ g_logTimeZone = NoZone /\ zoneSet = 0
    /\ t_time = [t \in Threads |-> <<>>] /\ t_lastSecond = [t \in Threads |-> 0]
    /\ logger = [t \in Threads |-> NoLogger]
    /\ printed = <<>> /\ unflushed = {} /\ aborted = FALSE

\* A step of the threads that log to stdout, while the program runs.
Logging == g_output = "stdout" /\ ~aborted /\ UNCHANGED <<vars, g_output>>

\* A LOG_ macro: the test of the level, and the Logger with the time of its line.
BeginLine(t, macro) ==
    /\ Logging
    /\ logger[t].at = "none"
    /\ Logs(macro)
    /\ \E microseconds \in 0..(MicroSecondsPerSecond - 1) :
          logger' = [logger EXCEPT ![t] =
                        [at |-> "timed", macro |-> macro, time |-> FromUnixTime(Boot + now, microseconds)]]
    /\ printed' = <<>>
    /\ UNCHANGED <<g_logLevel, g_logTimeZone, zoneSet, t_time, t_lastSecond, unflushed, aborted>>

MutSecondOf(time) == Boot + now

\* The second of a line.
SecondOf(time) == SecondsSinceEpoch(time)

\* The rest of Impl's constructor: formatTime(), which takes the parts of the second
\* from the thread's last line if that was of the same second, the thread's id and the
\* level; after them the text of the error, of an errno that is not 0, or the name of
\* the function.
FormatTime(t) ==
    LET l == logger[t]
        zone == g_logTimeZone
        seconds == SecondOf(l.time)
        parts == IF seconds = t_lastSecond[t] THEN t_time[t] ELSE Broken(zone, seconds)
        time == [part |-> "time", len |-> 17, parts |-> parts]
        micro == [part |-> "micro", len |-> IF zone.valid THEN 8 ELSE 9,
                  shows |-> MicroSeconds(l.time), utc |-> ~zone.valid]
        start == PutAll(<<>>, <<time, micro, Piece("tid", 6), Piece("level", 6)>>)
        errno == Put(PutNumber(PutAll(start, <<Piece("error", 21), Piece("errno", 8)>>), Piece("number", 2)),
                     Piece("close", 2))
    IN  /\ Logging
        /\ l.at = "timed"
        /\ t_lastSecond' = [t_lastSecond EXCEPT ![t] = seconds]
        /\ t_time' = [t_time EXCEPT ![t] = parts]
        /\ logger' = [logger EXCEPT ![t] =
                [at |-> "stream", macro |-> l.macro, time |-> l.time,
                 buffer |-> IF l.macro \in {"LOG_SYSERR", "LOG_SYSFATAL"} THEN errno
                            ELSE IF l.macro \in {"LOG_TRACE", "LOG_DEBUG"}
                            THEN PutAll(start, <<Piece("func", 4), Piece("space", 1)>>) ELSE start]]
        /\ printed' = <<>>
        /\ UNCHANGED <<g_logLevel, g_logTimeZone, zoneSet, unflushed, aborted>>

\* finish()
Finish(buffer) ==
    Put(PutNumber(PutAll(buffer, <<Piece(" - ", 3), Piece("file", 16), Piece(":", 1)>>), Piece("line", 3)),
        Piece("end", 1))

\* The message, a text with or without a number behind it, then ~Logger() up to
\* g_output.
EndLine(t) ==
    \E len \in MessageLengths, number \in BOOLEAN :
        LET l == logger[t]
            text == Put(l.buffer, Piece("text", len))
            message == IF number THEN PutNumber(text, Piece("value", 10)) ELSE text
        IN  /\ Logging
            /\ l.at = "stream"
            /\ printed' = [macro |-> l.macro, time |-> l.time, line |-> Finish(message),
                           asked |-> Length(l.buffer) + len + (IF number THEN 10 ELSE 0)]
            /\ unflushed' = unflushed \union {t}
            /\ logger' = [logger EXCEPT ![t] = IF Level(l.macro) = LogLevel.FATAL THEN [at |-> "flush"] ELSE NoLogger]
            /\ UNCHANGED <<g_logLevel, g_logTimeZone, zoneSet, t_time, t_lastSecond, aborted>>

\* g_flush() of a FATAL line, and abort().
FlushLine(t) ==
    /\ Logging
    /\ logger[t].at = "flush"
    /\ logger' = [logger EXCEPT ![t] = [at |-> "abort"]]
    /\ unflushed' = {}
    /\ printed' = <<>>
    /\ UNCHANGED <<g_logLevel, g_logTimeZone, zoneSet, t_time, t_lastSecond, aborted>>

Abort(t) ==
    /\ Logging
    /\ logger[t].at = "abort"
    /\ aborted' = TRUE
    /\ printed' = <<>>
    /\ UNCHANGED <<g_logLevel, g_logTimeZone, zoneSet, t_time, t_lastSecond, logger, unflushed>>

SetLogLevel(level) ==
    /\ Logging
    /\ g_logLevel' = level
    /\ printed' = <<>>
    /\ UNCHANGED <<g_logTimeZone, zoneSet, t_time, t_lastSecond, logger, unflushed, aborted>>

\* setTimeZone(), which nothing keeps from a formatTime() in another thread but that
\* no Logger is being constructed then.
SetTimeZone(zone) ==
    /\ Logging
    /\ \A t \in Threads : logger[t].at # "timed"
    /\ g_logTimeZone' = zone /\ zoneSet' = Boot + now
    /\ printed' = <<>>
    /\ UNCHANGED <<g_logLevel, t_time, t_lastSecond, logger, unflushed, aborted>>

LogClock ==
    /\ g_output = "stdout" /\ ~aborted
    /\ now < MaxLogTime /\ Tick
    /\ printed' = <<>>
    /\ UNCHANGED <<owner, running, frontVars, backVars, fileVars, g_output, g_logLevel,
                   g_logTimeZone, zoneSet, t_time, t_lastSecond, logger, unflushed, aborted>>

LogStep ==
    \/ \E t \in Threads :
          \/ \E macro \in Macros : BeginLine(t, macro)
          \/ FormatTime(t) \/ EndLine(t) \/ FlushLine(t) \/ Abort(t)
    \/ \E level \in {LogLevel.DEBUG, LogLevel.WARN} : SetLogLevel(level)
    \/ \E zone \in Zones : SetTimeZone(zone)
    \/ LogClock

LoggingNext ==
    \/ LogStep
    \/ g_output = "async" /\ Next /\ UNCHANGED <<g_output, logVars>>

LoggingSpec ==
    /\ LoggingInit /\ [][LoggingNext]_loggingVars
    /\ WF_loggingVars(g_output = "async" /\ BackStep /\ UNCHANGED <<g_output, logVars>>)
    /\ WF_loggingVars(g_output = "async" /\ Join /\ UNCHANGED <<g_output, logVars>>)

-----------------------------------------------------------------------------
(* Properties.                                                             *)

LoggingTypeOK ==
    /\ g_output \in {"stdout", "async"} /\ g_logLevel \in LogLevel.TRACE..LogLevel.WARN
    /\ unflushed \subseteq Threads /\ aborted \in BOOLEAN
    /\ \A t \in Threads : logger[t].at \in {"none", "timed", "stream", "flush", "abort"}

Parts(line) == [i \in DOMAIN line |-> line[i].part]
Order == <<"time", "micro", "tid", "level", "error", "errno", "number", "close", "func", "space",
           "text", "value", " - ", "file", ":", "line", "end">>

\* A line has its head, and its pieces in their order, each whole or left out; it is
\* whole when the buffer takes it and leaves room for a number, and it lacks its end
\* of line only when a single byte was left.  A FATAL line is written when the
\* program aborts.  The numerals in it are right; and AppendFile brings a text
\* into a file in whatever parts.
LinesWhole ==
    /\ LoggingTypeOK
    /\ printed # <<>> =>
        LET line == printed.line
        IN  /\ Length(line) < kSmallBuffer
            /\ SubSeq(Parts(line), 1, 4) = <<"time", "micro", "tid", "level">>
            /\ Parts(line) = SelectSeq(Order, LAMBDA part : part \in ToSet(Parts(line)))
            /\ Last(line).part # "end" => Length(line) = kSmallBuffer - 1
            /\ printed.asked + 20 + kMaxNumericSize <= kSmallBuffer => Length(line) = printed.asked + 24
    /\ aborted => \E t \in Threads : logger[t].at = "abort" /\ t \notin unflushed
    /\ NumeralsRight /\ FilesRight

\* A line shows the time it was made at, by the zone that its form stands for, unless
\* the zone was set in that second or later.
TimesRight ==
    /\ printed # <<>> =>
        LET time == printed.line[1]
            micro == printed.line[2]
            seconds == SecondsSinceEpoch(printed.time)
        IN  zoneSet < seconds =>
                /\ micro.utc = ~g_logTimeZone.valid
                /\ FromUtcTime(time.parts) = seconds + (IF micro.utc THEN 0 ELSE time.parts.gmtoff)
                /\ ~micro.utc => time.parts = ToLocalTime(g_logTimeZone.data, seconds)
                /\ FromUnixTime(seconds, micro.shows) = printed.time
    /\ CalendarRight

=============================================================================
