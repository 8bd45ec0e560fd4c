------------------------------- MODULE LogFile -------------------------------
(***************************************************************************)
(* LogFile on AppendFile: a log that goes on in a new file when the        *)
(* current one has grown too large, at a second in which none was opened,  *)
(* or in a new period, which is looked at every checkEveryN_ appends.      *)
(* One thread writes it.  Text is a sequence of lines of equal length.     *)
(***************************************************************************)
EXTENDS FileUtil

CONSTANTS
    RollSize,           \* rollSize_, in lines
    CheckEveryN,        \* checkEveryN_
    FlushInterval,      \* flushInterval_
    RollPerSeconds,     \* kRollPerSeconds_
    MaxTime             \* bound on the clock

ASSUME LogFileAssumption ==
    {RollSize, CheckEveryN, FlushInterval, RollPerSeconds, MaxTime} \subseteq Nat \ {0}

VARIABLES
    now,                \* time(NULL), which does not go back
    disk,               \* what is in the files, in their order
    stdio,              \* what is in the current file's stdio buffer
    writtenBytes,       \* writtenBytes_ of the current file
    count, startOfPeriod, lastRoll, lastFlush,
    lastAppend          \* history: when append() was last called

fileVars == <<disk, stdio, writtenBytes, count, startOfPeriod, lastRoll, lastFlush, lastAppend>>

\* Before the constructor; the clock is past the epoch.
LogFileInit ==
    /\ now = 1
    /\ disk = <<>> /\ stdio = <<>>
    /\ writtenBytes = 0
    /\ count = 0 /\ startOfPeriod = 0 /\ lastRoll = 0 /\ lastFlush = 0
    /\ lastAppend = 0

LogFileTypeOK ==
    /\ {now, startOfPeriod, lastRoll, lastFlush, lastAppend} \subseteq 0..MaxTime
    /\ lastFlush >= lastRoll
    /\ count \in 0..(CheckEveryN - 1)
    /\ writtenBytes \in Len(stdio)..Len(disk \o stdio)

Tick ==
    /\ now < MaxTime
    /\ now' = now + 1

Period == (now \div RollPerSeconds) * RollPerSeconds

\* rollFile() with out in the buffer of a file of that size: ~AppendFile() flushes
\* it.  In the second that the file was opened in, nothing happens.
RollFile(out, size) ==
    IF now > lastRoll
    THEN /\ lastRoll' = now /\ lastFlush' = now /\ startOfPeriod' = Period
         /\ disk' = disk \o out
         /\ stdio' = <<>> /\ writtenBytes' = 0
    ELSE /\ UNCHANGED <<lastRoll, lastFlush, startOfPeriod, disk>>
         /\ stdio' = out /\ writtenBytes' = size

LogFileOpens == RollFile(<<>>, 0) /\ UNCHANGED <<count, lastAppend>>

\* Appended and not rolled; flushed if it is time for that.
Keep(out, size, flush) ==
    /\ IF flush THEN disk' = disk \o out /\ stdio' = <<>> /\ lastFlush' = now
                ELSE stdio' = out /\ UNCHANGED <<disk, lastFlush>>
    /\ writtenBytes' = size
    /\ UNCHANGED <<startOfPeriod, lastRoll>>

MutNeverTooLarge(size) == FALSE

TooLarge(size) == size > RollSize

\* append_unlocked(), when fwrite_unlocked() takes all of the text.
AppendText(text) ==
    LET file == AppendAll(stdio, writtenBytes, text, <<Len(text)>>)
        out  == file.out
        size == file.bytes
        checked == count + 1 >= CheckEveryN
    IN  /\ lastAppend' = now
        /\ \/ /\ TooLarge(size)
              /\ RollFile(out, size)
              /\ UNCHANGED count
           \/ /\ ~TooLarge(size)
              /\ count' = IF checked THEN 0 ELSE count + 1
              /\ IF checked /\ Period # startOfPeriod
                 THEN RollFile(out, size)
                 ELSE Keep(out, size, checked /\ now - lastFlush > FlushInterval)

Flush ==
    /\ disk' = disk \o stdio
    /\ stdio' = <<>>
    /\ UNCHANGED <<writtenBytes, count, startOfPeriod, lastRoll, lastFlush, lastAppend>>
=============================================================================
