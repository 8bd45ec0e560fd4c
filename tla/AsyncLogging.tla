---------------------------- MODULE AsyncLogging -----------------------------
(***************************************************************************)
(* AsyncLogging: threads append lines to a buffer in memory; a thread of   *)
(* its own takes the buffers and writes them to a LogFile.  Four buffers   *)
(* go round between the two sides, and more are made when they are full.   *)
(***************************************************************************)
EXTENDS LogFile

CONSTANTS
    MaxLines,           \* bound on the lines appended, which are numbered
    BufferLines,        \* lines that a buffer takes
    MaxToWrite          \* more buffers than that are dropped, 25 in the code

ASSUME AsyncLoggingAssumption ==
    MaxLines \in Nat /\ BufferLines \in Nat \ {0} /\ MaxToWrite \in Nat \ {0, 1}

VARIABLES
    owner,              \* "new", "starting", "up", "joining" or "stopped"
    running,            \* running_
    lines,              \* lines appended
    current,            \* currentBuffer_
    hasNext,            \* nextBuffer_ is not null
    buffers,            \* buffers_
    back,               \* where threadFunc() is
    has1, has2,         \* newBuffer1 and newBuffer2 are not null
    toWrite, written,   \* buffersToWrite, and how many of them are written
    lost                \* history: lines dropped because of MaxToWrite

frontVars == <<lines, current, hasNext, buffers>>
backVars  == <<back, has1, has2, toWrite, written, lost>>
vars == <<owner, running, frontVars, backVars, now, fileVars>>

Lines == 1..MaxLines
Notice == 0             \* the line "Dropped log messages ..."

\* A large buffer, from empty to full.
LargeBuffer == {b \in Seq(Lines) : Len(b) <= BufferLines}

FileTypeOK ==
    LogFileTypeOK /\ disk \in Seq(Lines \union {Notice}) /\ stdio \in Seq(Lines \union {Notice})

ControlTypeOK ==
    /\ owner \in {"new", "starting", "up", "joining", "stopped"}
    /\ back \in {"none", "open", "test", "lock", "wait", "swap", "write", "refill", "exited"}
    /\ running \in BOOLEAN /\ hasNext \in BOOLEAN /\ has1 \in BOOLEAN /\ has2 \in BOOLEAN

BuffersTypeOK ==
    /\ lines \in 0..MaxLines /\ lost \subseteq Lines
    /\ current \in LargeBuffer /\ buffers \in Seq(LargeBuffer) /\ toWrite \in Seq(LargeBuffer)
    /\ written \in 0..Len(toWrite)

TypeOK == FileTypeOK /\ ControlTypeOK /\ BuffersTypeOK

Init ==
    /\ LogFileInit
    /\ owner = "new" /\ running = FALSE
    /\ lines = 0 /\ current = <<>> /\ hasNext = TRUE /\ buffers = <<>>
    /\ back = "none" /\ has1 = FALSE /\ has2 = FALSE
    /\ toWrite = <<>> /\ written = 0 /\ lost = {}

-----------------------------------------------------------------------------
(* The owner and the threads that log.                                     *)

\* start(), which returns when the thread has counted down latch_.
Start ==
    /\ owner = "new"
    /\ owner' = "starting"
    /\ running' = TRUE
    /\ back' = "open"
    /\ UNCHANGED <<frontVars, has1, has2, toWrite, written, lost, now, fileVars>>

\* stop(): the flag and the notify; then join().
Stop ==
    /\ owner = "up"
    /\ owner' = "joining"
    /\ running' = FALSE
    /\ UNCHANGED <<frontVars, backVars, now, fileVars>>

Join ==
    /\ owner = "joining" /\ back = "exited"
    /\ owner' = "stopped"
    /\ UNCHANGED <<running, frontVars, backVars, now, fileVars>>

\* append(), all of it under mutex_, by any thread.  The next buffer, spare or new,
\* is empty.
AppendLine ==
    /\ owner # "stopped"
    /\ lines < MaxLines
    /\ lines' = lines + 1
    /\ IF Len(current) < BufferLines
       THEN /\ current' = Append(current, lines')
            /\ UNCHANGED <<hasNext, buffers>>
       ELSE /\ buffers' = Append(buffers, current)
            /\ current' = <<lines'>>
            /\ hasNext' = FALSE
    /\ UNCHANGED <<owner, running, backVars, now, fileVars>>

-----------------------------------------------------------------------------
(* threadFunc().                                                           *)

OpenFile ==
    /\ back = "open"
    /\ back' = "test"
    /\ owner' = "up"
    /\ LogFileOpens
    /\ has1' = TRUE /\ has2' = TRUE
    /\ UNCHANGED <<running, frontVars, toWrite, written, lost, now>>

TestRunning ==
    /\ back = "test"
    /\ IF running
       THEN back' = "lock" /\ UNCHANGED fileVars
       ELSE back' = "exited" /\ Flush
    /\ UNCHANGED <<owner, running, frontVars, has1, has2, toWrite, written, lost, now>>

MutWaitUntilFull ==
    /\ \/ back = "lock" /\ back' = IF buffers = <<>> THEN "wait" ELSE "swap"
       \/ back = "wait" /\ buffers # <<>> /\ back' = "swap"
    /\ UNCHANGED <<owner, running, frontVars, has1, has2, toWrite, written, lost, now, fileVars>>

\* waitForSeconds() ends by a notify, for no reason, or at the latest by its timeout;
\* why, and whether there is a full buffer now, is not looked at.
Wait ==
    /\ \/ back = "lock" /\ back' = IF buffers = <<>> THEN "wait" ELSE "swap"
       \/ back = "wait" /\ back' = "swap"
    /\ UNCHANGED <<owner, running, frontVars, has1, has2, toWrite, written, lost, now, fileVars>>

MutSwapNextAlways ==
    /\ back = "swap"
    /\ back' = "write"
    /\ toWrite' = Append(buffers, current)
    /\ buffers' = <<>>
    /\ current' = <<>> /\ has1' = FALSE
    /\ hasNext' = TRUE /\ has2' = FALSE
    /\ UNCHANGED <<owner, running, lines, written, lost, now, fileVars>>

MutSwapCurrentFirst ==
    /\ back = "swap"
    /\ back' = "write"
    /\ toWrite' = <<current>> \o buffers
    /\ buffers' = <<>>
    /\ current' = <<>> /\ has1' = FALSE
    /\ IF hasNext THEN UNCHANGED <<hasNext, has2>> ELSE hasNext' = TRUE /\ has2' = FALSE
    /\ UNCHANGED <<owner, running, lines, written, lost, now, fileVars>>

\* The critical section after the wait.
SwapBuffers ==
    /\ back = "swap"
    /\ back' = "write"
    /\ toWrite' = Append(buffers, current)
    /\ buffers' = <<>>
    /\ current' = <<>> /\ has1' = FALSE
    /\ IF hasNext THEN UNCHANGED <<hasNext, has2>> ELSE hasNext' = TRUE /\ has2' = FALSE
    /\ UNCHANGED <<owner, running, lines, written, lost, now, fileVars>>

\* Too many buffers: a notice, and all but the first two go.
DropBuffers ==
    /\ back = "write" /\ written = 0
    /\ Len(toWrite) > MaxToWrite
    /\ toWrite' = SubSeq(toWrite, 1, 2)
    /\ lost' = lost \union UNION {ToSet(toWrite[i]) : i \in 3..Len(toWrite)}
    /\ AppendText(<<Notice>>)
    /\ UNCHANGED <<owner, running, frontVars, back, has1, has2, written, now>>

WriteBuffer ==
    /\ back = "write"
    /\ Len(toWrite) <= MaxToWrite
    /\ written < Len(toWrite)
    /\ written' = written + 1
    /\ AppendText(toWrite[written + 1])
    /\ back' = IF written' = Len(toWrite) THEN "refill" ELSE "write"
    /\ UNCHANGED <<owner, running, frontVars, has1, has2, toWrite, lost, now>>

\* newBuffer1 and newBuffer2 are got back from the buffers written; then flush().
Refill ==
    /\ back = "refill"
    /\ back' = "test"
    /\ has1' = TRUE /\ has2' = TRUE
    /\ toWrite' = <<>> /\ written' = 0
    /\ Flush
    /\ UNCHANGED <<owner, running, frontVars, lost, now>>

Clock == Tick /\ UNCHANGED <<owner, running, frontVars, backVars, fileVars>>

-----------------------------------------------------------------------------
BackStep == OpenFile \/ TestRunning \/ Wait \/ SwapBuffers \/ DropBuffers \/ WriteBuffer \/ Refill

Next == Start \/ Stop \/ Join \/ AppendLine \/ BackStep \/ Clock

Spec == Init /\ [][Next]_vars

\* The thread is scheduled, and its wait has a timeout.
FairSpec == Spec /\ WF_vars(BackStep) /\ WF_vars(Join)

-----------------------------------------------------------------------------
(* Properties.                                                             *)

\* What was appended, in parts: what was given to stdio, then buffer by buffer what is
\* still in memory.
Text == <<disk \o stdio>> \o SubSeq(toWrite, written + 1, Len(toWrite)) \o buffers \o <<current>>

\* A line was appended before another one; a notice may be anywhere.
Before(l, m) == l < m \/ m = Notice

\* What is in the files, in the stdio buffer and in memory is, in this order, what was
\* appended: no line is doubled, overtaken or lost but the ones that were dropped.
LinesInOrder ==
    LET T == Text
    IN  /\ \A a \in 1..Len(T) : \A i, j \in 1..Len(T[a]) : i < j => Before(T[a][i], T[a][j])
        /\ \A a, b \in 1..Len(T) : a < b => \A l \in ToSet(T[a]), m \in ToSet(T[b]) : Before(l, m)
        /\ lost \subseteq 1..lines
        /\ \A l \in Lines : (\E a \in 1..Len(T) : l \in ToSet(T[a])) <=> l \in (1..lines) \ lost

\* There are always buffers to get back: newBuffer1 has been used and, if newBuffer2
\* has, a full buffer is written besides the current one (the assertions on
\* buffersToWrite and on the new buffers in threadFunc()).
BuffersComeBack ==
    /\ back = "refill" => Len(toWrite) >= 1 + (IF has2 THEN 0 ELSE 1)
    /\ back \in {"test", "lock", "wait", "swap"} => has1 /\ has2 /\ toWrite = <<>>

\* While the thread waits, what it took is in the files and not in stdio's buffer.
FlushedBeforeWait == back \in {"lock", "wait", "swap", "exited"} => stdio = <<>>

\* A file outgrows rollSize_ only in the second in which it was opened: the append
\* that finds it too large in a later second rolls it.
OverrunsOnlyAtFirst == writtenBytes > RollSize => lastAppend = lastRoll

\* Every line gets into a file, without a full buffer and without a notify, unless it
\* is dropped or logging is stopped.
LinesWritten ==
    \A l \in Lines : (lines >= l) ~> (l \in ToSet(disk) \/ l \in lost \/ owner \in {"new", "joining", "stopped"})

\* The buffers go round, flushed, in states of the right types.
BuffersGoRound == TypeOK /\ BuffersComeBack /\ FlushedBeforeWait

=============================================================================
