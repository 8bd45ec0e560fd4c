------------------------------- MODULE FileUtil -------------------------------
(***************************************************************************)
(* FileUtil: the loops of AppendFile and ReadSmallFile over calls that do  *)
(* a part of what they are asked for, as functions of what each call       *)
(* returned.  Bytes are elements of sequences; kFailed is an error.        *)
(***************************************************************************)
EXTENDS Integers, Sequences, FiniteSets, SequencesExt

kFailed == -1

\* AppendFile::write(): fwrite_unlocked() takes up to x of the bytes from n on.
Write(a, text, x) ==
    LET upTo == Min({a.n + x, Len(text)})
    IN  [a EXCEPT !.out = @ \o SubSeq(text, a.n + 1, upTo), !.n = upTo]

\* AppendFile::append(), with what each write() takes: it goes on until nothing
\* remains or a write() after the first takes nothing, and counts all of it.
AppendAll(out, bytes, text, taken) ==
    LET Again(a, x) ==
            IF ~a.going \/ a.n = Len(text) THEN a
            ELSE IF x = 0 THEN [a EXCEPT !.going = FALSE] ELSE Write(a, text, x)
        first == Write([out |-> out, n |-> 0, going |-> TRUE], text, Head(taken))
    IN  [out |-> FoldLeft(Again, first, Tail(taken)).out, bytes |-> bytes + Len(text)]

\* ReadSmallFile::readToString(), with what each read() would give; a file that could
\* not be opened keeps its error.
ReadToString(file, opened, maxSize, bufSize, given) ==
    LET Again(r, x) ==
            LET toRead == Min({maxSize - Len(r.content), bufSize})
                n == Min({x, toRead, Len(file) - Len(r.content)})
            IN  IF ~r.going \/ Len(r.content) >= maxSize THEN r
                ELSE IF n > 0
                THEN [r EXCEPT !.content = @ \o SubSeq(file, Len(@) + 1, Len(@) + n)]
                ELSE [r EXCEPT !.going = FALSE, !.err = IF n < 0 THEN "errno" ELSE @]
    IN  IF ~opened THEN [content |-> <<>>, err |-> "open", going |-> FALSE]
        ELSE FoldLeft(Again, [content |-> <<>>, err |-> "none", going |-> TRUE], given)

\* ReadSmallFile::readToBuffer(): a single pread(), with room for the final 0.
ReadToBuffer(file, opened, bufSize, x) ==
    LET n == Min({x, bufSize - 1, Len(file)})
    IN  IF ~opened THEN [content |-> <<>>, err |-> "open"]
        ELSE IF n < 0 THEN [content |-> <<>>, err |-> "errno"]
        ELSE [content |-> SubSeq(file, 1, n), err |-> "none"]

-----------------------------------------------------------------------------
(* Properties.                                                             *)

Texts == {SubSeq(<<"a", "b", "c", "d">>, 1, n) : n \in 0..4}

\* Whatever the parts: what is in the file is what was there and a start of the text,
\* no byte twice or left out, and all of it unless a write took nothing.
AppendsInOrder ==
    \A text \in Texts, taken \in [1..5 -> 0..3] :
        LET out == AppendAll(<<"z">>, 1, text, taken).out
        IN  /\ IsPrefix(<<"z">>, out) /\ IsPrefix(Tail(out), text)
            /\ (\A i \in 2..5 : taken[i] > 0) => Tail(out) = text

\* A file is read from its start, never past maxSize, and up to there or to its end
\* unless an error is returned; the error of open() is not lost.
ReadsFromStart ==
    \A file \in Texts, maxSize \in 0..5, bufSize \in 1..2, given \in [1..5 -> {kFailed, 1, 3}] :
        LET r == ReadToString(file, TRUE, maxSize, bufSize, given)
            b == ReadToBuffer(file, TRUE, bufSize, given[1])
        IN  /\ IsPrefix(r.content, file) /\ Len(r.content) <= maxSize
            /\ r.err = "none" => Len(r.content) = Min({maxSize, Len(file)})
            /\ IsPrefix(b.content, file) /\ Len(b.content) < bufSize
            /\ ReadToString(file, FALSE, maxSize, bufSize, given).err # "none"

FilesRight == AppendsInOrder /\ ReadsFromStart

=============================================================================
