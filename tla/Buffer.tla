-------------------------------- MODULE Buffer --------------------------------
(***************************************************************************)
(* muduo::net::Buffer: a vector of bytes with a reader and a writer index. *)
(* What is between the indices is readable; before it is room to prepend,  *)
(* behind it room to write.  Operators on a record of the three; what they *)
(* do to the readable bytes is proved in TcpConnectionProofs.              *)
(*                                                                         *)
(* cells[i + 1] is buffer_[i].  A position in the readable bytes counts    *)
(* from 1 at peek(); 0 is the null pointer.                                *)
(***************************************************************************)
EXTENDS Integers, Sequences, FiniteSets, SequencesExt

CONSTANTS
    kCheapPrepend,      \* room that a fresh buffer has before its data
    kInitialSize,       \* writable bytes of a fresh buffer
    ExtraSize,          \* sizeof extrabuf in readFd()
    Base,               \* values of a byte, in the integer functions
    CR, LF, NUL         \* the bytes of kCRLF, and a byte nobody wrote

ASSUME SizesAssumption == {kCheapPrepend, kInitialSize, ExtraSize} \subseteq Nat
ASSUME BaseAssumption == Base \in Nat /\ Base > 1

\* The constructor.
NewBuffer(initialSize) ==
    [cells  |-> [i \in 1..(kCheapPrepend + initialSize) |-> NUL],
     reader |-> kCheapPrepend,
     writer |-> kCheapPrepend]

ReadableBytes(b) == b.writer - b.reader
WritableBytes(b) == Len(b.cells) - b.writer
PrependableBytes(b) == b.reader

\* toStringPiece(): the readable bytes.
Readable(b) == [i \in 1..ReadableBytes(b) |-> b.cells[b.reader + i]]

\* The indices are in order and inside the vector, which has the prepend area.
WellFormed(b) ==
    /\ b.cells \in Seq(Range(b.cells))
    /\ b.reader \in Nat /\ b.writer \in Nat
    /\ b.reader <= b.writer
    /\ b.writer <= Len(b.cells)
    /\ kCheapPrepend <= Len(b.cells)

-----------------------------------------------------------------------------
(* Looking for the end of a line.                                          *)

SmallestOrNull(S) == IF S = {} THEN 0 ELSE CHOOSE i \in S : \A j \in S : i <= j

\* findCRLF(start), findEOL(start); without an argument start is peek().
FindCRLF(b, start) ==
    LET r == Readable(b)
    IN  SmallestOrNull({i \in start..(Len(r) - 1) : r[i] = CR /\ r[i + 1] = LF})

FindEOL(b, start) ==
    LET r == Readable(b) IN SmallestOrNull({i \in start..Len(r) : r[i] = LF})

-----------------------------------------------------------------------------
(* Taking bytes out.                                                       *)

RetrieveAll(b) == [cells |-> b.cells, reader |-> kCheapPrepend, writer |-> kCheapPrepend]

\* retrieve(): len <= readableBytes() is asserted.
Retrieve(b, len) ==
    IF len < ReadableBytes(b) THEN [b EXCEPT !.reader = @ + len] ELSE RetrieveAll(b)

\* retrieveUntil(end): up to, not including, position `end'.
RetrieveUntil(b, end) == Retrieve(b, end - 1)

\* retrieveAsString(len), retrieveAllAsString()
RetrieveAsString(b, len) == [result |-> SubSeq(Readable(b), 1, len), buffer |-> Retrieve(b, len)]

-----------------------------------------------------------------------------
(* Putting bytes in.                                                       *)

\* vector::resize(): new bytes are zero.
Resized(cells, size) == [i \in 1..size |-> IF i <= Len(cells) THEN cells[i] ELSE NUL]

\* std::copy of data to where `at' bytes precede it.
Copied(cells, at, data) ==
    [i \in 1..Len(cells) |-> IF at < i /\ i <= at + Len(data) THEN data[i - at] ELSE cells[i]]

MakeSpaceMoves(b, len) ==
    WritableBytes(b) + PrependableBytes(b) >= len + kCheapPrepend

MutMakeSpace(b, len) ==
    IF WritableBytes(b) + PrependableBytes(b) < len + kCheapPrepend
    THEN [b EXCEPT !.cells = Resized(@, b.writer + len)]
    ELSE [cells  |-> Copied(b.cells, kCheapPrepend, Readable(b)),
          reader |-> kCheapPrepend,
          writer |-> ReadableBytes(b)]

\* makeSpace(): grow the vector, or move the readable bytes to the front, where
\* kCheapPrepend < readerIndex_ is asserted.
MakeSpace(b, len) ==
    IF ~MakeSpaceMoves(b, len)
    THEN [b EXCEPT !.cells = Resized(@, b.writer + len)]
    ELSE [cells  |-> Copied(b.cells, kCheapPrepend, Readable(b)),
          reader |-> kCheapPrepend,
          writer |-> kCheapPrepend + ReadableBytes(b)]

EnsureWritableBytes(b, len) == IF WritableBytes(b) < len THEN MakeSpace(b, len) ELSE b

\* unwrite(): len <= readableBytes() is asserted.
Unwrite(b, len) == [b EXCEPT !.writer = @ - len]

\* Bytes copied to beginWrite(), followed by hasWritten().
WriteHere(b, data) ==
    [cells |-> Copied(b.cells, b.writer, data), reader |-> b.reader, writer |-> b.writer + Len(data)]

AppendBytes(b, data) == WriteHere(EnsureWritableBytes(b, Len(data)), data)

\* prepend(): len <= prependableBytes() is asserted.
PrependBytes(b, data) ==
    LET at == b.reader - Len(data)
    IN  [cells |-> Copied(b.cells, at, data), reader |-> at, writer |-> b.writer]

\* shrink(): the readable bytes in a fresh buffer with `reserve' bytes to write.
Shrink(b, reserve) ==
    AppendBytes(EnsureWritableBytes(NewBuffer(kInitialSize), ReadableBytes(b) + reserve),
                Readable(b))

\* readFd(): readv() fills what is writable and then, when that is less than the
\* extra buffer, the extra buffer, which is appended.
ReadLimit(b) ==
    IF WritableBytes(b) < ExtraSize THEN WritableBytes(b) + ExtraSize ELSE WritableBytes(b)

ReadFd(b, data) ==
    LET writable == WritableBytes(b) IN
    IF Len(data) <= writable THEN WriteHere(b, data)
    ELSE AppendBytes(WriteHere(b, SubSeq(data, 1, writable)), SubSeq(data, writable + 1, Len(data)))

-----------------------------------------------------------------------------
(* Integers in network order: the intN functions, N being 8 times size.    *)

\* hostToNetworkN() of a value in two's complement, as the bytes it lies in.
ToNetwork(x, size) == [i \in 1..size |-> (x \div Base ^ (size - i)) % Base]

\* networkToHostN()
ToHost(bytes) ==
    LET n == FoldLeft(LAMBDA acc, d : acc * Base + d, 0, bytes)
    IN  IF 2 * n >= Base ^ Len(bytes) THEN n - Base ^ Len(bytes) ELSE n

AppendInt(b, x, size) == AppendBytes(b, ToNetwork(x, size))
PrependInt(b, x, size) == PrependBytes(b, ToNetwork(x, size))
PeekInt(b, size) == ToHost(SubSeq(Readable(b), 1, size))
ReadInt(b, size) == [result |-> PeekInt(b, size), buffer |-> Retrieve(b, size)]

=============================================================================
