-------------------------- MODULE AsyncLoggingProofs --------------------------
(***************************************************************************)
(* Theorems of AsyncLogging for every number of lines, every size of the   *)
(* buffers and the files, every limit of the drop rule and every period:   *)
(* the lines stay in order, the buffers go round and are flushed, and a    *)
(* file grows too large only in the second in which it was opened.         *)
(***************************************************************************)
EXTENDS AsyncLogging, SequenceTheorems, TLAPS

\* The clock does not go back.
ClockInv == lastRoll <= now

\* The spare buffer has gone to the lines when one buffer is full.
FrontInv == ~hasNext => buffers # <<>>

\* Outside of the part between the swap and the refill the thread has its two new
\* buffers, nothing to write and nothing in stdio's buffer.
BackInv ==
    /\ owner = "new" => back = "none"
    /\ back \in {"test", "lock", "wait", "swap"} => has1 /\ has2
    /\ back \notin {"write", "refill"} => toWrite = <<>> /\ stdio = <<>>
    /\ back \in {"write", "refill"} => Len(toWrite) >= 1 /\ (~has2 => Len(toWrite) >= 2)
    /\ back = "write" => written < Len(toWrite)
    /\ back = "refill" => written = Len(toWrite)

IInv == TypeOK /\ ClockInv /\ FrontInv /\ BackInv /\ OverrunsOnlyAtFirst /\ LinesInOrder

-----------------------------------------------------------------------------
(* The file.                                                               *)

\* An append to the file whose first write takes all of the text.
LEMMA AllTaken ==
    ASSUME NEW D, NEW out \in Seq(D), NEW bytes \in Nat, NEW text \in Seq(D)
    PROVE  AppendAll(out, bytes, text, <<Len(text)>>) = [out |-> out \o text, bytes |-> bytes + Len(text)]
<1> DEFINE Again(a, x) ==
              IF ~a.going \/ a.n = Len(text) THEN a
              ELSE IF x = 0 THEN [a EXCEPT !.going = FALSE] ELSE Write(a, text, x)
           first == Write([out |-> out, n |-> 0, going |-> TRUE], text, Head(<<Len(text)>>))
<1>1. Head(<<Len(text)>>) = Len(text) /\ Tail(<<Len(text)>>) = <<>>
  OBVIOUS
<1>2. Min({0 + Len(text), Len(text)}) = Len(text)
  BY DEF Min
<1>3. SubSeq(text, 1, Len(text)) = text
  OBVIOUS
<1>4. first.out = out \o text
  <2> DEFINE start == [out |-> out, n |-> 0, going |-> TRUE]
             taken == SubSeq(text, 1, Len(text))
  <2>1. Write(start, text, Len(text)) = [start EXCEPT !.out = @ \o taken, !.n = Len(text)]
    <3>1. start.n + 1 = 1 /\ Min({start.n + Len(text), Len(text)}) = Len(text)
      BY <1>2
    <3> HIDE DEF start
    <3> QED
      BY <3>1, Zenon DEF Write
  <2>2. [start EXCEPT !.out = @ \o taken, !.n = Len(text)].out = out \o taken
    <3> HIDE DEF taken
    <3> QED
      OBVIOUS
  <2> QED
    BY <1>1, <1>3, <2>1, <2>2
<1>5. FoldLeft(Again, first, <<>>) = first
  <2> HIDE DEF first
  <2> DEFINE iter == CHOOSE f : f = [s \in SUBSET DOMAIN <<>> |->
               IF s = {} THEN first ELSE Again(f[s \ {Max(s)}], <<>>[Max(s)])]
  <2> SUFFICES iter[{}] = first
    BY DEF FoldLeft, MapThenFoldSet
  <2>1. [s \in SUBSET {} |-> first] = [s \in SUBSET DOMAIN <<>> |->
               IF s = {} THEN first ELSE Again([t \in SUBSET {} |-> first][s \ {Max(s)}], <<>>[Max(s)])]
    OBVIOUS
  <2> QED
    BY <2>1
<1> QED
  BY <1>1, <1>4, <1>5 DEF AppendAll

LEMMA PeriodIsPast ==
    ASSUME now \in Nat
    PROVE  Period \in 0..now
<1>1. RollPerSeconds \in Nat \ {0}
  BY LogFileAssumption
<1> QED
  BY <1>1 DEF Period

\* The text is behind what was given to stdio before, whether a file ends with it, it is
\* flushed, or neither; a file that is too large then is of this second.
LEMMA AppendsText ==
    ASSUME NEW D, disk \in Seq(D), stdio \in Seq(D), NEW text \in Seq(D),
           LogFileTypeOK, ClockInv, AppendText(text), UNCHANGED now
    PROVE  /\ disk' \in Seq(D) /\ stdio' \in Seq(D)
           /\ disk' \o stdio' = disk \o stdio \o text
           /\ LogFileTypeOK' /\ ClockInv' /\ OverrunsOnlyAtFirst'
<1> DEFINE out == stdio \o text
           size == writtenBytes + Len(text)
<1>1. /\ now \in 0..MaxTime /\ lastRoll \in 0..MaxTime /\ RollSize \in Nat
      /\ writtenBytes \in Nat /\ Len(stdio) <= writtenBytes /\ writtenBytes <= Len(disk \o stdio)
      /\ count \in 0..(CheckEveryN - 1) /\ CheckEveryN \in Nat /\ size \in Nat
  BY LogFileAssumption DEF LogFileTypeOK
<1>2. /\ out \in Seq(D) /\ Len(out) = Len(stdio) + Len(text)
      /\ disk \o out \in Seq(D) /\ Len(disk \o out) = Len(disk \o stdio) + Len(text)
      /\ disk \o out = disk \o stdio \o text /\ (disk \o out) \o <<>> = disk \o out
      /\ Len(out) <= size /\ size <= Len(disk \o out)
  BY <1>1
<1>3. Period \in 0..now
  BY <1>1, PeriodIsPast
<1>4. AppendAll(stdio, writtenBytes, text, <<Len(text)>>) = [out |-> out, bytes |-> size]
  BY <1>1, AllTaken
<1> HIDE DEF out, size
<1>5. /\ lastAppend' = now
      /\ count' \in 0..(CheckEveryN - 1)
      /\ \/ /\ now > lastRoll /\ lastRoll' = now /\ lastFlush' = now /\ startOfPeriod' = Period
            /\ disk' = disk \o out /\ stdio' = <<>> /\ writtenBytes' = 0
         \/ /\ lastRoll >= now \/ size <= RollSize
            /\ writtenBytes' = size /\ UNCHANGED <<lastRoll, startOfPeriod>>
            /\ \/ disk' = disk \o out /\ stdio' = <<>> /\ lastFlush' = now
               \/ disk' = disk /\ stdio' = out /\ lastFlush' = lastFlush
  <2> DEFINE checked == count + 1 >= CheckEveryN
  <2>1. lastAppend' = now
    BY DEF AppendText
  <2>2. CASE size > RollSize
    <3>1. RollFile(out, size) /\ count' = count
      BY <1>4, <2>2 DEF AppendText, TooLarge
    <3> QED
      BY <1>1, <2>1, <3>1 DEF RollFile
  <2>3. CASE ~(size > RollSize)
    <3>1. count' = IF checked THEN 0 ELSE count + 1
      BY <1>4, <2>3 DEF AppendText, TooLarge
    <3>2. IF checked /\ Period # startOfPeriod THEN RollFile(out, size)
                                              ELSE Keep(out, size, checked /\ now - lastFlush > FlushInterval)
      BY <1>4, <2>3 DEF AppendText, TooLarge
    <3>3. CASE RollFile(out, size)
      BY <1>1, <2>1, <2>3, <3>1, <3>3 DEF RollFile
    <3>4. CASE Keep(out, size, checked /\ now - lastFlush > FlushInterval)
      BY <1>1, <2>1, <2>3, <3>1, <3>4 DEF Keep
    <3> QED
      BY <3>2, <3>3, <3>4
  <2> QED
    BY <2>2, <2>3
<1>6. /\ disk' \in Seq(D) /\ stdio' \in Seq(D)
      /\ disk' \o stdio' = disk \o stdio \o text
      /\ writtenBytes' \in Len(stdio')..Len(disk' \o stdio')
  <2>1. CASE disk' = disk \o out /\ stdio' = <<>>
    BY <1>1, <1>2, <1>5, <2>1
  <2>2. CASE disk' = disk /\ stdio' = out /\ writtenBytes' = size
    <3>1. disk' \o stdio' = disk \o out
      BY <2>2
    <3>2. disk' \in Seq(D) /\ stdio' \in Seq(D) /\ disk' \o stdio' = disk \o stdio \o text
      BY <1>2, <2>2, <3>1
    <3>3. Len(stdio') = Len(out) /\ Len(disk' \o stdio') = Len(disk \o out)
      BY <2>2, <3>1
    <3>4. size \in Len(out)..Len(disk \o out)
      BY <1>1, <1>2
    <3> QED
      BY <2>2, <3>2, <3>3, <3>4
  <2> QED
    BY <1>5, <2>1, <2>2
<1>7. /\ {now', startOfPeriod', lastRoll', lastFlush', lastAppend'} \subseteq 0..MaxTime
      /\ lastFlush' >= lastRoll' /\ lastRoll' <= now'
      /\ writtenBytes' > RollSize => lastAppend' = lastRoll'
  <2>1. {now, startOfPeriod, lastRoll, lastFlush} \subseteq 0..MaxTime /\ lastFlush >= lastRoll /\ lastRoll <= now
    BY DEF LogFileTypeOK, ClockInv
  <2>2. CASE lastRoll' = now /\ lastFlush' = now /\ startOfPeriod' = Period /\ writtenBytes' = 0
    <3>1. now' = now /\ lastAppend' = now /\ now \in 0..MaxTime
      BY <1>1, <1>5
    <3>2. Period \in 0..MaxTime
      BY <1>1, <1>3, LogFileAssumption
    <3> QED
      BY <1>1, <2>2, <3>1, <3>2
  <2>3. CASE /\ UNCHANGED <<lastRoll, startOfPeriod>> /\ lastFlush' \in {now, lastFlush}
             /\ lastRoll >= now \/ size <= RollSize
             /\ writtenBytes' \in {0, size}
    BY <1>1, <1>5, <2>1, <2>3
  <2> QED
    BY <1>5, <2>2, <2>3
<1> QED
  BY <1>5, <1>6, <1>7 DEF LogFileTypeOK, ClockInv, OverrunsOnlyAtFirst

-----------------------------------------------------------------------------
(* The order of the lines.                                                 *)

\* The parts of Text, of any files, buffers to write, buffers and current buffer.
TextOf(file, w, n, full, last) == <<file>> \o SubSeq(w, n + 1, Len(w)) \o full \o <<last>>

\* LinesInOrder, of any parts and in two halves: within a part and between parts.
Increasing(part) == \A i, j \in 1..Len(part) : i < j => Before(part[i], part[j])
AllBefore(S, R) == \A l \in S, m \in R : Before(l, m)
Ordered(T) ==
    /\ \A a \in 1..Len(T) : Increasing(T[a])
    /\ \A a, b \in 1..Len(T) : a < b => AllBefore(ToSet(T[a]), ToSet(T[b]))
AreParts(T) == Len(T) \in Nat /\ \A a \in 1..Len(T) : T[a] \in Seq(Nat)
Has(T, l) == \E a \in 1..Len(T) : l \in ToSet(T[a])

Consists(T, file, w, n, full, last) ==
    /\ Len(T) = Len(w) - n + Len(full) + 2 /\ T[1] = file /\ T[Len(T)] = last
    /\ \A a \in 1..Len(T) :
          /\ 1 < a /\ a <= 1 + Len(w) - n => T[a] = w[n + a - 1]
          /\ 1 + Len(w) - n < a /\ a < Len(T) => T[a] = full[a - 1 - Len(w) + n]

LEMMA TextParts ==
    ASSUME NEW D, NEW file \in D, NEW w \in Seq(D), NEW n \in 0..Len(w), NEW full \in Seq(D), NEW last \in D,
           NEW T, T = TextOf(file, w, n, full, last)
    PROVE  T \in Seq(D) /\ Consists(T, file, w, n, full, last)
<1> DEFINE rest == SubSeq(w, n + 1, Len(w))
           A == <<file>> \o rest
           B == A \o full
<1>1. /\ rest \in Seq(D) /\ Len(rest) = Len(w) - n
      /\ \A i \in 1..Len(rest) : rest[i] = w[n + i]
  OBVIOUS
<1> HIDE DEF rest
<1>2. /\ A \in Seq(D) /\ Len(A) = 1 + Len(rest) /\ A[1] = file
      /\ \A i \in 1..Len(rest) : A[1 + i] = rest[i]
  BY <1>1
<1> HIDE DEF A
<1>3. /\ B \in Seq(D) /\ Len(B) = Len(A) + Len(full)
      /\ \A i \in 1..Len(A) : B[i] = A[i]
      /\ \A i \in 1..Len(full) : B[Len(A) + i] = full[i]
  <2>1. PICK s \in Seq(D) : s = A
    BY <1>2
  <2>2. /\ s \o full \in Seq(D) /\ Len(s \o full) = Len(s) + Len(full)
        /\ \A i \in 1..Len(s) : (s \o full)[i] = s[i]
        /\ \A i \in 1..Len(full) : (s \o full)[Len(s) + i] = full[i]
    OBVIOUS
  <2> QED
    BY <2>1, <2>2
<1> HIDE DEF B
<1>4. /\ T \in Seq(D) /\ Len(T) = Len(B) + 1 /\ T[Len(B) + 1] = last
      /\ \A i \in 1..Len(B) : T[i] = B[i]
  <2>1. T = B \o <<last>>
    BY DEF TextOf, A, B, rest
  <2>2. PICK s \in Seq(D) : s = B
    BY <1>3
  <2>3. /\ s \o <<last>> \in Seq(D) /\ Len(s \o <<last>>) = Len(s) + 1 /\ (s \o <<last>>)[Len(s) + 1] = last
        /\ \A i \in 1..Len(s) : (s \o <<last>>)[i] = s[i]
    OBVIOUS
  <2>4. T = s \o <<last>>
    BY <2>1, <2>2
  <2> QED
    BY <2>2, <2>3, <2>4
<1> DEFINE k == Len(w) - n
           m == Len(full)
<1>6. k \in Nat /\ m \in Nat /\ Len(rest) = k /\ Len(A) = 1 + k /\ Len(B) = 1 + k + m
  BY <1>1, <1>2, <1>3
<1> HIDE DEF k, m
<1>7. Len(T) = k + m + 2 /\ T[1] = file /\ T[Len(T)] = last
  <2>1. 1 \in 1..Len(A) /\ 1 \in 1..Len(B) /\ Len(T) = Len(B) + 1
    BY <1>4, <1>6
  <2>2. T[1] = B[1] /\ B[1] = A[1]
    BY <1>3, <1>4, <2>1
  <2> QED
    BY <1>2, <1>4, <1>6, <2>1, <2>2
<1>8. ASSUME NEW i \in 1..k PROVE T[1 + i] = w[n + i]
  <2>1. 1 + i \in 1..Len(A) /\ 1 + i \in 1..Len(B) /\ i \in 1..Len(rest)
    BY <1>6
  <2> QED
    BY <1>1, <1>2, <1>3, <1>4, <2>1
<1>9. ASSUME NEW i \in 1..m PROVE T[1 + k + i] = full[i]
  <2>1. 1 + k + i \in 1..Len(B) /\ 1 + k + i = Len(A) + i /\ i \in 1..Len(full)
    BY <1>6 DEF m
  <2> QED
    BY <1>3, <1>4, <2>1
<1>10. ASSUME NEW a \in 1..Len(T), 1 < a, a <= 1 + k PROVE T[a] = w[n + a - 1]
  <2>1. a - 1 \in 1..k /\ 1 + (a - 1) = a /\ n + (a - 1) = n + a - 1
    BY <1>6, <1>7, <1>10
  <2> QED
    BY <1>8, <2>1
<1>11. ASSUME NEW a \in 1..Len(T), 1 + k < a, a < Len(T) PROVE T[a] = full[a - 1 - Len(w) + n]
  <2>1. a - 1 - k \in 1..m /\ 1 + k + (a - 1 - k) = a
    BY <1>6, <1>7, <1>11
  <2>2. a - 1 - k = a - 1 - Len(w) + n
    BY DEF k
  <2> QED
    BY <1>9, <2>1, <2>2
<1>12. Len(T) = Len(w) - n + Len(full) + 2 /\ k = Len(w) - n /\ 1 + k = 1 + Len(w) - n
  BY <1>7 DEF k, m
<1> QED
  BY <1>4, <1>7, <1>10, <1>11, <1>12 DEF Consists

\* The current buffer changes.
LEMMA LineAdded ==
    ASSUME NEW T, NEW U, NEW file, NEW w, NEW n \in Nat, NEW full, NEW last, NEW last2,
           Len(w) \in Nat, n <= Len(w), Len(full) \in Nat,
           Consists(T, file, w, n, full, last), Consists(U, file, w, n, full, last2)
    PROVE  /\ Len(T) \in Nat /\ Len(U) = Len(T) /\ T[Len(T)] = last /\ U[Len(T)] = last2
           /\ \A a \in 1..(Len(T) - 1) : U[a] = T[a]
<1>1. Len(T) \in Nat /\ Len(U) = Len(T) /\ T[Len(T)] = last /\ U[Len(T)] = last2 /\ T[1] = U[1]
  BY DEF Consists
<1>2. ASSUME NEW a \in 1..(Len(T) - 1) PROVE U[a] = T[a]
  <2>1. a \in 1..Len(T) /\ a \in 1..Len(U) /\ a < Len(T) /\ a < Len(U)
    BY <1>1
  <2>2. a = 1 \/ (1 < a /\ a <= 1 + Len(w) - n) \/ 1 + Len(w) - n < a
    OBVIOUS
  <2> QED
    BY <1>1, <2>1, <2>2 DEF Consists
<1> QED
  BY <1>1, <1>2

\* The current buffer goes to the full ones.
LEMMA BufferFilled ==
    ASSUME NEW T, NEW U, NEW file, NEW w, NEW n \in Nat, NEW full \in Seq(LargeBuffer),
           NEW last \in LargeBuffer, NEW last2, NEW full2, full2 = Append(full, last),
           Len(w) \in Nat, n <= Len(w), Len(full) \in Nat,
           Consists(T, file, w, n, full, last), Consists(U, file, w, n, full2, last2)
    PROVE /\ Len(U) = Len(T) + 1 /\ U[Len(U)] = last2
          /\ \A a \in 1..Len(T) : U[a] = T[a]
<1>1. /\ Len(full2) = Len(full) + 1 /\ full2[Len(full) + 1] = last
      /\ \A i \in 1..Len(full) : full2[i] = full[i]
  OBVIOUS
<1> DEFINE k == Len(w) - n
<1>2. /\ Len(T) = k + Len(full) + 2 /\ Len(U) = Len(T) + 1 /\ T[1] = file /\ U[1] = file /\ U[Len(U)] = last2
      /\ T[Len(T)] = last /\ k \in Nat /\ Len(T) \in Nat
  BY <1>1 DEF Consists
<1>3. ASSUME NEW a \in 1..Len(T) PROVE U[a] = T[a]
  <2>1. a \in 1..Len(U) /\ a \in Nat /\ a < Len(U) /\ a <= Len(T) /\ 1 + Len(w) - n \in Nat
    BY <1>2
  <2>2. CASE a = 1
    BY <1>2, <2>2
  <2>3. CASE 1 < a /\ a <= 1 + Len(w) - n
    BY <2>1, <2>3 DEF Consists
  <2>4. CASE 1 + Len(w) - n < a /\ a < Len(T)
    <3>1. T[a] = full[a - 1 - Len(w) + n] /\ U[a] = full2[a - 1 - Len(w) + n]
      BY <1>2, <2>1, <2>4 DEF Consists
    <3>2. a - 1 - Len(w) + n \in 1..Len(full)
      BY <1>2, <2>4
    <3> QED
      BY <1>1, <3>1, <3>2
  <2>5. CASE a = Len(T)
    <3>1. U[a] = full2[a - 1 - Len(w) + n]
      <4>1. 1 + Len(w) - n < a
        BY <1>2, <2>5
      <4> QED
        BY <2>1, <4>1 DEF Consists
    <3>2. a - 1 - Len(w) + n = Len(full) + 1
      BY <1>2, <2>5
    <3> QED
      BY <1>1, <1>2, <2>5, <3>1, <3>2
  <2>6. a = 1 \/ (1 < a /\ a <= 1 + Len(w) - n) \/ (1 + Len(w) - n < a /\ a < Len(T)) \/ a = Len(T)
    <3>1. a \in Int /\ Len(T) \in Int /\ 1 + Len(w) - n \in Int /\ 1 <= a /\ a <= Len(T)
      BY <1>2, <2>1
    <3> QED
      BY <3>1
  <2> QED
    BY <2>2, <2>3, <2>4, <2>5, <2>6, Zenon
<1> QED
  BY <1>2, <1>3

\* All buffers are to be written, and the current one is empty.
LEMMA BuffersTaken ==
    ASSUME NEW T, NEW U, NEW file, NEW full \in Seq(LargeBuffer), NEW last \in LargeBuffer,
           NEW full2, full2 = Append(full, last),
           Len(full) \in Nat,
           Consists(T, file, <<>>, 0, full, last), Consists(U, file, full2, 0, <<>>, <<>>)
    PROVE /\ Len(U) = Len(T) + 1 /\ U[Len(U)] = <<>>
          /\ \A a \in 1..Len(T) : U[a] = T[a]
<1>1. /\ Len(full2) = Len(full) + 1 /\ full2[Len(full) + 1] = last
      /\ \A i \in 1..Len(full) : full2[i] = full[i]
  OBVIOUS
<1>2. Len(<<>>) = 0
  OBVIOUS
<1> QED
  BY <1>1, <1>2 DEF Consists

\* A buffer goes to the file.
LEMMA BufferGone ==
    ASSUME NEW T, NEW U, NEW file, NEW file2, NEW w, NEW n \in Nat, NEW full, NEW last, NEW j, j = n + 1,
           Len(w) \in Nat, n < Len(w), Len(full) \in Nat, file2 = file \o w[j],
           Consists(T, file, w, n, full, last), Consists(U, file2, w, j, full, last)
    PROVE /\ Len(T) >= 2 /\ Len(U) = Len(T) - 1 /\ U[1] = T[1] \o T[2]
          /\ \A a \in 2..Len(U) : U[a] = T[a + 1]
<1>1. Len(T) >= 2 /\ Len(U) = Len(T) - 1 /\ U[1] = file2 /\ T[1] = file /\ Len(T) \in Nat
  BY DEF Consists
<1>3. T[2] = w[j]
  <2>1. 2 \in 1..Len(T) /\ 1 < 2 /\ 2 <= 1 + Len(w) - n
    BY <1>1
  <2>2. T[2] = w[n + 2 - 1]
    BY <2>1 DEF Consists
  <2> QED
    BY <2>2
<1>2. ASSUME NEW a \in 2..Len(U) PROVE U[a] = T[a + 1]
  <2> DEFINE b == a + 1
  <2>1. b \in 1..Len(T) /\ a \in 1..Len(U) /\ b = a + 1 /\ 1 < b
    BY <1>1
  <2> HIDE DEF b
  <2>2. CASE a <= 1 + Len(w) - j
    <3>1. U[a] = w[j + a - 1] /\ T[b] = w[n + b - 1]
      BY <2>1, <2>2 DEF Consists
    <3>2. j + a - 1 = n + b - 1
      BY <2>1
    <3> QED
      BY <3>1, <3>2 DEF b
  <2>3. CASE 1 + Len(w) - j < a /\ a < Len(U)
    <3>1. 1 + Len(w) - n < b /\ b < Len(T)
      BY <1>1, <2>1, <2>3
    <3>2. U[a] = full[a - 1 - Len(w) + j] /\ T[b] = full[b - 1 - Len(w) + n]
      BY <2>1, <2>3, <3>1 DEF Consists
    <3>3. a - 1 - Len(w) + j = b - 1 - Len(w) + n
      BY <2>1
    <3> QED
      BY <3>2, <3>3 DEF b
  <2>4. CASE a = Len(U)
    <3>1. U[Len(U)] = last /\ T[Len(T)] = last
      BY DEF Consists
    <3>2. b = Len(T)
      BY <1>1, <2>1, <2>4
    <3> QED
      BY <2>4, <3>1, <3>2 DEF b
  <2> QED
    BY <1>1, <2>2, <2>3, <2>4
<1> QED
  BY <1>1, <1>2, <1>3

\* All buffers but the first two go, which are d.
FirstTwo(w2, w, d) == d \in Nat /\ Len(w) = d + 2 /\ Len(w2) = 2 /\ w2[1] = w[1] /\ w2[2] = w[2]

\* The buffers after the second go, and a notice to the file.
LEMMA BuffersGone ==
    ASSUME NEW T, NEW U, NEW file, NEW w, NEW n, NEW full, NEW last, NEW d, NEW file2, NEW w2,
           n = 0, Len(full) \in Nat, FirstTwo(w2, w, d),
           Consists(T, file, w, n, full, last), Consists(U, file2, w2, n, full, last)
    PROVE  /\ Len(T) >= 3 + d /\ Len(U) = Len(T) - d /\ T[1] = file /\ U[1] = file2 /\ U[2] = T[2] /\ U[3] = T[3]
           /\ \A a \in 4..Len(U) : U[a] = T[a + d]
<1> USE DEF FirstTwo
<1>1. Len(T) >= 3 + d /\ Len(U) = Len(T) - d /\ U[1] = file2 /\ T[1] = file /\ U[2] = T[2] /\ U[3] = T[3]
  BY DEF Consists
<1>2. ASSUME NEW a \in 4..Len(U) PROVE U[a] = T[a + d]
  <2> DEFINE b == a + d
  <2>1. b \in 1..Len(T) /\ a \in 1..Len(U) /\ b = a + d /\ 1 < b /\ Len(T) \in Nat /\ Len(T) = Len(full) + d + 4
    BY <1>1 DEF Consists
  <2> HIDE DEF b
  <2>3. CASE a < Len(U)
    <3>1. 1 + Len(w) < b /\ b < Len(T) /\ 1 + Len(w2) < a
      BY <1>1, <2>1, <2>3
    <3>2. U[a] = full[a - 1 - Len(w2) + 0] /\ T[b] = full[b - 1 - Len(w) + 0]
      BY <2>1, <2>3, <3>1 DEF Consists
    <3>3. a - 1 - Len(w2) + 0 = b - 1 - Len(w) + 0
      BY <2>1
    <3> QED
      BY <3>2, <3>3 DEF b
  <2>4. CASE a = Len(U)
    <3>1. U[Len(U)] = last /\ T[Len(T)] = last
      BY DEF Consists
    <3>2. b = Len(T)
      BY <1>1, <2>1, <2>4
    <3> QED
      BY <2>4, <3>1, <3>2 DEF b
  <2>5. a < Len(U) \/ a = Len(U)
    <3>1. a \in Int /\ Len(U) \in Int /\ a <= Len(U)
      BY <1>1, <2>1
    <3> QED
      BY <3>1
  <2> QED
    BY <2>3, <2>4, <2>5, Zenon
<1> QED
  BY <1>1, <1>2

LEMMA ToSetIs ==
    ASSUME NEW s \in Seq(Nat), NEW x
    PROVE  x \in ToSet(s) <=> \E i \in 1..Len(s) : s[i] = x
  BY DEF ToSet

\* What two texts are together, and a text of one line.
LEMMA Together ==
    ASSUME NEW s \in Seq(Nat), NEW t \in Seq(Nat), NEW u \in Seq(Nat), u = s \o t
    PROVE  /\ ToSet(u) = ToSet(s) \union ToSet(t)
           /\ Increasing(s) /\ Increasing(t) /\ AllBefore(ToSet(s), ToSet(t)) => Increasing(u)
<1>1. /\ Len(s) \in Nat /\ Len(t) \in Nat /\ Len(u) = Len(s) + Len(t)
      /\ \A i \in 1..Len(s) : i \in 1..Len(u) /\ u[i] = s[i]
      /\ \A i \in 1..Len(u) : i > Len(s) => i - Len(s) \in 1..Len(t) /\ u[i] = t[i - Len(s)]
      /\ \A i \in 1..Len(t) : Len(s) + i \in 1..Len(u) /\ u[Len(s) + i] = t[i]
  OBVIOUS
<1>2. ASSUME NEW x \in ToSet(u) PROVE x \in ToSet(s) \union ToSet(t)
  <2>1. PICK i \in 1..Len(u) : u[i] = x
    BY ToSetIs
  <2> QED
    BY <1>1, <2>1, ToSetIs
<1>3. ASSUME NEW x \in ToSet(s) PROVE x \in ToSet(u)
  <2>1. PICK i \in 1..Len(s) : s[i] = x
    BY ToSetIs
  <2> QED
    BY <1>1, <2>1, ToSetIs
<1>4. ASSUME NEW x \in ToSet(t) PROVE x \in ToSet(u)
  <2>1. PICK i \in 1..Len(t) : t[i] = x
    BY ToSetIs
  <2> QED
    BY <1>1, <2>1, ToSetIs
<1>5. ASSUME Increasing(s), Increasing(t), AllBefore(ToSet(s), ToSet(t)),
             NEW i \in 1..Len(u), NEW j \in 1..Len(u), i < j
      PROVE  Before(u[i], u[j])
  <2>1. CASE j <= Len(s)
    <3>1. i \in 1..Len(s) /\ j \in 1..Len(s)
      BY <1>1, <1>5, <2>1
    <3> QED
      BY <1>1, <1>5, <3>1 DEF Increasing
  <2>2. CASE i > Len(s)
    <3>1. i - Len(s) \in 1..Len(t) /\ j - Len(s) \in 1..Len(t) /\ i - Len(s) < j - Len(s)
      BY <1>1, <1>5, <2>2
    <3>2. u[i] = t[i - Len(s)] /\ u[j] = t[j - Len(s)]
      BY <1>1, <1>5, <2>2
    <3> QED
      BY <1>5, <3>1, <3>2 DEF Increasing
  <2>3. CASE i <= Len(s) /\ j > Len(s)
    <3>1. u[i] \in ToSet(s) /\ u[j] \in ToSet(t)
      <4>1. i \in 1..Len(s) /\ u[i] = s[i]
        BY <1>1, <2>3
      <4>2. j - Len(s) \in 1..Len(t) /\ u[j] = t[j - Len(s)]
        BY <1>1, <2>3
      <4> QED
        BY <4>1, <4>2, ToSetIs
    <3> QED
      BY <1>5, <3>1 DEF AllBefore
  <2> QED
    BY <1>1, <2>1, <2>2, <2>3
<1> QED
  BY <1>2, <1>3, <1>4, <1>5 DEF Increasing

LEMMA OneMore ==
    ASSUME NEW s \in Seq(Nat), NEW l \in Nat, NEW u \in Seq(Nat), u = s \o <<l>>
    PROVE  /\ ToSet(u) = ToSet(s) \union {l}
           /\ Increasing(s) /\ AllBefore(ToSet(s), {l}) => Increasing(u)
<1>1. PICK t \in Seq(Nat) : t = <<l>>
  <2>1. <<l>> \in Seq(Nat)
    OBVIOUS
  <2> QED
    BY <2>1, Zenon
<1>2. ToSet(t) = {l} /\ Increasing(t)
  BY <1>1 DEF ToSet, Increasing
<1>3. u = s \o t
  BY <1>1
<1>4. AllBefore(ToSet(s), {l}) => AllBefore(ToSet(s), ToSet(t))
  BY <1>2 DEF AllBefore
<1>5. ToSet(u) = ToSet(s) \union ToSet(t) /\ (Increasing(s) /\ AllBefore(ToSet(s), ToSet(t)) => Increasing(u))
  BY <1>2, <1>3, Together
<1> QED
  BY <1>2, <1>4, <1>5

LEMMA NoLine == ToSet(<<>>) = {} /\ Increasing(<<>>)
  BY DEF ToSet, Increasing

\* A last part that is behind all the others.
LEMMA NewPart ==
    ASSUME NEW T, AreParts(T), Ordered(T), NEW part, Increasing(part),
           \A a \in 1..Len(T) : AllBefore(ToSet(T[a]), ToSet(part)),
           NEW U, AreParts(U), Len(U) = Len(T) + 1, U[Len(U)] = part,
           \A a \in 1..Len(T) : U[a] = T[a]
    PROVE  Ordered(U) /\ \A l : Has(U, l) <=> Has(T, l) \/ l \in ToSet(part)
<1>1. Len(T) \in Nat
  BY DEF AreParts
<1>2. ASSUME NEW a \in 1..Len(U) PROVE Increasing(U[a])
  BY <1>1 DEF Ordered
<1>3. ASSUME NEW a \in 1..Len(U), NEW b \in 1..Len(U), a < b PROVE AllBefore(ToSet(U[a]), ToSet(U[b]))
  BY <1>1, <1>3 DEF Ordered
<1>4. ASSUME NEW l PROVE Has(U, l) <=> Has(T, l) \/ l \in ToSet(part)
  BY <1>1 DEF Has
<1> QED
  BY <1>2, <1>3, <1>4 DEF Ordered

\* A line behind all the others, in the last part.
LEMMA NewLine ==
    ASSUME NEW T, AreParts(T), Ordered(T), Len(T) > 0, NEW U, AreParts(U), NEW l \in Nat,
           \A a \in 1..Len(T) : AllBefore(ToSet(T[a]), {l}),
           Len(U) = Len(T), U[Len(T)] = T[Len(T)] \o <<l>>, \A a \in 1..(Len(T) - 1) : U[a] = T[a]
    PROVE  Ordered(U) /\ \A m : Has(U, m) <=> Has(T, m) \/ m = l
<1> DEFINE z == Len(T)
<1>1. z \in Nat /\ z \in 1..Len(T) /\ T[z] \in Seq(Nat) /\ U[z] \in Seq(Nat)
  BY DEF AreParts
<1>2. ToSet(U[z]) = ToSet(T[z]) \union {l} /\ Increasing(U[z])
  <2>1. U[z] = T[z] \o <<l>>
    OBVIOUS
  <2>2. Increasing(T[z]) /\ AllBefore(ToSet(T[z]), {l})
    BY <1>1 DEF Ordered
  <2> QED
    BY <1>1, <2>1, <2>2, OneMore
<1> HIDE DEF z
<1>3. \A a \in 1..Len(U) : a = z \/ (a \in 1..Len(T) /\ a < z /\ U[a] = T[a])
  BY <1>1 DEF z
<1>4. ASSUME NEW a \in 1..Len(U) PROVE Increasing(U[a])
  BY <1>2, <1>3 DEF Ordered
<1>5. ASSUME NEW a \in 1..Len(U), NEW b \in 1..Len(U), a < b PROVE AllBefore(ToSet(U[a]), ToSet(U[b]))
  <2>1. a \in 1..Len(T) /\ a < z /\ U[a] = T[a]
    BY <1>1, <1>3, <1>5 DEF z
  <2>2. AllBefore(ToSet(T[a]), ToSet(T[b])) /\ AllBefore(ToSet(T[a]), {l})
    BY <1>5, <2>1 DEF Ordered
  <2>3. U[b] = T[b] \/ ToSet(U[b]) = ToSet(T[b]) \union {l}
    BY <1>2, <1>3
  <2> QED
    BY <2>1, <2>2, <2>3 DEF AllBefore
<1>6. ASSUME NEW m PROVE Has(U, m) <=> Has(T, m) \/ m = l
  BY <1>1, <1>2, <1>3 DEF Has, z
<1> QED
  BY <1>4, <1>5, <1>6 DEF Ordered

\* The second part goes to the end of the first.
LEMMA PartWritten ==
    ASSUME NEW T, AreParts(T), Ordered(T), Len(T) >= 2, NEW U, AreParts(U),
           Len(U) = Len(T) - 1, U[1] = T[1] \o T[2], \A a \in 2..Len(U) : U[a] = T[a + 1]
    PROVE  Ordered(U) /\ \A l : Has(U, l) <=> Has(T, l)
<1>1. Len(T) \in Nat /\ 1 \in 1..Len(T) /\ 2 \in 1..Len(T) /\ 1 \in 1..Len(U)
  BY DEF AreParts
<1>2. T[1] \in Seq(Nat) /\ T[2] \in Seq(Nat) /\ U[1] \in Seq(Nat)
  BY <1>1 DEF AreParts
<1>3. ToSet(U[1]) = ToSet(T[1]) \union ToSet(T[2]) /\ Increasing(U[1])
  <2>1. Increasing(T[1]) /\ Increasing(T[2]) /\ AllBefore(ToSet(T[1]), ToSet(T[2]))
    BY <1>1 DEF Ordered
  <2> QED
    BY <1>2, <2>1, Together
<1>4. \A a \in 1..Len(U) : a = 1 \/ (a + 1 \in 1..Len(T) /\ U[a] = T[a + 1])
  BY <1>1
<1>5. ASSUME NEW a \in 1..Len(U) PROVE Increasing(U[a])
  BY <1>3, <1>4 DEF Ordered
<1>6. ASSUME NEW a \in 1..Len(U), NEW b \in 1..Len(U), a < b PROVE AllBefore(ToSet(U[a]), ToSet(U[b]))
  <2>1. b + 1 \in 1..Len(T) /\ U[b] = T[b + 1]
    BY <1>4, <1>6
  <2>2. CASE a = 1
    <3>1. AllBefore(ToSet(T[1]), ToSet(T[b + 1])) /\ AllBefore(ToSet(T[2]), ToSet(T[b + 1]))
      BY <1>1, <1>6, <2>1, <2>2 DEF Ordered
    <3> QED
      BY <1>3, <2>1, <2>2, <3>1 DEF AllBefore
  <2>3. CASE a # 1
    BY <1>4, <1>6, <2>1, <2>3 DEF Ordered
  <2> QED
    BY <2>2, <2>3
<1>7. ASSUME NEW l, Has(U, l) PROVE Has(T, l)
  BY <1>1, <1>3, <1>4, <1>7 DEF Has
<1>8. ASSUME NEW l, Has(T, l) PROVE Has(U, l)
  <2>1. PICK a \in 1..Len(T) : l \in ToSet(T[a])
    BY <1>8 DEF Has
  <2>2. CASE a \in {1, 2}
    BY <1>1, <1>3, <2>1, <2>2 DEF Has
  <2>3. CASE a \notin {1, 2}
    <3>1. a - 1 \in 2..Len(U) /\ a - 1 \in 1..Len(U) /\ (a - 1) + 1 = a
      BY <1>1, <2>3
    <3>2. U[a - 1] = T[a]
      BY <3>1
    <3> QED
      BY <2>1, <3>1, <3>2 DEF Has
  <2> QED
    BY <2>2, <2>3
<1> QED
  BY <1>5, <1>6, <1>7, <1>8 DEF Ordered

\* A notice goes to the end of the first part, and d parts after the third go.
LEMMA PartsDropped ==
    ASSUME NEW T, AreParts(T), Ordered(T), NEW d \in Nat, Len(T) >= 3 + d, NEW U, AreParts(U),
           Len(U) = Len(T) - d, U[1] = T[1] \o <<Notice>>, U[2] = T[2], U[3] = T[3],
           \A a \in 4..Len(U) : U[a] = T[a + d]
    PROVE  /\ Ordered(U)
           /\ \A l : Has(U, l) => Has(T, l) \/ l = Notice
           /\ \A l : Has(T, l) => Has(U, l) \/ \E a \in 4..(3 + d) : l \in ToSet(T[a])
           /\ \A l : Has(U, l) /\ l # Notice => \A a \in 4..(3 + d) : l \notin ToSet(T[a])
<1> DEFINE p(a) == IF a <= 3 THEN a ELSE a + d
<1>1. Len(T) \in Nat /\ Len(U) \in Nat /\ Len(U) >= 3 /\ 1 \in 1..Len(T) /\ 1 \in 1..Len(U)
  BY DEF AreParts
<1>2. T[1] \in Seq(Nat) /\ U[1] \in Seq(Nat)
  BY <1>1 DEF AreParts
<1>3. ToSet(U[1]) = ToSet(T[1]) \union {Notice} /\ Increasing(U[1])
  <2>1. Notice \in Nat
    BY DEF Notice
  <2>2. Increasing(T[1]) /\ AllBefore(ToSet(T[1]), {Notice})
    BY <1>1 DEF Ordered, AllBefore, Before
  <2> QED
    BY <1>2, <2>1, <2>2, OneMore
<1>4. \A a \in 1..Len(U) : p(a) \in 1..Len(T) /\ (a # 1 => U[a] = T[p(a)])
  BY <1>1
<1>5. \A a, b \in 1..Len(U) : a < b => p(a) < p(b)
  BY <1>1
<1>6. p(1) = 1
  OBVIOUS
<1> HIDE DEF p
<1>7. ASSUME NEW a \in 1..Len(U) PROVE Increasing(U[a])
  BY <1>3, <1>4 DEF Ordered
<1>8. ASSUME NEW a \in 1..Len(U), NEW b \in 1..Len(U), a < b PROVE AllBefore(ToSet(U[a]), ToSet(U[b]))
  <2>1. AllBefore(ToSet(T[p(a)]), ToSet(T[p(b)]))
    BY <1>4, <1>5, <1>8 DEF Ordered
  <2>2. U[b] = T[p(b)] /\ (U[a] = T[p(a)] \/ (a = 1 /\ p(a) = 1))
    BY <1>4, <1>6, <1>8
  <2>3. AllBefore({Notice}, ToSet(U[b]))
    <3>1. b \in 2..Len(U) /\ U[b] \in Seq(Nat)
      BY <1>8 DEF AreParts
    <3>2. ToSet(U[b]) \subseteq Nat
      BY <3>1 DEF ToSet
    <3> QED
      BY <3>2 DEF AllBefore, Before, Notice
  <2> QED
    BY <1>3, <2>1, <2>2, <2>3 DEF AllBefore
<1>9. ASSUME NEW l, Has(U, l) PROVE Has(T, l) \/ l = Notice
  BY <1>3, <1>4, <1>6, <1>9 DEF Has
<1>10. ASSUME NEW l, Has(T, l), \A a \in 4..(3 + d) : l \notin ToSet(T[a]) PROVE Has(U, l)
  <2>1. PICK a \in 1..Len(T) : l \in ToSet(T[a])
    BY <1>10 DEF Has
  <2>2. a <= 3 \/ a > 3 + d
    BY <1>10, <2>1
  <2>3. CASE a <= 3
    <3>1. a \in {1, 2, 3} /\ a \in 1..Len(U)
      BY <1>1, <2>3
    <3> QED
      BY <1>3, <2>1, <3>1 DEF Has
  <2>4. CASE a > 3 + d
    <3>1. a - d \in 4..Len(U) /\ a - d \in 1..Len(U) /\ (a - d) + d = a
      BY <1>1, <2>4
    <3>2. U[a - d] = T[a]
      BY <3>1
    <3> QED
      BY <2>1, <3>1, <3>2 DEF Has
  <2> QED
    BY <2>2, <2>3, <2>4
<1>11. ASSUME NEW l, Has(U, l), l # Notice, NEW b \in 4..(3 + d) PROVE l \notin ToSet(T[b])
  <2>1. PICK a \in 1..Len(U) : l \in ToSet(T[p(a)])
    BY <1>3, <1>4, <1>6, <1>11 DEF Has
  <2>2. p(a) \in 1..Len(T) /\ b \in 1..Len(T) /\ (p(a) < b \/ b < p(a))
    BY <1>1, <1>4 DEF p
  <2>3. l \in Nat
    <3>1. T[p(a)] \in Seq(Nat)
      BY <2>2 DEF AreParts
    <3>2. \A s \in Seq(Nat) : ToSet(s) \subseteq Nat
      BY DEF ToSet
    <3> QED
      BY <2>1, <3>1, <3>2
  <2> QED
    BY <1>11, <2>1, <2>2, <2>3 DEF Ordered, AllBefore, Before
<1> QED
  BY <1>7, <1>8, <1>9, <1>10, <1>11 DEF Ordered

-----------------------------------------------------------------------------
(* The steps.                                                              *)

LEMMA Opens ==
    ASSUME LogFileTypeOK, ClockInv, stdio = <<>>, LogFileOpens, UNCHANGED now
    PROVE  /\ UNCHANGED <<disk, stdio>> \/ (disk' = disk \o <<>> /\ stdio' = <<>>)
           /\ LogFileTypeOK' /\ ClockInv' /\ writtenBytes' = 0
<1>1. Period \in 0..now
  BY PeriodIsPast DEF LogFileTypeOK
<1> QED
  BY <1>1, LogFileAssumption DEF LogFileOpens, RollFile, LogFileTypeOK, ClockInv

LEMMA Flushes ==
    ASSUME NEW D, disk \in Seq(D), stdio \in Seq(D), LogFileTypeOK, ClockInv, Flush, UNCHANGED now
    PROVE  /\ disk' \in Seq(D) /\ stdio' = <<>> /\ disk' \o stdio' = disk \o stdio
           /\ LogFileTypeOK' /\ ClockInv' /\ UNCHANGED <<writtenBytes, lastAppend, lastRoll>>
<1>1. disk' = disk \o stdio /\ stdio' = <<>> /\ disk' \in Seq(D) /\ disk' \o stdio' = disk \o stdio
  BY DEF Flush
<1> QED
  BY <1>1 DEF Flush, LogFileTypeOK, ClockInv

LEMMA FileKept ==
    ASSUME TypeOK, ClockInv, BackInv, OverrunsOnlyAtFirst, [Next]_vars
    PROVE  FileTypeOK' /\ ClockInv' /\ OverrunsOnlyAtFirst' /\ (back' \notin {"write", "refill"} => stdio' = <<>>)
<1> DEFINE D == Lines \union {Notice}
           Goal == FileTypeOK' /\ ClockInv' /\ OverrunsOnlyAtFirst' /\ (back' \notin {"write", "refill"} => stdio' = <<>>)
<1>1. LogFileTypeOK /\ disk \in Seq(D) /\ stdio \in Seq(D)
  BY DEF TypeOK, FileTypeOK, BuffersTypeOK
<1>2. ASSUME UNCHANGED <<fileVars, now>>, back' = back \/ back \notin {"write", "refill"}
      PROVE  Goal
  <2>1. FileTypeOK'
    BY <1>1, <1>2 DEF fileVars, FileTypeOK, LogFileTypeOK
  <2>2. ClockInv' /\ OverrunsOnlyAtFirst'
    BY <1>2 DEF fileVars, ClockInv, OverrunsOnlyAtFirst
  <2>3. back' \notin {"write", "refill"} => stdio' = <<>>
    BY <1>2 DEF fileVars, BackInv
  <2> QED
    BY <2>1, <2>2, <2>3
<1>3. CASE Start \/ Stop \/ Join \/ AppendLine \/ Wait \/ SwapBuffers \/ UNCHANGED vars
  <2>1. UNCHANGED <<fileVars, now>>
    BY <1>3 DEF Start, Stop, Join, AppendLine, Wait, SwapBuffers, vars
  <2>2. back' = back \/ back \notin {"write", "refill"}
    BY <1>3 DEF Start, Stop, Join, AppendLine, Wait, SwapBuffers, vars, backVars, BackInv
  <2> QED
    BY <1>2, <2>1, <2>2
<1>4. CASE OpenFile
  <2>1. stdio = <<>> /\ stdio' = <<>> /\ disk' \in Seq(D)
    BY <1>1, <1>4, Opens DEF OpenFile, BackInv
  <2> QED
    BY <1>1, <1>4, <2>1, Opens, LogFileAssumption DEF OpenFile, FileTypeOK, OverrunsOnlyAtFirst
<1>5. CASE TestRunning
  <2>1. CASE running
    BY <1>2, <1>5, <2>1 DEF TestRunning
  <2>2. CASE ~running
    <3>1. Flush /\ UNCHANGED now
      BY <1>5, <2>2 DEF TestRunning
    <3>2. disk' \in Seq(D) /\ stdio' = <<>> /\ LogFileTypeOK' /\ ClockInv' /\ UNCHANGED <<writtenBytes, lastAppend, lastRoll>>
      BY <1>1, <3>1, Flushes
    <3> QED
      BY <3>2 DEF FileTypeOK, OverrunsOnlyAtFirst
  <2> QED
    BY <2>1, <2>2
<1>6. ASSUME NEW text \in Seq(D), AppendText(text), UNCHANGED now, back = "write", back' \in {"write", "refill"}
      PROVE  Goal
  BY <1>1, <1>6, AppendsText DEF FileTypeOK
<1>7. CASE DropBuffers
  <2>1. <<Notice>> \in Seq(D)
    OBVIOUS
  <2> QED
    BY <1>6, <1>7, <2>1 DEF DropBuffers
<1>8. CASE WriteBuffer
  <2>1. toWrite[written + 1] \in Seq(Lines)
    BY <1>8 DEF WriteBuffer, TypeOK, BuffersTypeOK, LargeBuffer
  <2>2. toWrite[written + 1] \in Seq(D)
    BY <2>1, SeqMonotonic
  <2> QED
    BY <1>6, <1>8, <2>2 DEF WriteBuffer
<1>9. CASE Refill
  <2>1. Flush /\ UNCHANGED now
    BY <1>9 DEF Refill
  <2>2. disk' \in Seq(D) /\ stdio' = <<>> /\ LogFileTypeOK' /\ ClockInv' /\ UNCHANGED <<writtenBytes, lastAppend, lastRoll>>
    BY <1>1, <2>1, Flushes
  <2> QED
    BY <2>2 DEF FileTypeOK, OverrunsOnlyAtFirst
<1>10. CASE Clock
  <2>1. UNCHANGED <<fileVars, back>> /\ now' = now + 1 /\ now < MaxTime
    BY <1>10 DEF Clock, Tick, backVars
  <2>2. LogFileTypeOK' /\ ClockInv'
    BY <1>1, <2>1, LogFileAssumption DEF fileVars, LogFileTypeOK, ClockInv
  <2> QED
    BY <1>1, <2>1, <2>2 DEF fileVars, FileTypeOK, OverrunsOnlyAtFirst, BackInv
<1> QED
  BY <1>3, <1>4, <1>5, <1>7, <1>8, <1>9, <1>10 DEF Next, BackStep

LEMMA ControlKept ==
    ASSUME ControlTypeOK, [Next]_vars
    PROVE  ControlTypeOK'
  BY DEF ControlTypeOK, Next, BackStep, Start, Stop, Join, AppendLine, OpenFile, TestRunning, Wait, SwapBuffers,
         DropBuffers, WriteBuffer, Refill, Clock, vars, frontVars, backVars

LEMMA BuffersKept ==
    ASSUME BuffersTypeOK, BackInv, [Next]_vars
    PROVE  BuffersTypeOK'
<1> USE AsyncLoggingAssumption DEF BuffersTypeOK
<1>1. CASE Start \/ Stop \/ Join \/ Clock \/ OpenFile \/ TestRunning \/ Wait \/ UNCHANGED vars
  <2>1. UNCHANGED <<frontVars, toWrite, written, lost>>
    BY <1>1 DEF Start, Stop, Join, Clock, OpenFile, TestRunning, Wait, vars, backVars
  <2> QED
    BY <2>1 DEF frontVars
<1>2. CASE AppendLine
  <2>1. lines' = lines + 1 /\ lines' \in Lines /\ UNCHANGED <<toWrite, written, lost>>
    BY <1>2 DEF AppendLine, Lines, backVars
  <2>2. lines' \in 0..MaxLines /\ lost' \subseteq Lines
    BY <2>1 DEF Lines
  <2>3. current' \in LargeBuffer /\ buffers' \in Seq(LargeBuffer)
    <3>1. CASE Len(current) < BufferLines
      <4>1. current' = Append(current, lines') /\ buffers' = buffers
        BY <1>2, <3>1 DEF AppendLine
      <4>2. current \in Seq(Lines)
        BY DEF LargeBuffer
      <4>3. Append(current, lines') \in Seq(Lines) /\ Len(Append(current, lines')) = Len(current) + 1
        BY <2>1, <4>2
      <4> QED
        BY <3>1, <4>1, <4>2, <4>3 DEF LargeBuffer
    <3>2. CASE ~(Len(current) < BufferLines)
      <4>1. current' = <<lines'>> /\ buffers' = Append(buffers, current)
        BY <1>2, <3>2 DEF AppendLine
      <4>2. <<lines'>> \in LargeBuffer
        BY <2>1 DEF LargeBuffer
      <4> QED
        BY <4>1, <4>2
    <3> QED
      BY <3>1, <3>2
  <2> QED
    BY <2>1, <2>2, <2>3
<1>3. <<>> \in LargeBuffer
  BY DEF LargeBuffer
<1>4. CASE SwapBuffers
  <2>1. /\ toWrite' = Append(buffers, current) /\ buffers' = <<>> /\ current' = <<>> /\ written' = 0
        /\ UNCHANGED <<lines, lost>>
    BY <1>4 DEF SwapBuffers, BackInv
  <2> QED
    BY <1>3, <2>1
<1>5. CASE DropBuffers
  <2>1. /\ toWrite' = SubSeq(toWrite, 1, 2) /\ Len(toWrite) > 2 /\ written' = 0
        /\ UNCHANGED frontVars
    BY <1>5 DEF DropBuffers
  <2>2. lost' \subseteq Lines
    <3>1. lost' = lost \union UNION {ToSet(toWrite[i]) : i \in 3..Len(toWrite)}
      BY <1>5 DEF DropBuffers
    <3>2. \A i \in 3..Len(toWrite) : ToSet(toWrite[i]) \subseteq Lines
      <4>1. \A b \in LargeBuffer : ToSet(b) \subseteq Lines
        BY DEF LargeBuffer, ToSet
      <4> QED
        BY <4>1
    <3> QED
      BY <3>1, <3>2
  <2> QED
    BY <2>1, <2>2 DEF frontVars
<1>6. CASE WriteBuffer
  <2>1. UNCHANGED <<frontVars, toWrite, lost>> /\ written' \in 0..Len(toWrite)
    BY <1>6 DEF WriteBuffer
  <2> QED
    BY <2>1 DEF frontVars
<1>7. CASE Refill
  <2>1. UNCHANGED <<frontVars, lost>> /\ toWrite' = <<>> /\ written' = 0
    BY <1>7 DEF Refill
  <2> QED
    BY <2>1 DEF frontVars
<1> QED
  BY <1>1, <1>2, <1>4, <1>5, <1>6, <1>7 DEF Next, BackStep

LEMMA RoundKept ==
    ASSUME BuffersTypeOK, FrontInv, BackInv, [Next]_vars, stdio' = <<>> \/ back' \in {"write", "refill"}
    PROVE  FrontInv' /\ BackInv'
<1> USE AsyncLoggingAssumption DEF FrontInv, BackInv
<1>1. CASE Start \/ Stop \/ Join \/ Clock \/ UNCHANGED vars
  BY <1>1 DEF Start, Stop, Join, Clock, vars, frontVars, backVars
<1>2. CASE AppendLine
  <2>1. FrontInv'
    BY <1>2 DEF AppendLine, BuffersTypeOK
  <2> QED
    BY <1>2, <2>1 DEF AppendLine, backVars
<1>3. CASE OpenFile \/ TestRunning \/ Wait
  BY <1>3 DEF OpenFile, TestRunning, Wait, frontVars
<1>4. CASE SwapBuffers
  <2>1. Len(buffers) \in Nat /\ Len(toWrite') = Len(buffers) + 1 /\ (~hasNext => Len(buffers) >= 1) /\ written' = 0
    BY <1>4 DEF SwapBuffers, BuffersTypeOK
  <2>2. hasNext' /\ (~has2' => ~hasNext)
    BY <1>4, Zenon DEF SwapBuffers
  <2>3. ~has2' => Len(toWrite') >= 2
    BY <2>1, <2>2
  <2>4. back' = "write" /\ UNCHANGED owner /\ back = "swap"
    BY <1>4 DEF SwapBuffers
  <2> QED
    BY <2>1, <2>2, <2>3, <2>4
<1>5. CASE DropBuffers
  <2>1. Len(toWrite') = 2 /\ written' = 0
    BY <1>5 DEF DropBuffers, BuffersTypeOK
  <2> QED
    BY <1>5, <2>1 DEF DropBuffers, frontVars
<1>6. CASE WriteBuffer
  <2>1. UNCHANGED <<frontVars, toWrite, has2>> /\ written' \in 0..Len(toWrite) /\ back = "write"
    BY <1>6 DEF WriteBuffer, BuffersTypeOK
  <2> QED
    BY <1>6, <2>1 DEF WriteBuffer, frontVars
<1>7. CASE Refill
  BY <1>7 DEF Refill, frontVars
<1> QED
  BY <1>1, <1>2, <1>3, <1>4, <1>5, <1>6, <1>7 DEF Next, BackStep

\* The parts of Text are texts.
LEMMA TextTyped ==
    ASSUME NEW file \in Seq(Lines \union {Notice}), NEW w \in Seq(LargeBuffer), NEW n \in 0..Len(w),
           NEW full \in Seq(LargeBuffer), NEW last \in LargeBuffer,
           NEW T, T = TextOf(file, w, n, full, last)
    PROVE  /\ AreParts(T) /\ Consists(T, file, w, n, full, last) /\ Len(w) - n \in Nat /\ Len(full) \in Nat
           /\ \A a \in 1..Len(T) : ToSet(T[a]) \subseteq Lines \union {Notice}
<1> DEFINE D == Seq(Lines \union {Notice})
<1>1. file \in D /\ last \in D /\ LargeBuffer \subseteq D /\ D \subseteq Seq(Nat)
  <2>1. Lines \subseteq Lines \union {Notice} /\ Lines \union {Notice} \subseteq Nat
    BY AsyncLoggingAssumption DEF Lines, Notice
  <2>2. LargeBuffer \subseteq D
    BY <2>1, SeqMonotonic DEF LargeBuffer
  <2> QED
    BY <2>1, <2>2, SeqMonotonic
<1>2. Len(w) - n \in Nat /\ Len(full) \in Nat
  OBVIOUS
<1>3. \A s \in D : ToSet(s) \subseteq Lines \union {Notice}
  BY DEF ToSet
<1> HIDE DEF D
<1>4. w \in Seq(D) /\ full \in Seq(D)
  BY <1>1, SeqMonotonic
<1>5. T \in Seq(D) /\ Consists(T, file, w, n, full, last)
  BY <1>1, <1>4, TextParts
<1>6. \A a \in 1..Len(T) : T[a] \in D
  BY <1>5, ElementOfSeq
<1>7. AreParts(T)
  BY <1>1, <1>2, <1>5, <1>6 DEF AreParts
<1> QED
  BY <1>2, <1>3, <1>5, <1>6, <1>7

\* LinesInOrder in the words of the lemmas.
OrderInv(T, gone, n) ==
    /\ Ordered(T) /\ gone \subseteq 1..n
    /\ \A l \in Lines : Has(T, l) <=> l \in (1..n) \ gone

LEMMA InOrder == LinesInOrder <=> OrderInv(Text, lost, lines)
  BY DEF LinesInOrder, OrderInv, Ordered, Increasing, AllBefore, Has

LEMMA OrderKept ==
    ASSUME TypeOK, TypeOK', ClockInv, BackInv, LinesInOrder, [Next]_vars
    PROVE  LinesInOrder'
<1>t. PICK T, file, w, n, full, last :
            /\ T = Text /\ T = TextOf(file, w, n, full, last)
            /\ file = disk \o stdio /\ w = toWrite /\ n = written /\ full = buffers /\ last = current
  BY DEF Text, TextOf
<1>u. PICK U, file2, w2, n2, full2, last2 :
            /\ U = Text' /\ U = TextOf(file2, w2, n2, full2, last2)
            /\ file2 = disk' \o stdio' /\ w2 = toWrite' /\ n2 = written' /\ full2 = buffers' /\ last2 = current'
  BY DEF Text, TextOf
<1>1. OrderInv(T, lost, lines) /\ (OrderInv(U, lost', lines') => LinesInOrder')
  <2>1. OrderInv(T, lost, lines)
    BY <1>t, InOrder
  <2>2. OrderInv(U, lost', lines') <=> LinesInOrder'
    BY <1>u DEF LinesInOrder, OrderInv, Ordered, Increasing, AllBefore, Has
  <2> QED
    BY <2>1, <2>2
<1>2. /\ AreParts(T) /\ Consists(T, file, w, n, full, last)
      /\ Len(w) - n \in Nat /\ Len(full) \in Nat
      /\ \A a \in 1..Len(T) : ToSet(T[a]) \subseteq Lines \union {Notice}
  <2>1. file \in Seq(Lines \union {Notice})
    BY <1>t DEF TypeOK, FileTypeOK
  <2> QED
    BY <1>t, <2>1, TextTyped DEF TypeOK, BuffersTypeOK
<1>3. AreParts(U) /\ Consists(U, file2, w2, n2, full2, last2)
  <2>1. file2 \in Seq(Lines \union {Notice})
    BY <1>u DEF TypeOK, FileTypeOK
  <2> QED
    BY <1>u, <2>1, TextTyped DEF TypeOK, BuffersTypeOK
<1> DEFINE D == Lines \union {Notice}
<1>4. /\ disk \in Seq(D) /\ stdio \in Seq(D) /\ LogFileTypeOK
      /\ w \in Seq(LargeBuffer) /\ n \in Nat /\ Len(w) \in Nat
      /\ full \in Seq(LargeBuffer) /\ last \in LargeBuffer /\ n <= Len(w)
  BY <1>t DEF TypeOK, FileTypeOK, BuffersTypeOK
<1>5. ASSUME U = T, UNCHANGED <<lost, lines>>
      PROVE  LinesInOrder'
  BY <1>1, <1>5
<1>6. CASE Start \/ Stop \/ Join \/ OpenFile \/ TestRunning \/ Wait \/ Clock \/ UNCHANGED vars
  <2>1. UNCHANGED <<frontVars, toWrite, written, lost>>
    BY <1>6 DEF Start, Stop, Join, Clock, OpenFile, TestRunning, Wait, vars, backVars
  <2>2. disk' \o stdio' = disk \o stdio
    <3>1. CASE UNCHANGED <<disk, stdio>>
      BY <3>1
    <3>2. CASE OpenFile
      BY <1>4, <3>2, Opens DEF OpenFile, BackInv
    <3>3. CASE TestRunning /\ Flush
      BY <1>4, <3>3, Flushes DEF TestRunning
    <3> QED
      BY <1>6, <3>1, <3>2, <3>3 DEF Start, Stop, Join, Clock, TestRunning, Wait, vars, fileVars
  <2>3. U = T
    BY <1>t, <1>u, <2>1, <2>2 DEF Text, frontVars
  <2> QED
    BY <1>5, <2>1, <2>3 DEF frontVars
<1>7. CASE Refill
  <2>2. disk' \o stdio' = disk \o stdio
    BY <1>4, <1>7, Flushes DEF Refill
  <2>1. UNCHANGED <<frontVars, lost>> /\ toWrite' = <<>> /\ written' = 0 /\ written = Len(toWrite)
    BY <1>7 DEF Refill, BackInv
  <2>3. SubSeq(toWrite, written + 1, Len(toWrite)) = <<>> /\ SubSeq(toWrite', written' + 1, Len(toWrite')) = <<>>
    BY <2>1 DEF TypeOK, BuffersTypeOK
  <2>4. U = T
    BY <1>t, <1>u, <2>1, <2>2, <2>3 DEF Text, frontVars
  <2> QED
    BY <1>5, <2>1, <2>4 DEF frontVars
<1>8. CASE AppendLine
  <2>1. /\ lines' = lines + 1 /\ lines \in Nat /\ lines' \in Lines
        /\ UNCHANGED <<disk, stdio, toWrite, written, lost>>
    BY <1>8, AsyncLoggingAssumption DEF AppendLine, backVars, fileVars, Lines, TypeOK, BuffersTypeOK
  <2>2. ASSUME NEW a \in 1..Len(T) PROVE AllBefore(ToSet(T[a]), {lines'})
    <3>1. \A l \in ToSet(T[a]) : l = Notice \/ l \in 1..lines
      BY <1>1, <1>2 DEF OrderInv, Has
    <3> QED
      BY <2>1, <3>1 DEF AllBefore, Before, Notice
  <2>3. ASSUME Ordered(U), \A x : Has(U, x) <=> Has(T, x) \/ x = lines' PROVE LinesInOrder'
    <3>1. OrderInv(U, lost', lines')
      BY <1>1, <2>1, <2>3 DEF OrderInv
    <3> QED
      BY <1>1, <3>1
  <2>4. CASE Len(current) < BufferLines
    <3>1. current' = current \o <<lines'>> /\ buffers' = buffers
      <4>1. current' = Append(current, lines') /\ current \in Seq(Lines) /\ buffers' = buffers
        BY <1>8, <2>4 DEF AppendLine, TypeOK, BuffersTypeOK, LargeBuffer
      <4> QED
        BY <4>1
    <3>2. Consists(U, file, w, n, full, last2) /\ last2 = last \o <<lines'>>
      BY <1>t, <1>u, <1>3, <2>1, <3>1
    <3>3. /\ Len(U) = Len(T) /\ U[Len(T)] = T[Len(T)] \o <<lines'>>
          /\ \A a \in 1..(Len(T) - 1) : U[a] = T[a]
      <4>1. /\ Len(U) = Len(T) /\ T[Len(T)] = last /\ U[Len(T)] = last2
            /\ \A a \in 1..(Len(T) - 1) : U[a] = T[a]
        <5>1. /\ n \in Nat /\ Len(w) \in Nat /\ n <= Len(w) /\ Len(full) \in Nat
              /\ Consists(T, file, w, n, full, last) /\ Consists(U, file, w, n, full, last2)
          BY <1>2, <1>4, <3>2
        <5> QED
          BY <5>1, LineAdded
      <4> QED
        BY <3>2, <4>1
    <3>4. lines' \in Nat /\ Len(T) > 0
      BY <1>2, <1>4, <2>1 DEF Consists
    <3>5. Ordered(T)
      BY <1>1 DEF OrderInv
    <3> QED
      BY <1>2, <1>3, <2>2, <2>3, <3>3, <3>4, <3>5, NewLine
  <2>5. CASE ~(Len(current) < BufferLines)
    <3>1. current' = <<lines'>> /\ buffers' = Append(buffers, current)
      BY <1>8, <2>5 DEF AppendLine
    <3>2. Consists(U, file, w, n, full2, last2) /\ last2 = <<lines'>> /\ full2 = Append(full, last)
      BY <1>t, <1>u, <1>3, <2>1, <3>1
    <3>3. /\ Len(U) = Len(T) + 1 /\ U[Len(U)] = <<lines'>>
          /\ \A a \in 1..Len(T) : U[a] = T[a]
      <4>1. /\ Len(U) = Len(T) + 1 /\ U[Len(U)] = last2
            /\ \A a \in 1..Len(T) : U[a] = T[a]
        <5>1. /\ n \in Nat /\ Len(w) \in Nat /\ n <= Len(w) /\ Len(full) \in Nat
              /\ full \in Seq(LargeBuffer) /\ last \in LargeBuffer /\ full2 = Append(full, last)
              /\ Consists(T, file, w, n, full, last) /\ Consists(U, file, w, n, full2, last2)
          BY <1>2, <1>4, <3>2
        <5> QED
          BY <5>1, BufferFilled
      <4> QED
        BY <3>2, <4>1
    <3>4. ToSet(<<lines'>>) = {lines'} /\ Increasing(<<lines'>>)
      BY DEF ToSet, Increasing
    <3>5. Ordered(T)
      BY <1>1 DEF OrderInv
    <3> QED
      BY <1>2, <1>3, <2>2, <2>3, <3>3, <3>4, <3>5, NewPart
  <2> QED
    BY <2>4, <2>5
<1>9. CASE SwapBuffers
  <2>1. /\ toWrite' = Append(buffers, current) /\ buffers' = <<>> /\ current' = <<>>
        /\ toWrite = <<>> /\ written = 0 /\ written' = 0
        /\ UNCHANGED <<disk, stdio, lines, lost>>
    BY <1>9 DEF SwapBuffers, BackInv, fileVars, TypeOK, BuffersTypeOK
  <2>2. Consists(T, file, <<>>, 0, full, last) /\ Consists(U, file, w2, 0, <<>>, <<>>) /\ w2 = Append(full, last)
    BY <1>t, <1>u, <1>2, <1>3, <2>1
  <2>3. Len(U) = Len(T) + 1 /\ U[Len(U)] = <<>> /\ \A a \in 1..Len(T) : U[a] = T[a]
    BY <1>2, <1>4, <2>2, BuffersTaken, Zenon
  <2>4. Ordered(T)
    BY <1>1 DEF OrderInv
  <2>5. \A a \in 1..Len(T) : AllBefore(ToSet(T[a]), ToSet(<<>>))
    BY NoLine DEF AllBefore
  <2>6. Ordered(U) /\ \A l : Has(U, l) <=> Has(T, l)
    BY <1>2, <1>3, <2>3, <2>4, <2>5, NoLine, NewPart
  <2>7. OrderInv(U, lost', lines')
    BY <1>1, <2>1, <2>6 DEF OrderInv
  <2> QED
    BY <1>1, <2>7
<1>10. CASE WriteBuffer
  <2>1. /\ written < Len(toWrite) /\ written' = written + 1 /\ AppendText(toWrite[written + 1])
        /\ UNCHANGED <<now, toWrite, buffers, current, lines, lost>>
    BY <1>10 DEF WriteBuffer, frontVars
  <2>2. toWrite[written + 1] \in Seq(D)
    <3>1. written + 1 \in 1..Len(toWrite) /\ toWrite \in Seq(LargeBuffer)
      BY <2>1 DEF TypeOK, BuffersTypeOK
    <3>2. toWrite[written + 1] \in Seq(Lines)
      BY <3>1 DEF LargeBuffer
    <3> QED
      BY <3>2, SeqMonotonic
  <2>3. disk' \o stdio' = disk \o stdio \o toWrite[written + 1]
    BY <1>4, <2>1, <2>2, AppendsText
  <2>4. /\ Consists(U, file2, w, n2, full, last) /\ n2 = n + 1 /\ n < Len(w)
        /\ file2 = file \o w[n2]
    BY <1>t, <1>u, <1>3, <2>1, <2>3
  <2>5. /\ Len(T) >= 2 /\ Len(U) = Len(T) - 1 /\ U[1] = T[1] \o T[2]
        /\ \A a \in 2..Len(U) : U[a] = T[a + 1]
    BY <1>2, <1>4, <2>4, BufferGone
  <2>6. Ordered(U) /\ \A l : Has(U, l) <=> Has(T, l)
    BY <1>1, <1>2, <1>3, <2>5, PartWritten DEF OrderInv
  <2>7. OrderInv(U, lost', lines')
    BY <1>1, <2>1, <2>6 DEF OrderInv
  <2> QED
    BY <1>1, <2>7
<1>11. CASE DropBuffers
  <2>1. /\ n = 0 /\ n2 = 0 /\ Len(w) > 2 /\ w2 = SubSeq(w, 1, 2) /\ full2 = full /\ last2 = last
        /\ AppendText(<<Notice>>) /\ UNCHANGED <<now, lines>>
    BY <1>t, <1>u, <1>4, <1>11, AsyncLoggingAssumption DEF DropBuffers, frontVars
  <2>a. PICK d : d = Len(w) - 2
    OBVIOUS
  <2>2. d \in Nat /\ d > 0 /\ Len(w) = d + 2
    BY <1>4, <2>1, <2>a
  <2>3. file2 = file \o <<Notice>>
    <3>1. <<Notice>> \in Seq(D)
      OBVIOUS
    <3> QED
      BY <1>t, <1>u, <1>4, <2>1, <3>1, AppendsText
  <2>5. Consists(T, file, w, 0, full, last) /\ Consists(U, file2, w2, 0, full, last)
    BY <1>2, <1>3, <2>1
  <2>6. /\ Len(T) >= 3 + d /\ Len(U) = Len(T) - d
        /\ U[1] = T[1] \o <<Notice>> /\ U[2] = T[2] /\ U[3] = T[3]
        /\ \A a \in 4..Len(U) : U[a] = T[a + d]
    <3>1. Len(w2) = 2 /\ w2[1] = w[1] /\ w2[2] = w[2]
      BY <1>4, <2>1
    <3>2. /\ n = 0 /\ Len(full) \in Nat /\ FirstTwo(w2, w, d)
          /\ Consists(T, file, w, n, full, last) /\ Consists(U, file2, w2, n, full, last)
      BY <1>2, <1>3, <2>1, <2>2, <3>1 DEF FirstTwo
    <3>3. /\ Len(T) >= 3 + d /\ Len(U) = Len(T) - d /\ T[1] = file /\ U[1] = file2 /\ U[2] = T[2] /\ U[3] = T[3]
          /\ \A a \in 4..Len(U) : U[a] = T[a + d]
      BY <3>2, BuffersGone
    <3> QED
      BY <2>3, <3>3
  <2>7. \A a \in 4..(3 + d) : a \in 1..Len(T) /\ a - 1 \in 3..Len(w) /\ T[a] = w[a - 1]
    BY <1>2, <1>4, <2>2, <2>5 DEF Consists
  <2>8. /\ Ordered(U)
        /\ \A l : Has(U, l) => Has(T, l) \/ l = Notice
        /\ \A l : Has(T, l) => Has(U, l) \/ \E a \in 4..(3 + d) : l \in ToSet(T[a])
        /\ \A l : Has(U, l) /\ l # Notice => \A a \in 4..(3 + d) : l \notin ToSet(T[a])
    <3>1. Ordered(T)
      BY <1>1 DEF OrderInv
    <3> QED
      BY <1>2, <1>3, <2>2, <2>6, <3>1, PartsDropped, Zenon
  <2>9. \A l : l \in lost' <=> l \in lost \/ \E a \in 4..(3 + d) : l \in ToSet(T[a])
    <3>1. \A l : l \in lost' <=> l \in lost \/ \E i \in 3..Len(w) : l \in ToSet(w[i])
      BY <1>t, <1>11 DEF DropBuffers
    <3>2. ASSUME NEW i \in 3..Len(w) PROVE i + 1 \in 4..(3 + d) /\ T[i + 1] = w[i]
      <4>1. i + 1 \in 4..(3 + d) /\ (i + 1) - 1 = i
        BY <1>4, <2>2
      <4> QED
        BY <2>7, <4>1
    <3> QED
      BY <2>7, <3>1, <3>2
  <2>10. \A a \in 4..(3 + d) : ToSet(T[a]) \subseteq Lines
    <3>1. \A b \in LargeBuffer : ToSet(b) \subseteq Lines
      BY DEF LargeBuffer, ToSet
    <3> QED
      BY <1>4, <2>7, <3>1
  <2>11. Notice \notin Lines
    BY DEF Notice, Lines
  <2>12. lost' \subseteq 1..lines'
    BY <1>1, <2>1, <2>7, <2>9, <2>10 DEF OrderInv, Has
  <2>13. ASSUME NEW l \in Lines PROVE Has(U, l) <=> l \in (1..lines') \ lost'
    <3>1. Has(T, l) <=> l \in (1..lines) \ lost
      BY <1>1 DEF OrderInv
    <3>2. l # Notice /\ lines' = lines
      BY <2>1, <2>11
    <3>3. (\E a \in 4..(3 + d) : l \in ToSet(T[a])) => Has(T, l)
      BY <2>7 DEF Has
    <3> QED
      BY <2>8, <2>9, <3>1, <3>2, <3>3
  <2>14. OrderInv(U, lost', lines')
    BY <2>8, <2>12, <2>13 DEF OrderInv
  <2> QED
    BY <1>1, <2>14
<1> QED
  BY <1>6, <1>7, <1>8, <1>9, <1>10, <1>11 DEF Next, BackStep

-----------------------------------------------------------------------------
(* The theorems.                                                           *)

LEMMA InitIInv == Init => IInv
<1> SUFFICES ASSUME Init PROVE IInv
  OBVIOUS
<1> USE LogFileAssumption, AsyncLoggingAssumption DEF Init
<1>1. disk = <<>> /\ stdio = <<>> /\ LogFileTypeOK /\ ClockInv /\ OverrunsOnlyAtFirst
  BY DEF LogFileInit, LogFileTypeOK, ClockInv, OverrunsOnlyAtFirst
<1>2. TypeOK
  <2>1. FileTypeOK
    BY <1>1 DEF FileTypeOK
  <2>2. <<>> \in LargeBuffer
    BY DEF LargeBuffer
  <2>3. BuffersTypeOK
    BY <2>2 DEF BuffersTypeOK
  <2> QED
    BY <2>1, <2>3 DEF TypeOK, ControlTypeOK
<1>3. FrontInv /\ BackInv
  BY <1>1 DEF FrontInv, BackInv
<1>4. LinesInOrder
  <2>1. PICK T, file, w, n, full, last :
            /\ T = Text /\ T = TextOf(file, w, n, full, last)
            /\ file = disk \o stdio /\ w = toWrite /\ n = written /\ full = buffers /\ last = current
    BY DEF Text, TextOf
  <2>2. Len(T) = 2 /\ \A a \in 1..Len(T) : T[a] = <<>>
    <3>1. file \in Seq(Lines \union {Notice})
      BY <1>2, <2>1 DEF TypeOK, FileTypeOK
    <3>2. Consists(T, file, w, n, full, last)
      BY <1>2, <2>1, <3>1, TextTyped DEF TypeOK, BuffersTypeOK
    <3>3. file = <<>> /\ last = <<>> /\ Len(w) = 0 /\ n = 0 /\ Len(full) = 0
      BY <1>1, <2>1
    <3>4. Len(T) = 2 /\ T[1] = <<>> /\ T[2] = <<>>
      BY <3>2, <3>3 DEF Consists
    <3> QED
      BY <3>4
  <2>4. Ordered(Text) /\ \A l : ~Has(Text, l)
    <3>1. Ordered(T) /\ \A l : ~Has(T, l)
      BY <2>2, NoLine DEF Ordered, AllBefore, Has
    <3> QED
      BY <2>1, <3>1
  <2>5. lost \subseteq 1..lines /\ 1..lines = {}
    OBVIOUS
  <2>6. OrderInv(Text, lost, lines)
    BY <2>4, <2>5 DEF OrderInv
  <2> QED
    BY <2>6, InOrder
<1> QED
  BY <1>1, <1>2, <1>3, <1>4 DEF IInv

LEMMA StepIInv == IInv /\ [Next]_vars => IInv'
<1> SUFFICES ASSUME IInv, [Next]_vars PROVE IInv'
  OBVIOUS
<1>1. TypeOK /\ ClockInv /\ FrontInv /\ BackInv /\ OverrunsOnlyAtFirst /\ LinesInOrder
  BY DEF IInv
<1>2. FileTypeOK' /\ ClockInv' /\ OverrunsOnlyAtFirst' /\ (back' \notin {"write", "refill"} => stdio' = <<>>)
  BY <1>1, FileKept
<1>3. ControlTypeOK' /\ BuffersTypeOK'
  BY <1>1, ControlKept, BuffersKept DEF TypeOK
<1>4. FrontInv' /\ BackInv'
  BY <1>1, <1>2, RoundKept DEF TypeOK
<1>5. TypeOK'
  BY <1>2, <1>3 DEF TypeOK
<1>6. LinesInOrder'
  BY <1>1, <1>5, OrderKept
<1> QED
  BY <1>2, <1>4, <1>5, <1>6 DEF IInv

\* The inductive invariant.
THEOREM Invariance == Spec => []IInv
  BY InitIInv, StepIInv, PTL DEF Spec

\* No line is doubled, overtaken or lost, but for the ones that the limit of the buffers
\* to write drops, whose set is right: append(), threadFunc() and LogFile.
THEOREM LinesStayInOrder == Spec => []LinesInOrder
<1>1. IInv => LinesInOrder
  BY DEF IInv
<1> QED
  BY <1>1, Invariance, PTL

\* There are always buffers to get back after the writing, which is flushed before the
\* thread waits again: the assertions of threadFunc().
THEOREM BuffersAlwaysGoRound == Spec => []BuffersGoRound
<1>1. IInv => BuffersGoRound
  <2> SUFFICES ASSUME IInv PROVE BuffersGoRound
    OBVIOUS
  <2>1. TypeOK /\ BackInv
    BY DEF IInv
  <2>2. BuffersComeBack
    <3>1. back \in {"test", "lock", "wait", "swap"} => back \notin {"write", "refill"}
      OBVIOUS
    <3>2. Len(toWrite) \in Nat
      BY <2>1 DEF TypeOK, BuffersTypeOK
    <3> QED
      BY <2>1, <3>1, <3>2 DEF BuffersComeBack, BackInv
  <2>3. FlushedBeforeWait
    BY <2>1 DEF FlushedBeforeWait, BackInv
  <2> QED
    BY <2>1, <2>2, <2>3 DEF BuffersGoRound
<1> QED
  BY <1>1, Invariance, PTL

\* A file outgrows the size to roll at only in the second in which it was opened: rollFile()
\* does nothing twice in a second.
THEOREM FilesOverrunOnlyAtFirst == Spec => []OverrunsOnlyAtFirst
<1>1. IInv => OverrunsOnlyAtFirst
  BY DEF IInv
<1> QED
  BY <1>1, Invariance, PTL

=============================================================================
