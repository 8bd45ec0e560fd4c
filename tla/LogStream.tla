------------------------------- MODULE LogStream -------------------------------
(***************************************************************************)
(* LogStream on a FixedBuffer, in which a piece of text that does not fit  *)
(* is left out as a whole, and the numerals that are made for it.  A       *)
(* buffer is the sequence of its pieces, records with a length len.        *)
(***************************************************************************)
EXTENDS Calendar

CONSTANTS
    kSmallBuffer,       \* SIZE of a LogStream's FixedBuffer
    kMaxNumericSize     \* room that a number is written into

ASSUME LogStreamAssumption == {kSmallBuffer, kMaxNumericSize} \subseteq Nat

Length(buffer) == FoldLeft(LAMBDA n, piece : n + piece.len, 0, buffer)
Avail(buffer) == kSmallBuffer - Length(buffer)

MutPut(buffer, piece) == IF Avail(buffer) >= piece.len THEN Append(buffer, piece) ELSE buffer

\* FixedBuffer::append()
Put(buffer, piece) == IF Avail(buffer) > piece.len THEN Append(buffer, piece) ELSE buffer

\* formatInteger(), and the operators for pointers and floating point numbers.
PutNumber(buffer, piece) ==
    IF Avail(buffer) >= kMaxNumericSize THEN Append(buffer, piece) ELSE buffer

PutAll(buffer, pieces) == FoldLeft(Put, buffer, pieces)

-----------------------------------------------------------------------------
(* Numerals.                                                               *)

\* The loop of convert() and convertHex(): the remainder of a negative number is not
\* positive, and zero[] is the middle of a table that goes both ways.
RECURSIVE DigitsOf(_, _)
DigitsOf(i, base) ==
    LET lsd == Remainder(i, base)
        digit == IF lsd < 0 THEN -lsd ELSE lsd
        rest == Quotient(i, base)
    IN  IF rest = 0 THEN <<digit>> ELSE Append(DigitsOf(rest, base), digit)

Convert(value) == [minus |-> value < 0, digits |-> DigitsOf(value, 10)]
ConvertHex(value) == [minus |-> FALSE, digits |-> DigitsOf(value, 16)]

\* printf() rounds to the nearest; where two are, what n/1e3 and the like are in binary
\* decides, and it may be either.
Nearest(n, unit, scale) ==
    LET below == (n \div unit) * scale + ((n % unit) * scale) \div unit
    IN  {r \in {below, below + 1} :
            LET over == (n % unit) * scale - (r - (n \div unit) * scale) * unit
            IN  2 * over <= unit /\ -2 * over <= unit}

\* A number with so many decimals in a unit, of which the kilo is 1.
Shown(n, unit, power, decimals) ==
    {[value |-> r, decimals |-> decimals, unit |-> power] :
        r \in Nearest(n, unit \div (IF unit % 1000 = 0 THEN 10 ^ decimals ELSE 1),
                      IF unit % 1000 = 0 THEN 1 ELSE 10 ^ decimals)}

\* formatSI(), below 999.5M.
FormatSI(s) ==
    LET kilo == 1000
        unit == IF s < 9995 * (kilo \div 10) THEN kilo ELSE kilo * kilo
        power == IF unit = kilo THEN 1 ELSE 2
    IN  IF s < kilo THEN {[value |-> s, decimals |-> 0, unit |-> 0]}
        ELSE IF s < 9995 * (unit \div 1000) THEN Shown(s, unit, power, 2)
        ELSE IF s < 9995 * (unit \div 100) THEN Shown(s, unit, power, 1)
        ELSE Shown(s, unit, power, 0)

\* formatIEC(), below 1023.5Mi; 1999 / 200 is 9.995.
FormatIEC(s) ==
    LET Ki == 1024
        unit == IF s < 1023 * Ki + Ki \div 2 THEN Ki ELSE Ki * Ki
        power == IF unit = Ki THEN 1 ELSE 2
    IN  IF s < Ki THEN {[value |-> s, decimals |-> 0, unit |-> 0]}
        ELSE IF s <= (1999 * unit) \div 200 THEN Shown(s, unit, power, 2)
        ELSE IF s <= (1999 * unit) \div 20 THEN Shown(s, unit, power, 1)
        ELSE Shown(s, unit, power, 0)

-----------------------------------------------------------------------------
(* Properties.                                                             *)

\* What a reader makes of a numeral.
ValueOf(numeral, base) ==
    FoldLeft(LAMBDA n, d : IF numeral.minus THEN n * base - d ELSE n * base + d, 0, numeral.digits)

SampleNumbers == (-120..120) \union {s * (10 ^ k) + d : s \in {-1, 1}, k \in 3..9, d \in -1..1}
                    \union {2147483647, -2147483647, -2147483647 - 1}

\* Decimals and hexadecimals are read as the number they were made of, the smallest
\* integer too, which has no positive; they do not begin with a zero.
DigitsRight ==
    /\ \A n \in SampleNumbers :
        LET c == Convert(n)
        IN  ValueOf(c, 10) = n /\ (Len(c.digits) > 1 => c.digits[1] # 0)
    /\ \A n \in SampleNumbers \intersect Nat : ValueOf(ConvertHex(n), 16) = n

Characters(f) ==
    Len(DigitsOf(f.value, 10)) + (IF f.decimals > 0 THEN 1 ELSE 0)

SampleQuantities ==
    (0..1100) \union
    UNION {(t - 2)..(t + 2) : t \in {9995, 99950, 999500, 9995000, 99950000, 10234, 102348, 1048064,
                                    10480517, 104805171, 500000000}}

\* formatSI() takes at most 5 characters and formatIEC() 6, the unit included, and from
\* a thousand on three digits are significant, whichever way printf() rounds.
QuantitiesRight ==
    \A s \in SampleQuantities :
        /\ \A f \in FormatSI(s) : Characters(f) <= (IF f.unit = 0 THEN 5 ELSE 4) /\ (s >= 1000 => f.value \in 100..999)
        /\ \A f \in FormatIEC(s) : Characters(f) <= (IF f.unit = 0 THEN 6 ELSE 4)
        /\ FormatSI(s) # {} /\ FormatIEC(s) # {}

NumeralsRight == DigitsRight /\ QuantitiesRight

=============================================================================
