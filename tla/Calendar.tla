------------------------------- MODULE Calendar -------------------------------
(***************************************************************************)
(* Date, Timestamp and TimeZone: days to and from their Julian number,     *)
(* seconds to and from the parts of a UTC time, and local time by the      *)
(* transitions of a time zone.                                             *)
(***************************************************************************)
EXTENDS Integers, Sequences, FiniteSets, SequencesExt

kSecondsPerDay == 24 * 60 * 60
kDaysPerWeek == 7

\* C++ divides towards zero.
Quotient(a, b) == IF a >= 0 \/ a % b = 0 THEN a \div b ELSE a \div b + 1
Remainder(a, b) == a - b * Quotient(a, b)

-----------------------------------------------------------------------------
(* Date.                                                                   *)

GetJulianDayNumber(year, month, day) ==
    LET a == (14 - month) \div 12
        y == year + 4800 - a
        m == month + 12 * a - 3
    IN  day + (153 * m + 2) \div 5 + y * 365 + y \div 4 - y \div 100 + y \div 400 - 32045

GetYearMonthDay(julianDayNumber) ==
    LET a == julianDayNumber + 32044
        b == (4 * a + 3) \div 146097
        c == a - (b * 146097) \div 4
        d == (4 * c + 3) \div 1461
        e == c - (1461 * d) \div 4
        m == (5 * e + 2) \div 153
    IN  [year  |-> b * 100 + d - 4800 + m \div 10,
         month |-> m + 3 - 12 * (m \div 10),
         day   |-> e - (153 * m + 2) \div 5 + 1]

kJulianDayOf1970_01_01 == GetJulianDayNumber(1970, 1, 1)

WeekDay(julianDayNumber) == (julianDayNumber + 1) % kDaysPerWeek

-----------------------------------------------------------------------------
(* Seconds since the epoch and the parts of a time.  yday is always there. *)

FillHMS(seconds) ==
    [hour |-> seconds \div 3600, min |-> (seconds \div 60) % 60, sec |-> seconds % 60]

\* toUtcTime(); a time before the epoch has a negative remainder.
ToUtcTime(secondsSinceEpoch) ==
    LET remainder == Remainder(secondsSinceEpoch, kSecondsPerDay)
        quotient  == Quotient(secondsSinceEpoch, kSecondsPerDay)
        seconds   == IF remainder < 0 THEN remainder + kSecondsPerDay ELSE remainder
        days      == IF remainder < 0 THEN quotient - 1 ELSE quotient
        date      == days + kJulianDayOf1970_01_01
        ymd       == GetYearMonthDay(date)
    IN  ymd @@ FillHMS(seconds)
            @@ [wday |-> WeekDay(date), yday |-> date - GetJulianDayNumber(ymd.year, 1, 1)]

FromUtcTime(tm) ==
    (GetJulianDayNumber(tm.year, tm.month, tm.day) - kJulianDayOf1970_01_01) * kSecondsPerDay
        + tm.hour * 3600 + tm.min * 60 + tm.sec

-----------------------------------------------------------------------------
(* TimeZone.                                                               *)

\* TimeZone(eastOfUtc, name)
FixedZone(eastOfUtc) ==
    [transitions |-> <<>>, localtimes |-> <<[gmtOffset |-> eastOfUtc, isDst |-> FALSE]>>]

\* readTimeZoneFile(): of a file with its transition times, their local times (counted
\* from 1) and the local times, of which `got' were read before the file ended.  It
\* returns true whatever happened: of a file that is missing or no zone's, got is 0.
ReadTimeZoneFile(file, got) ==
    [localtimes  |-> SubSeq(file.localtimes, 1, got),
     transitions |->
        IF got < Len(file.localtimes) THEN <<>>
        ELSE [i \in DOMAIN file.trans |->
                [gmttime      |-> file.trans[i],
                 localtime    |-> file.trans[i] + file.localtimes[file.idx[i]].gmtOffset,
                 localtimeIdx |-> file.idx[i]]]]

\* Comp: transitions are looked for by their gmttime or their localtime.
Compared(transition, by) == transition[by]

\* std::lower_bound() and what follows it.  With no local time there is nothing to
\* point to, and what the caller reads is anything.
FindLocaltime(data, value, by) ==
    LET t == data.transitions
        key(i) == Compared(t[i], by)
        notBefore == {i \in DOMAIN t : key(i) >= value}
        first == CHOOSE i \in notBefore : \A j \in notBefore : i <= j
    IN  IF t = <<>> \/ value < key(1) THEN Head(data.localtimes)
        ELSE IF notBefore = {} THEN data.localtimes[Last(t).localtimeIdx]
        ELSE IF key(first) = value THEN data.localtimes[t[first].localtimeIdx]
        ELSE data.localtimes[t[first - 1].localtimeIdx]

ToLocalTime(data, seconds) ==
    LET local == FindLocaltime(data, seconds, "gmttime")
    IN  ToUtcTime(seconds + local.gmtOffset) @@ [isDst |-> local.isDst, gmtoff |-> local.gmtOffset]

\* fromLocalTime(), with the hour it takes off when the summer time that is asked for
\* has the clock of the winter time that was found.
FromLocalTime(data, tm) ==
    LET seconds == FromUtcTime(tm)
        local   == FindLocaltime(data, seconds, "localtime")
        try     == ToLocalTime(data, seconds - local.gmtOffset)
        hack    == tm.isDst /\ ~try.isDst /\ try.hour = tm.hour /\ try.min = tm.min
    IN  (IF hack THEN seconds - 3600 ELSE seconds) - local.gmtOffset

-----------------------------------------------------------------------------
(* Timestamp, in microseconds of which MicroSecondsPerSecond make a second.*)

CONSTANT MicroSecondsPerSecond      \* kMicroSecondsPerSecond, 1000000 in the code

\* fromUnixTime(), secondsSinceEpoch(), and the rest that toString() and
\* toFormattedString() show.
FromUnixTime(t, microseconds) == t * MicroSecondsPerSecond + microseconds
SecondsSinceEpoch(timestamp) == Quotient(timestamp, MicroSecondsPerSecond)
MicroSeconds(timestamp) == Remainder(timestamp, MicroSecondsPerSecond)

-----------------------------------------------------------------------------
(* Properties.                                                             *)

\* The calendar by its months.
IsLeap(year) == year % 4 = 0 /\ (year % 100 # 0 \/ year % 400 = 0)
DaysIn(year, month) ==
    IF month = 2 THEN IF IsLeap(year) THEN 29 ELSE 28
    ELSE IF month \in {4, 6, 9, 11} THEN 30 ELSE 31
NextDay(d) ==
    IF d.day < DaysIn(d.year, d.month) THEN [d EXCEPT !.day = @ + 1]
    ELSE IF d.month < 12 THEN [year |-> d.year, month |-> d.month + 1, day |-> 1]
    ELSE [year |-> d.year + 1, month |-> 1, day |-> 1]

\* The Julian day numbers of the years that Date.h names, [1900..2500], follow the
\* calendar, and each leads back to its day; Thursday was the first of 1970.
DatesRight ==
    /\ WeekDay(kJulianDayOf1970_01_01) = 4
    /\ \A year \in 1900..2500, month \in 1..12 : \A day \in {1, 15, DaysIn(year, month)} :
        LET d == [year |-> year, month |-> month, day |-> day]
            j == GetJulianDayNumber(year, month, day)
            n == NextDay(d)
        IN  /\ GetYearMonthDay(j) = d
            /\ GetJulianDayNumber(n.year, n.month, n.day) = j + 1

\* Seconds round the start of the epoch and to the ends of a 32-bit integer.
SampleSeconds ==
    {kSecondsPerDay * n + s : n \in (-800..800) \union {-24000, 24000}, s \in {-1, 0, 1, 43199}}

\* Each second is a time of a day, and the time leads back to it.
UtcRight ==
    \A s \in SampleSeconds :
        LET tm == ToUtcTime(s)
        IN  /\ FromUtcTime(tm) = s
            /\ tm.hour \in 0..23 /\ tm.min \in 0..59 /\ tm.sec \in 0..59
            /\ tm.wday \in 0..6 /\ tm.yday \in 0..365

\* A zone an hour east of UTC with two summers, as its file has it.
SummerZone ==
    LET hour == 3600
        file == [localtimes |-> <<[gmtOffset |-> hour, isDst |-> FALSE], [gmtOffset |-> 2 * hour, isDst |-> TRUE]>>,
                 trans |-> <<100 * kSecondsPerDay, 300 * kSecondsPerDay, 465 * kSecondsPerDay, 665 * kSecondsPerDay>>,
                 idx   |-> <<2, 1, 2, 1>>]
    IN  ReadTimeZoneFile(file, 2)

\* Local time leads back to the second it was made of, also where the clock is put
\* forward or back by an hour.
ZonesRight ==
    \A zone \in {SummerZone, FixedZone(28800), FixedZone(-12600)} :
        \A day \in {0, 99, 100, 101, 299, 300, 301, 464, 465, 664, 665, 666}, half \in -9..9 :
            LET s == day * kSecondsPerDay + half * 1800
            IN  FromLocalTime(zone, ToLocalTime(zone, s)) = s

CalendarRight == DatesRight /\ UtcRight /\ ZonesRight

=============================================================================
