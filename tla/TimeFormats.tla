------------------------------ MODULE TimeFormats ------------------------------
(***************************************************************************)
(* The formats of time: TAI seconds since the epoch, UTC dates and the     *)
(* CCSDS unsegmented code (TimeStamp, UTCTimestamp, Time.hpp).             *)
(*                                                                         *)
(* A clock counts seconds and is shown as a date; durations are added to   *)
(* both. Its time is sent with a header that says how many bytes it has,   *)
(* and received by one that keeps as many bytes or more. A counter is the  *)
(* sequence of its bytes, most significant first: those of the seconds and *)
(* those of the fraction of a second.                                      *)
(*                                                                         *)
(* Minutes, hours and days may be given fewer seconds than they have, so   *)
(* that many years fit the integers of TLC; years and months are those of  *)
(* the code. Units other than the second are left out, and so is what is   *)
(* done in floating point.                                                 *)
(***************************************************************************)
EXTENDS Integers, Sequences, FiniteSetsExt

CONSTANTS
  SecondsPerMinute, SecondsPerHour, SecondsPerDay,
  StartYears,           \* the years the clock may start in
  Durations,            \* the durations added, in seconds
  MaxAdditions,         \* bound on how many
  Fraction,             \* the bytes of a fraction of a second, as many as there may be
  Formats               \* the numbers of bytes used: [base, fraction]

CUCTimestampMaximumSize == 9
ByteValues == 256

\* The year and the day the epoch starts with.
Epoch == [year |-> 2020, month |-> 1, day |-> 1, hour |-> 0, minute |-> 0, second |-> 0]

DaysOfMonth == << 31, 28, 31, 30, 31, 30, 31, 31, 30, 31, 30, 31 >>
MonthsPerYear == Len(DaysOfMonth)

ASSUME ClockAssumption ==
  /\ { SecondsPerMinute, SecondsPerHour, SecondsPerDay } \subseteq Nat \ {0}
  /\ SecondsPerHour % SecondsPerMinute = 0 /\ SecondsPerDay % SecondsPerHour = 0
  /\ StartYears \subseteq Nat /\ \A year \in StartYears : year >= Epoch.year
  /\ Durations \subseteq Nat /\ MaxAdditions \in Nat
  /\ Fraction \in Seq(0 .. ByteValues - 1)
  /\ \A format \in Formats :
       /\ format.base \in 1 .. 7 /\ format.fraction \in 0 .. 6
       /\ format.base + format.fraction <= 8 /\ format.fraction <= Len(Fraction)

VARIABLES
  taiCounter,   \* the seconds of the clock
  date,         \* the date the clock shows
  additions,    \* how many durations were added
  sent,         \* the format the time is sent in and its bytes
  received      \* the format of the receiver and its counter

clockVars == << taiCounter, date, additions, sent, received >>

-----------------------------------------------------------------------------
(* Dates.                                                                  *)

\* A slip for mutation: centuries are like other years.
EveryFourth(year) == year % 4 = 0

IsLeapYear(year) == year % 4 = 0 /\ (year % 100 # 0 \/ year % 400 = 0)

DaysOfYear(year) == IF IsLeapYear(year) THEN 366 ELSE 365

DaysIn(month, year) ==
  IF month = 2 /\ IsLeapYear(year) THEN DaysOfMonth[month] + 1 ELSE DaysOfMonth[month]

\* The days of the years from the epoch up to one.
DaysBeforeYear[year \in Nat] ==
  IF year <= Epoch.year THEN 0 ELSE DaysBeforeYear[year - 1] + DaysOfYear(year - 1)

\* The days of the months up to one of the year or, counted on, of the next year.
DaysBeforeMonth(year) ==
  LET days[month \in Epoch.month .. 2 * MonthsPerYear + 1] ==
        CASE month = Epoch.month -> 0
          [] month - 1 \in Epoch.month .. MonthsPerYear ->
               days[month - 1] + DaysIn(month - 1, year)
          [] OTHER -> days[month - 1] + DaysIn(month - 1 - MonthsPerYear, year + 1)
  IN days

\* TimeStamp(const UTCTimestamp&).
SecondsOf(utc) ==
  LET days == DaysBeforeYear[utc.year] + DaysBeforeMonth(utc.year)[utc.month]
              + (utc.day - Epoch.day)
  IN days * SecondsPerDay + utc.hour * SecondsPerHour + utc.minute * SecondsPerMinute + utc.second

\* Whole years, then whole months, are taken off the duration as long as it has them; the
\* date is at its first moment when it is the epoch, and may be anywhere in its year and
\* month when it is not.
SkipYears(utc, seconds) ==
  LET length(year) == (DaysBeforeYear[year] - DaysBeforeYear[utc.year]) * SecondsPerDay
      next == CHOOSE year \in utc.year .. utc.year + seconds :
                length(year) <= seconds /\ seconds < length(year + 1)
  IN [date |-> [utc EXCEPT !.year = next], seconds |-> seconds - length(next)]

SkipMonths(utc, seconds) ==
  LET before == DaysBeforeMonth(utc.year)
      length(month) == (before[month] - before[utc.month]) * SecondsPerDay
      next == CHOOSE month \in utc.month .. 2 * MonthsPerYear :
                length(month) <= seconds /\ seconds < length(month + 1)
  IN [date |-> IF next <= MonthsPerYear
               THEN [utc EXCEPT !.month = next]
               ELSE [utc EXCEPT !.month = next - MonthsPerYear, !.year = @ + 1],
      seconds |-> seconds - length(next)]

CarrySecond(utc) ==
  IF utc.second > SecondsPerMinute
  THEN [utc EXCEPT !.second = @ - SecondsPerMinute, !.minute = @ + 1]
  ELSE utc

CarryMinute(utc) ==
  IF utc.minute >= SecondsPerHour \div SecondsPerMinute
  THEN [utc EXCEPT !.minute = @ - SecondsPerHour \div SecondsPerMinute, !.hour = @ + 1]
  ELSE utc

CarryHour(utc) ==
  IF utc.hour >= SecondsPerDay \div SecondsPerHour
  THEN [utc EXCEPT !.hour = @ - SecondsPerDay \div SecondsPerHour, !.day = @ + 1]
  ELSE utc

CarryDay(utc) ==
  IF utc.day > DaysIn(utc.month, utc.year)
  THEN [utc EXCEPT !.day = @ - DaysIn(utc.month, utc.year), !.month = @ + 1]
  ELSE utc

CarryMonth(utc) ==
  IF utc.month > MonthsPerYear
  THEN [utc EXCEPT !.month = @ - MonthsPerYear, !.year = @ + 1]
  ELSE utc

\* A slip for mutation: the hours are carried before the minutes that may make one more.
RepairHourFirst(utc) == CarryMonth(CarryDay(CarryMinute(CarryHour(CarrySecond(utc)))))

\* Each field is carried once.
Repair(utc) == CarryMonth(CarryDay(CarryHour(CarryMinute(CarrySecond(utc)))))

\* UTCTimestamp::operator+=.
Plus(utc, duration) ==
  LET years == SkipYears(utc, duration)
      months == SkipMonths(years.date, years.seconds)
      ofDay == months.seconds % SecondsPerDay
      ofHour == ofDay % SecondsPerHour
  IN Repair([months.date EXCEPT
               !.day = @ + months.seconds \div SecondsPerDay,
               !.hour = @ + ofDay \div SecondsPerHour,
               !.minute = @ + ofHour \div SecondsPerMinute,
               !.second = @ + (ofHour % SecondsPerMinute)])

\* UTCTimestamp::operator<: the first field that differs decides.
FieldsOf(utc) == << utc.year, utc.month, utc.day, utc.hour, utc.minute, utc.second >>
Before(utc, other) ==
  \E field \in 1 .. 6 :
    /\ FieldsOf(utc)[field] < FieldsOf(other)[field]
    /\ \A earlier \in 1 .. field - 1 : FieldsOf(utc)[earlier] = FieldsOf(other)[earlier]

ToUTC(seconds) == Plus(Epoch, seconds)

-----------------------------------------------------------------------------
(* The unsegmented code.                                                   *)

\* CUCHeader_t.
HeaderSize(format) == IF format.base < 4 /\ format.fraction < 3 THEN 1 ELSE 2

ShortCUCHeader(base, fraction) == 2 * 16 + (base - 1) * 4 + fraction

LongCUCHeader(base, fraction) ==
  LET base1 == Min({ 4, base })
      fraction1 == Min({ 3, fraction })
  IN (8 * 16 + ShortCUCHeader(base1, fraction1)) * ByteValues
     + 8 * 16 + (base - base1) * 32 + (fraction - fraction1) * 4

CUCHeader(format) ==
  IF format.base <= 4 /\ format.fraction <= 3
  THEN ShortCUCHeader(format.base, format.fraction)
  ELSE LongCUCHeader(format.base, format.fraction)

\* A number without so many of its least significant bytes.
Shifted(number) ==
  LET rest[bytes \in 0 .. CUCTimestampMaximumSize] ==
        IF bytes = 0 THEN number ELSE rest[bytes - 1] \div ByteValues
  IN rest

\* A number in so many bytes.
Bytes(number, size) == [byte \in 1 .. size |-> Shifted(number)[size - byte] % ByteValues]

\* areSecondsValid.
SecondsFit(seconds, format) == Shifted(seconds)[format.base] = 0

CounterOf(seconds, format) == Bytes(seconds, format.base) \o SubSeq(Fraction, 1, format.fraction)

\* The array has a fixed size; the bytes it has left are zero.
Padded(bytes) == bytes \o [byte \in 1 .. CUCTimestampMaximumSize - Len(bytes) |-> 0]

FormatAsCUC(seconds, format) ==
  Padded(Bytes(CUCHeader(format), HeaderSize(format)) \o CounterOf(seconds, format))

Bits(byte, lowest, size) == (byte \div 2^lowest) % 2^size

\* A slip for mutation: the second byte of the header is not asked.
InputOfFirstByte(bytes) ==
  [header |-> 1 + Bits(bytes[1], 7, 1),
   base |-> Bits(bytes[1], 2, 2) + 1,
   fraction |-> Bits(bytes[1], 0, 2)]

\* What the header says of the bytes that follow it.
InputFormat(bytes) ==
  LET more == Bits(bytes[1], 7, 1) = 1
  IN [header |-> IF more THEN 2 ELSE 1,
      base |-> Bits(bytes[1], 2, 2) + 1 + (IF more THEN Bits(bytes[2], 5, 2) ELSE 0),
      fraction |-> Bits(bytes[1], 0, 2) + (IF more THEN Bits(bytes[2], 2, 3) ELSE 0)]

\* What a receiver that is as precise keeps of the bytes.
CounterFrom(bytes, format) ==
  LET input == InputFormat(bytes)
  IN [byte \in 1 .. format.base - input.base |-> 0]
     \o SubSeq(bytes, input.header + 1, input.header + input.base + input.fraction)
     \o [byte \in 1 .. format.fraction - input.fraction |-> 0]

-----------------------------------------------------------------------------
Nothing == << >>

ClockInit ==
  /\ \E year \in StartYears : date = [Epoch EXCEPT !.year = year]
  /\ taiCounter = SecondsOf(date)
  /\ additions = 0
  /\ sent = Nothing /\ received = Nothing

\* TimeStamp::operator+= and UTCTimestamp::operator+=.
Add(duration) ==
  /\ additions < MaxAdditions
  /\ additions' = additions + 1
  /\ taiCounter' = taiCounter + duration
  /\ date' = Plus(date, duration)
  /\ sent' = Nothing /\ received' = Nothing

\* The clock is set to the date of its time stamp.
Convert ==
  /\ date' = ToUTC(taiCounter)
  /\ UNCHANGED << taiCounter, additions, sent, received >>

\* The time is put in the format, unless the seconds are too many, and sent; the format is
\* one the array has room for.
Send(format) ==
  /\ SecondsFit(taiCounter, format)
  /\ HeaderSize(format) + format.base + format.fraction <= CUCTimestampMaximumSize
  /\ sent' = [format |-> format, bytes |-> FormatAsCUC(taiCounter, format)]
  /\ received' = Nothing
  /\ UNCHANGED << taiCounter, date, additions >>

\* A time of more bytes than the receiver has is refused; bytes beyond those the header
\* announces are reported only.
Receive(format) ==
  /\ sent # Nothing
  /\ InputFormat(sent.bytes).base <= format.base
  /\ InputFormat(sent.bytes).fraction <= format.fraction
  /\ received' = [format |-> format, counter |-> CounterFrom(sent.bytes, format)]
  /\ UNCHANGED << taiCounter, date, additions, sent >>

ClockNext ==
  \/ \E duration \in Durations : Add(duration)
  \/ Convert
  \/ \E format \in Formats : Send(format) \/ Receive(format)

ClockSpec == ClockInit /\ [][ClockNext]_clockVars

-----------------------------------------------------------------------------
(* Properties.                                                             *)

\* The days of the Gregorian calendar from the epoch to the start of a year.
LeapDaysBefore(year) == (year - 1) \div 4 - (year - 1) \div 100 + (year - 1) \div 400
DaysToYear(year) ==
  365 * (year - Epoch.year) + LeapDaysBefore(year) - LeapDaysBefore(Epoch.year)

\* The date made of a time stamp is one the calendar has, and the time stamp made of that
\* date is the one it was made of; its year starts where the calendar has it start, whatever
\* leap years and centuries lie between.
ConversionsAgree ==
  LET utc == ToUTC(taiCounter)
  IN /\ utc.month \in 1 .. MonthsPerYear
     /\ utc.day \in 1 .. DaysIn(utc.month, utc.year)
     /\ utc.hour \in 0 .. SecondsPerDay \div SecondsPerHour - 1
     /\ utc.minute \in 0 .. SecondsPerHour \div SecondsPerMinute - 1
     /\ utc.second \in 0 .. SecondsPerMinute - 1
     /\ SecondsOf(utc) = taiCounter
     /\ DaysToYear(utc.year) * SecondsPerDay = SecondsOf([Epoch EXCEPT !.year = utc.year])

\* A date and a time stamp to which the same durations are added, each less than a year,
\* remain the same time, the date is a later one and its time of day one there is.  (Its day
\* may be one its month does not have: a month is carried once, with more days than the next
\* one may have.)
TimeOfDay(utc) ==
  /\ utc.hour < SecondsPerDay \div SecondsPerHour
  /\ utc.minute < SecondsPerHour \div SecondsPerMinute
  /\ utc.second <= SecondsPerMinute

SumsAgree ==
  [][taiCounter' > taiCounter =>
       SecondsOf(date') = taiCounter' /\ Before(date, date') /\ TimeOfDay(date')]_clockVars

\* A receiver gets the time that was sent, at its own precision, when the header has the
\* size of its own format.
ReadableHeader(format) ==
  HeaderSize(format) = IF format.base <= 4 /\ format.fraction <= 3 THEN 1 ELSE 2

ReceivedAsSent ==
  received # Nothing /\ ReadableHeader(sent.format) =>
    received.counter =
      Bytes(taiCounter, received.format.base) \o
      [byte \in 1 .. received.format.fraction |->
         IF byte <= sent.format.fraction THEN Fraction[byte] ELSE 0]
=============================================================================
