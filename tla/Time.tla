-------------------------------- MODULE Time --------------------------------
(***************************************************************************)
(* Days, one after another, and a calendar in use: what the program        *)
(* computes of a day, and of the day after it.  The days run through       *)
(* windows; on one of the days, Today, the calendar gets its weekends and  *)
(* holidays.                                                               *)
(***************************************************************************)
EXTENDS Calendar, DayCount, Marshal

CONSTANTS Starts,   \* the first day of each window, as a serial
          Today,    \* one of them
          Window,   \* days walked through from each start
          Months,   \* the shifts to try, in months
          Spans     \* the distances to try, in days

ASSUME WalkAssumption ==
  Starts \subseteq Int /\ Window \in Nat /\ Months \subseteq Int /\ Spans \subseteq Int

VARIABLE day

TimeInit == day \in Starts /\ Init

\* The walk leaves a calendar that nobody has touched alone.
Walk == /\ \E s \in Starts : day \in s..(s + Window - 1)
        /\ Init
        /\ day' = day + 1
        /\ UNCHANGED vars

TimeNext == \/ Walk
            \/ day = Today /\ Next /\ UNCHANGED day

TimeSpec == TimeInit /\ [][TimeNext]_<<day, vars>>

------------------------------------------------------------------------------
\* The calendar everybody knows: a day, then the next one.
Tomorrow(c) ==
  IF c.day < DaysInMonth(c.year, c.month) THEN [c EXCEPT !.day = @ + 1]
  ELSE IF c.month < 12 THEN [c EXCEPT !.day = 1, !.month = @ + 1]
  ELSE [year |-> c.year + 1, month |-> 1, day |-> 1]

\* Serial days and civil dates march in step, from 1 January 1970 on: no day
\* is skipped, repeated or misnamed, and weekdays follow one another.
DaysFollow ==
  [][/\ Civil(day') = Tomorrow(Civil(day))
     /\ Weekday(day') = (Weekday(day) + 1) % 7
     /\ day' = 0 => Civil(day') = [year |-> 1970, month |-> 1, day |-> 1]
                    /\ Weekday(day') = 4]_day

\* The interface's eight digits name exactly one day, and sort as days do.
DatesRoundTrip ==
  LET n == ToYyyymmdd(day)
  IN  ValidYyyymmdd(n) /\ FromYyyymmdd(n) = day /\ n < ToYyyymmdd(day + 1)

\* A shift by n months lands in the n-th next month, on the same day or on the
\* month's last one, and never overtakes the shift of the day before; with the
\* end-of-month rule, month ends go to month ends.
MonthShift ==
  \A n \in Months :
    LET c == Civil(day)  s == AddMonths(day, n)  d == Civil(s)
    IN  /\ d.year * 12 + d.month = c.year * 12 + c.month + n
        /\ d.day = c.day \/ (d.day < c.day /\ IsEndOfMonth(s))
        /\ AddMonths(day - 1, n) <= s
        /\ IsEndOfMonth(day) => IsEndOfMonth(ShiftMonths(day, n, TRUE))

\* ACT/ACT ISDA is additive: splitting a range anywhere, across years of
\* different lengths or backwards, loses nothing.
IsdaAdditive ==
  \A s, t \in Spans :
    Plus(ActActIsda(day, day + s), ActActIsda(day + s, day + t))
      = ActActIsda(day, day + t)

\* No convention gives interest for going backwards, or takes it away for
\* waiting a day: whatever the month lengths, a later end is worth no less.
FractionsGrow ==
  \A dc \in Conventions \ {"ACT_ACT_ICMA"}, s \in Spans :
    LET f(e) == YearFraction(dc, day, day + e, NoPeriod).yf
    IN  s >= 0 => f(s)[1] >= 0 /\ AtMost(f(s), f(s + 1))

\* The day Excel shows for a serial.  Its first, 1, is 1 January 1900; its
\* 60 is a day that never was; from 61 on it agrees with the calendar.
ExcelDay(n) == IF n >= 61 THEN n - 25569 ELSE n - 25568

\* A date means the same on both sides of the Excel border: typed as a text, as
\* eight digits or as the serial Excel stores, a day is the library's day, and
\* a serial that cannot be converted gives no date rather than another one.
SerialsAgree ==
  LET c == Civil(day)  n == day + 25569  digits == ToYyyymmdd(day)
  IN  /\ DateOfCell(Text(c.year, c.month, c.day)) = digits
      /\ DateOfCell(Number(digits)) = digits
      /\ digits >= 19000301 => DateOfCell(Number(n)) = digits
      /\ n \in 1..59 => DateOfCell(Number(n)) \in {0, ToYyyymmdd(ExcelDay(n))}
      /\ n < 1 \/ n > 2958465 \/ n = 60 => DateOfCell(Number(n)) = 0
=============================================================================
