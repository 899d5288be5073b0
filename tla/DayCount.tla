------------------------------ MODULE DayCount ------------------------------
(***************************************************************************)
(* Year fractions.  A year fraction is an exact ratio <<num, den>>: every  *)
(* convention divides whole numbers of days, so nothing is lost.           *)
(***************************************************************************)
EXTENDS Dates

Conventions == {"ACT_360", "ACT_365F", "ACT_ACT_ISDA", "ACT_ACT_ICMA",
                "THIRTY_360_BOND", "THIRTY_E_360"}

\* Ratios of one convention have one denominator.
Plus(q, r)   == <<q[1] + r[1], q[2]>>
AtMost(q, r) == q[1] <= r[1]

\* No fraction: the convention could not be applied.
Refused(st) == [status |-> st, yf |-> <<0, 1>>]
Fraction(n, d) == [status |-> "OK", yf |-> <<n, d>>]

NoPeriod == [start |-> 0, end |-> 0, frequency |-> 0]
ValidPeriod(p) == p.end > p.start /\ p.frequency > 0

\* Days between two dates when every month has thirty: d1 and d2 are their
\* days of the month after the convention's clamping.
Thirty(a, b, d1, d2) ==
  360 * (b.year - a.year) + 30 * (b.month - a.month) + (d2 - d1)

Thirty360Bond(start, end) ==
  LET a == Civil(start)  b == Civil(end)
      d1 == IF a.day = 31 THEN 30 ELSE a.day
      d2 == IF b.day = 31 /\ d1 = 30 THEN 30 ELSE b.day
  IN  <<Thirty(a, b, d1, d2), 360>>

\* Mutant of ThirtyE360: only the second date is clamped.
ThirtyE360End(start, end) ==
  LET a == Civil(start)  b == Civil(end)
  IN  <<Thirty(a, b, a.day, IF b.day = 31 THEN 30 ELSE b.day), 360>>

ThirtyE360(start, end) ==
  LET a == Civil(start)  b == Civil(end)
  IN  <<Thirty(a, b, IF a.day = 31 THEN 30 ELSE a.day,
                     IF b.day = 31 THEN 30 ELSE b.day), 360>>

\* The whole years between, and what is left at each end over the length of
\* the year it falls in.  Lengths are 365 or 366: one denominator serves.
InYear(n, y) == n * (731 - DaysInYear(y))
IsdaForward(start, end) ==
  LET y1 == Civil(start).year  y2 == Civil(end).year
      head == DaysFromCivil(y1 + 1, 1, 1) - start
      tail == end - DaysFromCivil(y2, 1, 1)
  IN  IF y1 = y2 THEN <<InYear(end - start, y1), 365 * 366>>
      ELSE <<InYear(head, y1) + InYear(tail, y2) + (y2 - y1 - 1) * 365 * 366,
             365 * 366>>

\* Mutant of ActActIsda: the tail is measured over the first year's length.
ActActIsdaHead(start, end) ==
  LET y1 == Civil(start).year  y2 == Civil(end).year
  IN  <<InYear(DaysFromCivil(y1 + 1, 1, 1) - start
                 + end - DaysFromCivil(y2, 1, 1), y1)
          + (y2 - y1 - 1) * 365 * 366, 365 * 366>>

ActActIsda(start, end) ==
  IF end < start
    THEN LET q == IsdaForward(end, start) IN <<-q[1], q[2]>>
    ELSE IsdaForward(start, end)

\* Over the length of the coupon period the accrual sits in; an accrual that
\* reaches outside that period is refused.
ActActIcma(start, end, period) ==
  IF ~ValidPeriod(period) THEN Refused("BAD_SCHEDULE")
  ELSE IF start < period.start \/ end > period.end THEN Refused("BAD_SCHEDULE")
  ELSE Fraction(end - start, (period.end - period.start) * period.frequency)

YearFraction(dc, start, end, period) ==
  CASE dc = "ACT_360"         -> Fraction(end - start, 360)
    [] dc = "ACT_365F"        -> Fraction(end - start, 365)
    [] dc = "ACT_ACT_ISDA"    -> [status |-> "OK", yf |-> ActActIsda(start, end)]
    [] dc = "ACT_ACT_ICMA"    -> ActActIcma(start, end, period)
    [] dc = "THIRTY_360_BOND" -> [status |-> "OK", yf |-> Thirty360Bond(start, end)]
    [] dc = "THIRTY_E_360"    -> [status |-> "OK", yf |-> ThirtyE360(start, end)]
    [] OTHER                  -> Refused("UNSUPPORTED")
=============================================================================
