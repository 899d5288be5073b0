---------------------------- MODULE BusinessDays ----------------------------
(***************************************************************************)
(* The queries of Calendar: business days, adjustment and business-day     *)
(* arithmetic over a calendar value cal = [weekend, holidays], a set of    *)
(* weekdays and a set of serial days.  The code walks a day at a time; the *)
(* operators pick the day where its walk stops.                            *)
(***************************************************************************)
EXTENDS Dates, FiniteSets

Weekdays  == 0..6
Adjusting == {"FOLLOWING", "PRECEDING", "MODIFIED_FOLLOWING"}

IsWeekend(cal, d)     == Weekday(d) \in cal.weekend
IsHoliday(cal, d)     == d \in cal.holidays
IsBusinessDay(cal, d) == ~IsWeekend(cal, d) /\ ~IsHoliday(cal, d)

\* How far a walk can go: a week holds a weekday that is no weekend, and each
\* holiday can spoil one week.
Reach(cal) == 7 * (Cardinality(cal.holidays) + 1)

\* The first business day in the walk from d on, and from d back.
Following(cal, d) ==
  CHOOSE e \in d..(d + Reach(cal)) :
    IsBusinessDay(cal, e) /\ \A x \in d..(e - 1) : ~IsBusinessDay(cal, x)
Preceding(cal, d) ==
  CHOOSE e \in (d - Reach(cal))..d :
    IsBusinessDay(cal, e) /\ \A x \in (e + 1)..d : ~IsBusinessDay(cal, x)

\* Following, unless that leaves the month.
ModifiedFollowing(cal, d) ==
  LET e == Following(cal, d)
  IN  IF Civil(e).month # Civil(d).month THEN Preceding(cal, d) ELSE e

\* Mutant of Adjust: modified following falls through to following.
AdjustFollowing(cal, d, bdc) ==
  CASE bdc \in {"FOLLOWING", "MODIFIED_FOLLOWING"} -> Following(cal, d)
    [] bdc = "PRECEDING"                           -> Preceding(cal, d)
    [] OTHER                                       -> d

\* Any convention the code does not know leaves the date alone.
Adjust(cal, d, bdc) ==
  CASE bdc = "FOLLOWING"          -> Following(cal, d)
    [] bdc = "PRECEDING"          -> Preceding(cal, d)
    [] bdc = "MODIFIED_FOLLOWING" -> ModifiedFollowing(cal, d)
    [] OTHER                      -> d

\* Mutant of Advance: the walk tests the day before it moves.
AdvanceFromSelf(cal, d, n) ==
  LET steps == IF n < 0 THEN -n ELSE n
      to[i \in 0..steps] ==
        IF i = 0 THEN d
        ELSE IF n > 0 THEN Following(cal, to[i - 1]) + 1
                      ELSE Preceding(cal, to[i - 1]) - 1
  IN  to[steps]

\* n business days on; 0 leaves even a holiday where it is.
Advance(cal, d, n) ==
  LET steps == IF n < 0 THEN -n ELSE n
      to[i \in 0..steps] ==
        IF i = 0 THEN d
        ELSE IF n > 0 THEN Following(cal, to[i - 1] + 1)
                      ELSE Preceding(cal, to[i - 1] - 1)
  IN  to[steps]

\* Half open: start counts, end does not; negative when end comes first.
BusinessDaysBetween(cal, start, end) ==
  LET count(a, b) == Cardinality({d \in a..(b - 1) : IsBusinessDay(cal, d)})
  IN  IF end < start THEN -count(end, start) ELSE count(start, end)
=============================================================================
