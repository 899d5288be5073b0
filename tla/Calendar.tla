------------------------------ MODULE Calendar ------------------------------
(***************************************************************************)
(* A fir_calendar_t and the two calls that change it.  Duplicates and      *)
(* order in the holiday array do not survive normalisation, so the array   *)
(* is a set, with BadDate in it if some entry is no date.                  *)
(***************************************************************************)
EXTENDS BusinessDays

CONSTANTS
  HolidayLists,  \* the arrays the caller passes: sets of serials and BadDate
  Masks,         \* the weekend masks the caller passes
  BadDate,       \* an array entry that is not a valid YYYYMMDD
  NullDates,     \* a null array with a count that is not zero
  BadMask,       \* a mask outside 0..0x7f
  Days,          \* the days the queries are asked about
  Steps          \* the numbers of business days to advance by

ASSUME ListsAssumption ==
  \A S \in HolidayLists \ {NullDates} :
    S \ {BadDate} \subseteq Int /\ IsFiniteSet(S)
ASSUME MasksAssumption == \A m \in Masks \ {BadMask} : m \subseteq Weekdays
ASSUME DaysAssumption == Days \subseteq Int
ASSUME StepsAssumption == Steps \subseteq Int

VARIABLES
  cal,     \* the calendar: [weekend, holidays]
  given,   \* the holidays the caller last supplied (not in the code)
  status   \* what the latest call returned

vars == <<cal, given, status>>

SaturdaySunday == {0, 6}

Init ==
  /\ cal = [weekend |-> SaturdaySunday, holidays |-> {}]
  /\ given = {}
  /\ status = "OK"

\* Mutant of SetHolidays: the list is taken entry by entry, so the entries
\* before a bad one stay.
SetHolidaysPartly(S) ==
  /\ status' = IF S = NullDates THEN "NULL_ARG"
               ELSE IF BadDate \in S THEN "BAD_DATE" ELSE "OK"
  /\ IF S = NullDates THEN UNCHANGED <<cal, given>>
     ELSE /\ cal' = [cal EXCEPT !.holidays =
                       {d \in S \ {BadDate} : ~IsWeekend(cal, d)}]
          /\ given' = IF BadDate \in S THEN given ELSE S

\* The whole list replaces the previous one, or nothing changes.  Entries on
\* a weekend, as the weekend is now, are dropped.
SetHolidays(S) ==
  \/ /\ S = NullDates
     /\ status' = "NULL_ARG"
     /\ UNCHANGED <<cal, given>>
  \/ /\ S # NullDates /\ BadDate \in S
     /\ status' = "BAD_DATE"
     /\ UNCHANGED <<cal, given>>
  \/ /\ S # NullDates /\ BadDate \notin S
     /\ cal' = [cal EXCEPT !.holidays = {d \in S : ~IsWeekend(cal, d)}]
     /\ given' = S
     /\ status' = "OK"

\* Mutant of SetWeekend: a week of seven weekend days is accepted.
SetWeekendAny(m) ==
  /\ status' = IF m = BadMask THEN "BAD_ARG" ELSE "OK"
  /\ cal' = IF m = BadMask THEN cal ELSE [cal EXCEPT !.weekend = m]
  /\ UNCHANGED given

SetWeekend(m) ==
  \/ /\ m = BadMask \/ m = Weekdays
     /\ status' = "BAD_ARG"
     /\ UNCHANGED <<cal, given>>
  \/ /\ m # BadMask /\ m # Weekdays
     /\ cal' = [cal EXCEPT !.weekend = m]
     /\ status' = "OK"
     /\ UNCHANGED given

Next == \/ \E S \in HolidayLists : SetHolidays(S)
        \/ \E m \in Masks : SetWeekend(m)

Spec == Init /\ [][Next]_vars

------------------------------------------------------------------------------
TypeOK ==
  /\ cal \in [weekend : SUBSET Weekdays, holidays : SUBSET Int]
  /\ cal.weekend # Weekdays
  /\ IsFiniteSet(cal.holidays)
  /\ IsFiniteSet(given)
  /\ status \in {"OK", "NULL_ARG", "BAD_DATE", "BAD_ARG"}

\* Some weekday is always a business day, so every walk of following(),
\* preceding() and advance() ends, within a week for each holiday and one more.
WalksEnd ==
  \A d \in Days :
    /\ \E e \in d..(d + Reach(cal)) : IsBusinessDay(cal, e)
    /\ \E e \in (d - Reach(cal))..d : IsBusinessDay(cal, e)

\* Adjustment lands on a business day and never reorders dates: a schedule's
\* payments stay in order under every convention.  Modified following stays in
\* the month, unless the month has no business day after or before the date.
AdjustOrders ==
  \A bdc \in Adjusting :
    /\ \A d \in Days : IsBusinessDay(cal, Adjust(cal, d, bdc))
    /\ \A d \in Days : Adjust(cal, d, bdc) <= Adjust(cal, d + 1, bdc)
    /\ \A d \in Days :
         LET month == Civil(d).month
         IN  bdc = "MODIFIED_FOLLOWING"
               /\ (\E e \in (d - 31)..(d + 31) :
                     Civil(e).month = month /\ IsBusinessDay(cal, e))
             => Civil(Adjust(cal, d, bdc)).month = month

\* advance and business_days_between are each other's inverse from a business
\* day on, forward and backward, and advancing back returns.
AdvanceCounts ==
  \A d \in Days, n \in Steps :
    IsBusinessDay(cal, d) =>
      LET e == Advance(cal, d, n)
      IN  /\ IsBusinessDay(cal, e)
          /\ BusinessDaysBetween(cal, d, e) = n
          /\ Advance(cal, e, -n) = d

\* A call that is refused changes nothing, and an accepted list decides every
\* day as the caller's own list would, though entries were dropped from it.
HolidaysApplied ==
  [][/\ status' # "OK" => cal' = cal
     /\ given' # given =>
          /\ cal'.weekend = cal.weekend
          /\ \A d \in given \cup given' \cup cal.holidays :
               IsBusinessDay(cal', d) <=> ~IsWeekend(cal', d) /\ d \notin given']_vars

\* "A holiday already falling on a weekend ... can never change an answer."
\* At any time, what the caller listed is no business day.
HolidaysKept == \A d \in given : ~IsBusinessDay(cal, d)
=============================================================================
