--------------------------- MODULE Calendar_proofs ---------------------------
(***************************************************************************)
(* What calendars, dates and day counts promise, on every day the walk can *)
(* stand on.  The setters keep a calendar in which some weekday is free and*)
(* the holidays are finite; what that is worth, and the arithmetic of days,*)
(* months and years, are lemmas of Dates_proofs.  Here are the digits of a *)
(* date, Excel's serials and the theorems.                                  *)
(***************************************************************************)
EXTENDS Time, Dates_proofs

\* Init and the two calls keep a calendar a weekend and a finite set of days.
LEMMA TypeInit == Init => TypeOK
BY FS_EmptySet DEF Init, TypeOK, SaturdaySunday, Weekdays

LEMMA TypeStep ==
  ASSUME TypeOK, [Next]_vars
  PROVE  TypeOK'
<1> USE DEF TypeOK
<1>1. ASSUME NEW S \in HolidayLists, SetHolidays(S)
      PROVE  TypeOK'
  <2>1. CASE S # NullDates /\ BadDate \notin S
             /\ cal' = [cal EXCEPT !.holidays = {d \in S : ~IsWeekend(cal, d)}]
             /\ given' = S /\ status' = "OK"
    <3> DEFINE H == {d \in S : ~IsWeekend(cal, d)}
    <3>1. S \subseteq Int /\ IsFiniteSet(S)
      BY <2>1, ListsAssumption
    <3>2. H \subseteq Int /\ IsFiniteSet(H)
      BY <3>1, FS_Subset
    <3> QED
      BY <2>1, <3>1, <3>2
  <2> QED
    BY <1>1, <2>1 DEF SetHolidays
<1>2. ASSUME NEW m \in Masks, SetWeekend(m)
      PROVE  TypeOK'
  BY <1>2, MasksAssumption DEF SetWeekend
<1>3. CASE UNCHANGED vars
  BY <1>3 DEF vars
<1> QED
  BY <1>1, <1>2, <1>3 DEF Next

\* The calendar is well typed in every reachable state.
THEOREM CalendarTypeCorrect == Spec => []TypeOK
<1>1. TypeOK /\ [Next]_vars => TypeOK'
  BY TypeStep
<1> QED
  BY <1>1, TypeInit, PTL DEF Spec

LEMMA CalendarIs == TypeOK => IsCalendar(cal)
BY DEF TypeOK, IsCalendar, Weekdays

\* Every walk of the calendar ends, whatever weekends and holidays were set.
THEOREM EveryWalkEnds == Spec => []WalksEnd
<1>1. TypeOK => WalksEnd
  BY CalendarIs, BusinessDayWithinReach, DaysAssumption DEF WalksEnd
<1> QED
  BY <1>1, CalendarTypeCorrect, PTL

\* A refused call leaves the calendar alone, and a list that was accepted
\* decides every day it or its predecessors name as the caller's own would.
THEOREM ListsDecide == Spec => HolidaysApplied
<1> DEFINE A == /\ status' # "OK" => cal' = cal
                /\ given' # given =>
                     /\ cal'.weekend = cal.weekend
                     /\ \A d \in given \cup given' \cup cal.holidays :
                          IsBusinessDay(cal', d) <=> ~IsWeekend(cal', d) /\ d \notin given'
<1>1. TypeOK /\ [Next]_vars => [A]_vars
  <2> SUFFICES ASSUME TypeOK, Next
               PROVE  A
    OBVIOUS
  <2>1. ASSUME NEW S \in HolidayLists, SetHolidays(S)
        PROVE  A
    <3>1. CASE UNCHANGED <<cal, given>>
      BY <3>1
    <3>2. CASE /\ cal' = [cal EXCEPT !.holidays = {d \in S : ~IsWeekend(cal, d)}]
               /\ given' = S /\ status' = "OK"
      <4>1. /\ cal'.weekend = cal.weekend
            /\ cal'.holidays = {d \in S : ~IsWeekend(cal, d)}
        BY <3>2 DEF TypeOK
      <4> QED
        BY <3>2, <4>1 DEF IsBusinessDay, IsWeekend, IsHoliday
    <3> QED
      BY <2>1, <3>1, <3>2 DEF SetHolidays
  <2>2. ASSUME NEW m \in Masks, SetWeekend(m)
        PROVE  A
    BY <2>2 DEF SetWeekend
  <2> QED
    BY <2>1, <2>2 DEF Next
<1> QED
  BY <1>1, CalendarTypeCorrect, PTL DEF Spec, HolidaysApplied

------------------------------------------------------------------------------
(* Adjustment and arithmetic, on every calendar that can be reached.        *)

\* No list and weekend together close the calendar for 300 days in a row.
NeverShutForLong ==
  \A S \in (HolidayLists \ {NullDates}) \cup {{}}, W \in SUBSET Weekdays, d \in Int :
    W # Weekdays => \E e \in d..(d + 300) : Weekday(e) \notin W /\ e \notin S

\* The holidays are those of some list, or none.
FromLists ==
  /\ TypeOK
  /\ \E S \in (HolidayLists \ {NullDates}) \cup {{}} : cal.holidays \subseteq S

LEMMA FromListsInvariant == Spec => []FromLists
<1>1. Init => FromLists
  BY TypeInit DEF Init, FromLists
<1>2. FromLists /\ [Next]_vars => FromLists'
  <2> SUFFICES ASSUME FromLists, [Next]_vars
               PROVE  FromLists'
    OBVIOUS
  <2>1. TypeOK /\ TypeOK'
    BY TypeStep DEF FromLists
  <2>2. ASSUME NEW S \in HolidayLists, SetHolidays(S)
        PROVE  \E X \in (HolidayLists \ {NullDates}) \cup {{}} : cal'.holidays \subseteq X
    BY <2>1, <2>2 DEF SetHolidays, FromLists, TypeOK
  <2>3. ASSUME NEW m \in Masks, SetWeekend(m)
        PROVE  \E X \in (HolidayLists \ {NullDates}) \cup {{}} : cal'.holidays \subseteq X
    BY <2>1, <2>3 DEF SetWeekend, FromLists, TypeOK
  <2> QED
    BY <2>1, <2>2, <2>3 DEF FromLists, Next, vars
<1> QED
  BY <1>1, <1>2, PTL DEF Spec

LEMMA CalendarOpens ==
  ASSUME NeverShutForLong, FromLists
  PROVE  OpensYearly(cal)
<1>1. PICK S \in (HolidayLists \ {NullDates}) \cup {{}} : cal.holidays \subseteq S
  BY DEF FromLists
<1>2. cal.weekend \in SUBSET Weekdays /\ cal.weekend # Weekdays
  BY DEF FromLists, TypeOK
<1>3. ASSUME NEW d \in Int
      PROVE  \E e \in d..(d + 300) : IsBusinessDay(cal, e)
  <2>1. PICK e \in d..(d + 300) : Weekday(e) \notin cal.weekend /\ e \notin S
    BY <1>2 DEF NeverShutForLong
  <2> QED
    BY <1>1, <2>1 DEF IsBusinessDay, IsWeekend, IsHoliday
<1> QED
  BY <1>3 DEF OpensYearly

\* Following, preceding and modified following land on business days and never
\* reorder dates, and modified following leaves the month only if it must: on
\* every calendar that is never shut for 300 days in a row.
THEOREM AdjustmentKeepsOrder == NeverShutForLong => (Spec => []AdjustOrders)
<1> SUFFICES ASSUME NeverShutForLong
             PROVE  Spec => []AdjustOrders
  OBVIOUS
<1>1. FromLists => AdjustOrders
  <2> SUFFICES ASSUME FromLists
               PROVE  AdjustOrders
    OBVIOUS
  <2>1. IsCalendar(cal) /\ OpensYearly(cal)
    BY CalendarIs, CalendarOpens DEF FromLists
  <2>2. ASSUME NEW bdc \in Adjusting, NEW d \in Days
        PROVE  /\ IsBusinessDay(cal, Adjust(cal, d, bdc))
               /\ Adjust(cal, d, bdc) <= Adjust(cal, d + 1, bdc)
    <3>1. d \in Int /\ d + 1 \in Int /\ d <= d + 1
      BY DaysAssumption
    <3> QED
      BY <2>1, <3>1, AdjustOpens, AdjustOrdered
  <2>3. ASSUME NEW d \in Days,
               \E e \in (d - 31)..(d + 31) :
                 Civil(e).month = Civil(d).month /\ IsBusinessDay(cal, e)
        PROVE  Civil(Adjust(cal, d, "MODIFIED_FOLLOWING")).month = Civil(d).month
    <3>1. d \in Int
      BY DaysAssumption
    <3> QED
      BY <2>1, <2>3, <3>1, ModifiedStays
  <2> QED
    BY <2>2, <2>3 DEF AdjustOrders
<1> QED
  BY <1>1, FromListsInvariant, PTL

\* From a business day, advancing n business days and counting them agree, and
\* advancing back returns, for every n and on every calendar.
THEOREM AdvancingCounts == Spec => []AdvanceCounts
<1>1. TypeOK => AdvanceCounts
  <2> SUFFICES ASSUME TypeOK, NEW d \in Days, NEW n \in Steps, IsBusinessDay(cal, d)
               PROVE  LET e == Advance(cal, d, n)
                      IN  /\ IsBusinessDay(cal, e)
                          /\ BusinessDaysBetween(cal, d, e) = n
                          /\ Advance(cal, e, -n) = d
    BY DEF AdvanceCounts
  <2>1. d \in Int /\ n \in Int /\ IsCalendar(cal)
    BY CalendarIs, DaysAssumption, StepsAssumption
  <2>2. PICK e : e = Advance(cal, d, n)
    OBVIOUS
  <2>3. /\ IsBusinessDay(cal, e)
        /\ BusinessDaysBetween(cal, d, e) = n
        /\ Advance(cal, e, -n) = d
    BY <2>1, <2>2, AdvanceReturns
  <2> QED
    BY <2>2, <2>3
<1> QED
  BY <1>1, CalendarTypeCorrect, PTL

------------------------------------------------------------------------------
(* The days walked through.                                                 *)

InWindow == day \in Int /\ \E s \in Starts : s <= day /\ day <= s + Window

LEMMA DayInWindow == TimeSpec => []InWindow
<1>1. TimeInit => InWindow
  BY WalkAssumption, SMT DEF TimeInit, InWindow
<1>2. InWindow /\ [TimeNext]_<<day, vars>> => InWindow'
  <2>1. ASSUME InWindow, Walk
        PROVE  InWindow'
    <3>1. PICK s \in Starts : day \in s..(s + Window - 1)
      BY <2>1 DEF Walk
    <3>2. s \in Int /\ Window \in Int /\ day \in Int /\ day' = day + 1
      BY <2>1, WalkAssumption DEF Walk, InWindow
    <3>3. day' \in Int /\ s <= day' /\ day' <= s + Window
      BY <3>1, <3>2, SMT
    <3> QED
      BY <3>3 DEF InWindow
  <2>2. InWindow /\ day' = day => InWindow'
    BY DEF InWindow
  <2> QED
    BY <2>1, <2>2 DEF TimeNext
<1> QED
  BY <1>1, <1>2, PTL DEF TimeSpec

\* A shift by months lands in the right month, on the same day or the month's
\* last, keeps days in order, and takes month ends to month ends: from every
\* day, by any number of months.
THEOREM ShiftsLandRight == TimeSpec => []MonthShift
<1>1. InWindow => MonthShift
  <2> SUFFICES ASSUME InWindow, NEW n \in Months
               PROVE  LET c == Civil(day)  s == AddMonths(day, n)  d == Civil(s)
                      IN  /\ d.year * 12 + d.month = c.year * 12 + c.month + n
                          /\ d.day = c.day \/ (d.day < c.day /\ IsEndOfMonth(s))
                          /\ AddMonths(day - 1, n) <= s
                          /\ IsEndOfMonth(day) => IsEndOfMonth(ShiftMonths(day, n, TRUE))
    BY DEF MonthShift
  <2>1. n \in Int /\ day \in Int /\ day - 1 \in Int /\ day - 1 <= day
    BY WalkAssumption DEF InWindow
  <2>2. PICK s : s = AddMonths(day, n)
    OBVIOUS
  <2>3. PICK len : len = DaysInMonth(Civil(s).year, Civil(s).month)
    OBVIOUS
  <2>4. /\ s \in Int /\ MonthNo(s) = MonthNo(day) + n
        /\ Civil(s).day = IF Civil(day).day < len THEN Civil(day).day ELSE len
    BY <2>1, <2>2, <2>3, AddMonthsIs
  <2>5. /\ Civil(s).year * 12 + Civil(s).month = 12 * Civil(s).year + Civil(s).month
        /\ Civil(day).year * 12 + Civil(day).month = 12 * Civil(day).year + Civil(day).month
    BY <2>1, <2>4, CivilValid DEF IsCivil
  <2>6. Civil(s).year * 12 + Civil(s).month = Civil(day).year * 12 + Civil(day).month + n
    BY <2>4, <2>5 DEF MonthNo
  <2>7. Civil(s).day = Civil(day).day \/ (Civil(s).day < Civil(day).day /\ IsEndOfMonth(s))
    <3>1. IsEndOfMonth(s) <=> Civil(s).day = len
      BY <2>3, <2>4, IsEndOfMonthIs
    <3>2. len \in Int /\ Civil(day).day \in Int
      BY <2>1, <2>3, <2>4, CivilValid, DaysInMonthRange DEF IsCivil
    <3> QED
      BY <2>4, <3>1, <3>2
  <2>8. AddMonths(day - 1, n) <= s
    BY <2>1, <2>2, AddMonthsOrdered
  <2>9. IsEndOfMonth(day) => IsEndOfMonth(ShiftMonths(day, n, TRUE))
    BY <2>1, ShiftMonthsIs
  <2> QED
    BY <2>2, <2>6, <2>7, <2>8, <2>9
<1> QED
  BY <1>1, DayInWindow, PTL

LEMMA DayZero == Civil(0) = [year |-> 1970, month |-> 1, day |-> 1] /\ Weekday(0) = 4
<1>1. DaysFromCivil(1970, 1, 1) = 0
  BY SMT DEF DaysFromCivil, Truncated, MonthStart
<1>2. DaysInMonth(1970, 1) = 31
  BY SMT DEF DaysInMonth
<1>3. Civil(DaysFromCivil(1970, 1, 1)) = [year |-> 1970, month |-> 1, day |-> 1]
  BY <1>2, DatesReturn, SMT
<1> QED
  BY <1>1, <1>3, SMT DEF Weekday

\* A day is followed by the next date and the next weekday, from 1 January
\* 1970, a Thursday, in both directions without end.
THEOREM DaysMarch == TimeSpec => DaysFollow
<1> DEFINE A == /\ Civil(day') = Tomorrow(Civil(day))
                /\ Weekday(day') = (Weekday(day) + 1) % 7
                /\ day' = 0 => Civil(day') = [year |-> 1970, month |-> 1, day |-> 1]
                               /\ Weekday(day') = 4
<1>1. InWindow /\ [TimeNext]_<<day, vars>> => [A]_day
  <2> SUFFICES ASSUME day \in Int, day' = day + 1
               PROVE  A
    BY DEF InWindow, TimeNext, Walk
  <2>1. Civil(day') = Tomorrow(Civil(day))
    <3>1. PICK c : c = Civil(day) /\ IsCivil(c)
      BY CivilValid
    <3>2. NextDate(c) = Tomorrow(c)
      BY <3>1 DEF NextDate, Tomorrow, IsCivil
    <3> QED
      BY <3>1, <3>2, NextDay
  <2>2. Weekday(day') = (Weekday(day) + 1) % 7
    <3>1. Weekday(day) = (day + 4) % 7 /\ Weekday(day + 1) = (day + 1 + 4) % 7
      BY WeekdayIsRemainder
    <3> QED
      BY <3>1, SMT
  <2>3. day' = 0 => Civil(day') = [year |-> 1970, month |-> 1, day |-> 1] /\ Weekday(day') = 4
    BY DayZero
  <2> QED
    BY <2>1, <2>2, <2>3
<1> QED
  BY <1>1, DayInWindow, PTL DEF TimeSpec, DaysFollow

------------------------------------------------------------------------------
(* Dates as eight digits.                                                   *)

FirstDay == DaysFromCivil(1000, 1, 1)
LastDay  == DaysFromCivil(9999, 12, 31)

\* The days walked through have dates of four-digit years.
InterfaceDays ==
  \A s \in Starts : FirstDay <= s /\ s + Window <= LastDay

FourDigitYear(y) == 1000 <= y /\ y <= 9999
FourDigits(c) == FourDigitYear(c.year)

LEMMA Ends ==
  /\ FirstDay \in Int /\ MonthNo(FirstDay) = 12001
  /\ LastDay \in Int /\ MonthNo(LastDay) = 120000
<1>1. DaysInMonth(1000, 1) = 31 /\ DaysInMonth(9999, 12) = 31
  BY SMT DEF DaysInMonth
<1>2. /\ FirstDay \in Int
      /\ Civil(FirstDay) = [year |-> 1000, month |-> 1, day |-> 1]
  BY <1>1, DatesReturn, SMT DEF FirstDay
<1>3. /\ LastDay \in Int
      /\ Civil(LastDay) = [year |-> 9999, month |-> 12, day |-> 31]
  BY <1>1, DatesReturn, SMT DEF LastDay
<1> QED
  BY <1>2, <1>3, SMT DEF MonthNo

LEMMA YearHasFourDigits ==
  ASSUME NEW d \in Int, FirstDay <= d, d <= LastDay
  PROVE  FourDigits(Civil(d))
<1>1. MonthNo(FirstDay) <= MonthNo(d) /\ MonthNo(d) <= MonthNo(LastDay)
  BY Ends, MonthsOrdered
<1>2. PICK c : c = Civil(d) /\ IsCivil(c) /\ MonthNo(d) = 12 * c.year + c.month
  BY CivilValid DEF MonthNo
<1>3. c.year \in Int /\ c.month \in 1..12
  BY <1>2 DEF IsCivil
<1>4. 12001 <= 12 * c.year + c.month /\ 12 * c.year + c.month <= 120000
  BY <1>1, <1>2, Ends, SMT
<1>5. PICK y \in Int, m \in 1..12 : y = c.year /\ m = c.month
  BY <1>3
<1>6. 12001 <= 12 * y + m /\ 12 * y + m <= 120000
  BY <1>4, <1>5, SMT
<1>7. 1000 <= y /\ y <= 9999
  BY <1>6, SMT
<1> QED
  BY <1>2, <1>5, <1>7, SMT DEF FourDigits, FourDigitYear

Eight(y, m, k) == y * 10000 + m * 100 + k
DigitsOf(c) == Eight(c.year, c.month, c.day)

\* What ValidYyyymmdd and FromYyyymmdd take a number apart into.
YearPart(n)  == n \div 10000
MonthPart(n) == (n \div 100) % 100
DayPart(n)   == n % 100
EightDigits(n) == 10000101 <= n /\ n <= 99991231

LEMMA NumbersAreSplit ==
  ASSUME NEW y \in Int, FourDigitYear(y), NEW m \in 1..12, NEW k \in 1..31,
         NEW n, n = Eight(y, m, k)
  PROVE  /\ n \in Int /\ EightDigits(n)
         /\ YearPart(n) = y /\ MonthPart(n) = m /\ DayPart(n) = k
<1> USE DEF FourDigitYear
<1>1. n = y * 10000 + m * 100 + k
  BY SMT DEF Eight
<1>2. n \in Int /\ EightDigits(n)
  BY <1>1, SMT DEF EightDigits
<1>3. n \div 10000 = y
  <2>1. PICK r \in 0..9999 : r = m * 100 + k
    BY SMT
  <2>2. n = y * 10000 + r
    BY <1>1, <2>1, SMT
  <2> QED
    BY <2>2, SMT
<1>4. n \div 100 = y * 100 + m /\ n % 100 = k
  <2>1. PICK q \in Int : q = y * 100 + m
    BY SMT
  <2>2. n = q * 100 + k /\ 0 <= k /\ k <= 99
    BY <1>1, <2>1, SMT
  <2> QED
    BY <2>1, <2>2, SMT
<1>5. (y * 100 + m) % 100 = m
  BY SMT
<1> QED
  BY <1>2, <1>3, <1>4, <1>5, SMT DEF YearPart, MonthPart, DayPart

LEMMA DigitsAreSplit ==
  ASSUME NEW c, IsCivil(c), FourDigits(c), NEW n, n = DigitsOf(c)
  PROVE  /\ n \in Int /\ EightDigits(n)
         /\ YearPart(n) = c.year /\ MonthPart(n) = c.month /\ DayPart(n) = c.day
<1>1. PICK y \in Int, m \in 1..12, k \in 1..31 : y = c.year /\ m = c.month /\ k = c.day
  BY PartsOf
<1>2. FourDigitYear(y) /\ n = Eight(y, m, k)
  BY <1>1 DEF DigitsOf, FourDigits
<1>3. /\ n \in Int /\ EightDigits(n)
      /\ YearPart(n) = y /\ MonthPart(n) = m /\ DayPart(n) = k
  BY <1>2, NumbersAreSplit
<1> QED
  BY <1>1, <1>3

LEMMA DigitsFollow ==
  ASSUME NEW c, IsCivil(c)
  PROVE  DigitsOf(c) < DigitsOf(NextDate(c))
<1>1. PICK y \in Int, m \in 1..12, k \in 1..31 : y = c.year /\ m = c.month /\ k = c.day
  BY PartsOf
<1>2. PICK D : D = DaysInMonth(y, m)
  OBVIOUS
<1>3. CASE k < D
  <2>1. NextDate(c) = [year |-> y, month |-> m, day |-> k + 1]
    BY <1>1, <1>2, <1>3 DEF NextDate
  <2> QED
    BY <1>1, <2>1, SMT DEF DigitsOf, Eight
<1>4. CASE ~(k < D) /\ m < 12
  <2>1. NextDate(c) = [year |-> y, month |-> m + 1, day |-> 1]
    BY <1>1, <1>2, <1>4 DEF NextDate
  <2> QED
    BY <1>1, <2>1, SMT DEF DigitsOf, Eight
<1>5. CASE ~(k < D) /\ ~(m < 12)
  <2>1. NextDate(c) = [year |-> y + 1, month |-> 1, day |-> 1]
    BY <1>1, <1>2, <1>5 DEF NextDate
  <2> QED
    BY <1>1, <2>1, SMT DEF DigitsOf, Eight
<1> QED
  BY <1>3, <1>4, <1>5

LEMMA RangeKept ==
  ASSUME InterfaceDays, InWindow
  PROVE  day \in Int /\ FourDigits(Civil(day)) /\ day <= LastDay
<1>1. PICK s \in Starts : s <= day /\ day <= s + Window
  BY DEF InWindow
<1>2. FirstDay <= s /\ s + Window <= LastDay
  BY <1>1 DEF InterfaceDays
<1>3. day \in Int /\ s \in Int /\ Window \in Int /\ FirstDay \in Int /\ LastDay \in Int
  BY <1>1, WalkAssumption, Ends DEF InWindow
<1>4. FirstDay <= day /\ day <= LastDay
  BY <1>1, <1>2, <1>3, SMT
<1> QED
  BY <1>3, <1>4, YearHasFourDigits

\* Eight digits name one day, are valid, and sort as days do: on every day of
\* a four-digit year.
THEOREM DigitsNameDays == InterfaceDays => (TimeSpec => []DatesRoundTrip)
<1> SUFFICES ASSUME InterfaceDays
             PROVE  TimeSpec => []DatesRoundTrip
  OBVIOUS
<1>1. InWindow => DatesRoundTrip
  <2> SUFFICES ASSUME InWindow
               PROVE  DatesRoundTrip
    OBVIOUS
  <2>1. day \in Int /\ FourDigits(Civil(day))
    BY RangeKept
  <2>2. PICK c : c = Civil(day) /\ IsCivil(c)
    BY <2>1, CivilValid
  <2>3. PICK n : n = ToYyyymmdd(day) /\ n = DigitsOf(c)
    BY <2>2, SMT DEF ToYyyymmdd, DigitsOf, Eight
  <2>4. /\ EightDigits(n)
        /\ YearPart(n) = c.year /\ MonthPart(n) = c.month /\ DayPart(n) = c.day
    BY <2>1, <2>2, <2>3, DigitsAreSplit
  <2>5. ValidYyyymmdd(n)
    <3>1. c.month \in 1..12 /\ c.day \in 1..DaysInMonth(c.year, c.month)
      BY <2>2, PartsOf
    <3>2. MonthPart(n) \in 1..12 /\ DayPart(n) \in 1..DaysInMonth(YearPart(n), MonthPart(n))
      BY <2>4, <3>1
    <3> QED
      BY <2>4, <3>2, SMT DEF ValidYyyymmdd, EightDigits, YearPart, MonthPart, DayPart
  <2>6. FromYyyymmdd(n) = day
    <3>1. FromYyyymmdd(n) = DaysFromCivil(c.year, c.month, c.day)
      BY <2>4, SMT DEF FromYyyymmdd, YearPart, MonthPart, DayPart
    <3> QED
      BY <2>1, <2>2, <3>1, ConversionReturns
  <2>7. n < ToYyyymmdd(day + 1)
    <3>1. ToYyyymmdd(day + 1) = DigitsOf(NextDate(c))
      BY <2>1, <2>2, NextDay, SMT DEF ToYyyymmdd, DigitsOf, Eight
    <3> QED
      BY <2>2, <2>3, <3>1, DigitsFollow
  <2> QED
    BY <2>3, <2>5, <2>6, <2>7 DEF DatesRoundTrip
<1> QED
  BY <1>1, DayInWindow, PTL

------------------------------------------------------------------------------
(* Excel's serials.                                                         *)

\* The range of serials that are converted, seen from the day they stand for.
ExcelFrom(d)  == 61 <= d + 25569
ExcelUpTo(d)  == d + 25569 <= 2958465

\* SerialToYyyymmdd in two parts: from a year's day on, and from an era's.
FromDayOfYear(era, yoe, doy) ==
  LET mp    == (5 * doy + 2) \div 153
      month == IF mp < 10 THEN mp + 3 ELSE mp - 9
      year  == yoe + era * 400 + (IF month <= 2 THEN 1 ELSE 0)
  IN  year * 10000 + month * 100 + doy - (153 * mp + 2) \div 5 + 1
FromDayOfEra(era, doe) ==
  LET yoe == (doe - doe \div 1460 + doe \div 36524 - doe \div 146096) \div 365
  IN  FromDayOfYear(era, yoe, doe - (365 * yoe + yoe \div 4 - yoe \div 100))

\* The add-in's copy of the arithmetic is the library's.
LEMMA SerialIsDay ==
  ASSUME NEW d \in Int, ExcelFrom(d), ExcelUpTo(d)
  PROVE  SerialToYyyymmdd(d + 25569) = ToYyyymmdd(d)
<1>1. PICK z \in Int : z = d + 719468 /\ 0 <= z
  BY SMT DEF ExcelFrom
<1>2. PICK era \in Int : era = z \div 146097
  BY SMT
<1>3. Era(z) = era
  BY <1>1, <1>2, SMT DEF Era, Truncated
<1>4. PICK doe : doe = z - era * 146097
  OBVIOUS
<1>5. DayOfEra(z) = doe
  BY <1>3, <1>4, SMT DEF DayOfEra
<1>6. PICK yoe : yoe = (doe - doe \div 1460 + doe \div 36524 - doe \div 146096) \div 365
  OBVIOUS
<1>7. YearOfEra(doe) = yoe
  BY <1>6, SMT DEF YearOfEra
<1>8. PICK doy : doy = doe - (365 * yoe + yoe \div 4 - yoe \div 100)
  OBVIOUS
<1>9. DayOfYear(doe) = doy
  BY <1>7, <1>8, SMT DEF DayOfYear
<1>10. PICK mp : mp = (5 * doy + 2) \div 153
  OBVIOUS
<1>11. PICK month : month = IF mp < 10 THEN mp + 3 ELSE mp - 9
  OBVIOUS
<1>12. PICK year : year = yoe + era * 400 + (IF month <= 2 THEN 1 ELSE 0)
  OBVIOUS
<1>13. Civil(d) = [year |-> year, month |-> month, day |-> doy - MonthStart(mp) + 1]
  BY <1>1, <1>3, <1>5, <1>7, <1>9, <1>10, <1>11, <1>12, SMT
     DEF Civil, MonthFromMarch, MonthOf
<1>14. /\ Civil(d).year = year /\ Civil(d).month = month
       /\ Civil(d).day = doy - MonthStart(mp) + 1
  BY <1>13
<1>15. ToYyyymmdd(d) = year * 10000 + month * 100 + (doy - MonthStart(mp) + 1)
  BY <1>14, SMT DEF ToYyyymmdd
<1>16. PICK start : start = (153 * mp + 2) \div 5
  OBVIOUS
<1>17. MonthStart(mp) = start
  BY <1>16, SMT DEF MonthStart
<1>18. /\ year \in Int /\ month \in Int /\ doy \in Int /\ start \in Int
  <2>1. doe \in Int
    BY <1>4, SMT
  <2>2. yoe \in Int
    BY <1>6, <2>1, SMT
  <2>3. doy \in Int
    BY <1>8, <2>1, <2>2, SMT
  <2>4. mp \in Int
    BY <1>10, <2>3, SMT
  <2>5. start \in Int
    BY <1>16, <2>4, SMT
  <2> QED
    BY <1>14, <2>3, <2>5, CivilValid DEF IsCivil
<1>19. PICK n \in Int : n = d + 25569
  BY SMT
<1>20. n - 25569 + 719468 = z /\ ~ (n < 61 \/ n > 2958465)
  BY <1>1, <1>19, SMT DEF ExcelFrom, ExcelUpTo
<1>21. SerialToYyyymmdd(n) = year * 10000 + month * 100 + doy - start + 1
  <2>1. SerialToYyyymmdd(n)
          = FromDayOfEra((n - 25569 + 719468) \div 146097,
                         n - 25569 + 719468 - ((n - 25569 + 719468) \div 146097) * 146097)
    BY <1>20, SMT DEF SerialToYyyymmdd, FromDayOfEra, FromDayOfYear
  <2>2. SerialToYyyymmdd(n) = FromDayOfEra(era, doe)
    BY <1>2, <1>4, <1>20, <2>1, SMT
  <2>3. FromDayOfEra(era, doe)
          = FromDayOfYear(era, yoe, doe - (365 * yoe + yoe \div 4 - yoe \div 100))
    BY <1>6, SMT DEF FromDayOfEra
  <2>4. FromDayOfEra(era, doe) = FromDayOfYear(era, yoe, doy)
    BY <1>8, <2>3, SMT
  <2>5. FromDayOfYear(era, yoe, doy) = year * 10000 + month * 100 + doy - start + 1
    BY <1>10, <1>11, <1>12, <1>16, SMT DEF FromDayOfYear
  <2> QED
    BY <2>2, <2>4, <2>5
<1> QED
  BY <1>15, <1>17, <1>18, <1>19, <1>21, SMT

LEMMA CellText ==
  ASSUME NEW c, IsCivil(c), FourDigits(c)
  PROVE  DateOfCell(Text(c.year, c.month, c.day)) = DigitsOf(c)
<1>1. PICK y \in Int, m \in 1..12, k \in 1..31 : y = c.year /\ m = c.month /\ k = c.day
  BY PartsOf
<1>2. FourDigitYear(y)
  BY <1>1 DEF FourDigits
<1>3. ParseIsoDate(y, m, k) = Eight(y, m, k)
  BY <1>2, SMT DEF ParseIsoDate, FourDigitYear, Eight
<1>4. DateOfCell(Text(y, m, k)) = ParseIsoDate(y, m, k)
  BY SMT DEF DateOfCell, Text
<1> QED
  BY <1>1, <1>3, <1>4 DEF DigitsOf

LEMMA CellNumber ==
  ASSUME NEW n \in Int
  PROVE  /\ EightDigits(n) => DateOfCell(Number(n)) = n
         /\ n < 61 => DateOfCell(Number(n)) = 0
         /\ n <= 2958465 => DateOfCell(Number(n)) = SerialToYyyymmdd(n)
<1>1. EightDigits(n) => DateOfCell(Number(n)) = n
  BY SMT DEF DateOfCell, Number, EightDigits
<1>2. n <= 2958465 => DateOfCell(Number(n)) = SerialToYyyymmdd(n)
  BY SMT DEF DateOfCell, Number
<1>3. n < 61 => SerialToYyyymmdd(n) = 0
  BY SMT DEF SerialToYyyymmdd
<1>4. n < 61 => n <= 2958465
  BY SMT
<1> QED
  BY <1>1, <1>2, <1>3, <1>4

From1900March(n) == n >= 19000301

\* From 1 March 1900 on, Excel's serials and the days after it agree.
LEMMA ExcelAgrees ==
  ASSUME NEW d \in Int, From1900March(DigitsOf(Civil(d)))
  PROVE  ExcelFrom(d)
<1> SUFFICES ASSUME ~ ExcelFrom(d)
             PROVE  FALSE
  OBVIOUS
<1>1. PICK b \in Int : b = DaysFromCivil(1900, 2, 28)
  BY SMT DEF DaysFromCivil, Truncated, MonthStart
<1>2. d <= b
  BY <1>1, SMT DEF DaysFromCivil, Truncated, MonthStart, ExcelFrom
<1>3. 28 <= DaysInMonth(1900, 2)
  BY SMT DEF DaysInMonth
<1>4. Civil(DaysFromCivil(1900, 2, 28)) = [year |-> 1900, month |-> 2, day |-> 28]
  BY <1>3, DatesReturn, SMT
<1>5. MonthNo(b) = 22802
  BY <1>1, <1>4, SMT DEF MonthNo
<1>6. PICK c : c = Civil(d) /\ IsCivil(c)
  BY CivilValid
<1>7. PICK y \in Int, m \in 1..12, k \in 1..31 : y = c.year /\ m = c.month /\ k = c.day
  BY <1>6, PartsOf
<1>8. MonthNo(d) <= MonthNo(b)
  BY <1>2, MonthsOrdered
<1>9. 12 * y + m <= 22802
  BY <1>5, <1>6, <1>7, <1>8, SMT DEF MonthNo
<1>10. From1900March(Eight(y, m, k))
  BY <1>6, <1>7 DEF DigitsOf
<1> QED
  BY <1>9, <1>10, SMT DEF From1900March, Eight

LEMMA LastDayInExcel == \A d \in Int : d <= LastDay => ExcelUpTo(d)
BY SMT DEF LastDay, DaysFromCivil, Truncated, MonthStart, ExcelUpTo

\* Text, eight digits and Excel's serial all give the library's day, and a
\* serial that cannot be converted gives no date: on every four-digit year's
\* days.
THEOREM ExcelAgreesOnDates == InterfaceDays => (TimeSpec => []SerialsAgree)
<1> SUFFICES ASSUME InterfaceDays
             PROVE  TimeSpec => []SerialsAgree
  OBVIOUS
<1>1. InWindow => SerialsAgree
  <2> SUFFICES ASSUME InWindow
               PROVE  SerialsAgree
    OBVIOUS
  <2>1. day \in Int /\ FourDigits(Civil(day)) /\ ExcelUpTo(day)
    BY RangeKept, LastDayInExcel
  <2>2. PICK c : c = Civil(day) /\ IsCivil(c)
    BY <2>1, CivilValid
  <2>3. PICK digits : digits = ToYyyymmdd(day) /\ digits = DigitsOf(c)
    BY <2>2, SMT DEF ToYyyymmdd, DigitsOf, Eight
  <2>4. PICK n \in Int : n = day + 25569
    BY <2>1, SMT
  <2>5. digits \in Int /\ EightDigits(digits)
    BY <2>1, <2>2, <2>3, DigitsAreSplit
  <2>6. n <= 2958465
    BY <2>1, <2>4, SMT DEF ExcelUpTo
  <2>7. DateOfCell(Text(c.year, c.month, c.day)) = digits
    BY <2>1, <2>2, <2>3, CellText
  <2>8. DateOfCell(Number(digits)) = digits
    BY <2>5, CellNumber, SMT
  <2>9. From1900March(digits) => DateOfCell(Number(n)) = digits
    <3> SUFFICES ASSUME From1900March(digits)
                 PROVE  DateOfCell(Number(n)) = digits
      OBVIOUS
    <3>1. ExcelFrom(day)
      BY <2>1, <2>2, <2>3, ExcelAgrees
    <3>2. SerialToYyyymmdd(day + 25569) = ToYyyymmdd(day)
      BY <2>1, <3>1, SerialIsDay, SMT
    <3>3. DateOfCell(Number(n)) = SerialToYyyymmdd(n)
      BY <2>4, <2>6, CellNumber, SMT
    <3> QED
      BY <2>3, <2>4, <3>2, <3>3, SMT
  <2>10. n < 61 => DateOfCell(Number(n)) = 0
    BY <2>4, CellNumber, SMT
  <2>11. n \in 1..59 => DateOfCell(Number(n)) \in {0, ToYyyymmdd(ExcelDay(n))}
    BY <2>4, <2>10, SMT
  <2>12. n < 1 \/ n > 2958465 \/ n = 60 => DateOfCell(Number(n)) = 0
    BY <2>4, <2>6, <2>10, SMT
  <2>13. digits >= 19000301 => DateOfCell(Number(n)) = digits
    BY <2>9, SMT DEF From1900March
  <2> QED
    BY <2>2, <2>3, <2>4, <2>7, <2>8, <2>11, <2>12, <2>13, SMT DEF SerialsAgree
<1> QED
  BY <1>1, DayInWindow, PTL

------------------------------------------------------------------------------
(* Day counts.                                                             *)

\* Interest over a range is the sum of that over its parts, wherever it is cut
\* and in whatever order the cuts come.
THEOREM IsdaSplits == TimeSpec => []IsdaAdditive
<1>1. InWindow => IsdaAdditive
  <2> SUFFICES ASSUME InWindow, NEW s \in Spans, NEW t \in Spans
               PROVE  Plus(ActActIsda(day, day + s), ActActIsda(day + s, day + t))
                        = ActActIsda(day, day + t)
    BY DEF IsdaAdditive
  <2>1. day \in Int /\ s \in Int /\ t \in Int
    BY WalkAssumption DEF InWindow
  <2>2. PICK b \in Int, c \in Int : b = day + s /\ c = day + t
    BY <2>1, SMT
  <2>3. PICK p \in Int, q \in Int, r \in Int :
          p = Position(day) /\ q = Position(b) /\ r = Position(c)
    BY <2>1, PlaceIs
  <2>4. /\ ActActIsda(day, b) = <<q - p, WholeYear>>
        /\ ActActIsda(b, c) = <<r - q, WholeYear>>
        /\ ActActIsda(day, c) = <<r - p, WholeYear>>
    BY <2>1, <2>3, IsdaIs
  <2>5. (q - p) + (r - q) = r - p
    BY SMT
  <2>6. Plus(<<q - p, WholeYear>>, <<r - q, WholeYear>>) = <<r - p, WholeYear>>
    BY <2>5 DEF Plus
  <2> QED
    BY <2>2, <2>4, <2>6
<1> QED
  BY <1>1, DayInWindow, PTL

\* Under every convention but ICMA, interest is never negative and never shrinks as its
\* end moves on.
THEOREM FractionsNeverShrink == TimeSpec => []FractionsGrow
<1>1. InWindow => FractionsGrow
  <2> SUFFICES ASSUME InWindow, NEW dc \in Conventions \ {"ACT_ACT_ICMA"}, NEW s \in Spans, s >= 0
               PROVE  LET f(e) == YearFraction(dc, day, day + e, NoPeriod).yf
                      IN  f(s)[1] >= 0 /\ AtMost(f(s), f(s + 1))
    BY DEF FractionsGrow
  <2>1. day \in Int /\ s \in Int /\ s >= 0
    BY WalkAssumption DEF InWindow
  <2>2. PICK b \in Int, c \in Int : b = day + s /\ c = day + (s + 1)
    BY <2>1, SMT
  <2>3. day <= b /\ b <= c
    BY <2>1, <2>2, SMT
  <2>4. /\ YearFraction(dc, day, b, NoPeriod).yf[1] >= 0
        /\ YearFraction(dc, day, b, NoPeriod).yf[1] <= YearFraction(dc, day, c, NoPeriod).yf[1]
    BY <2>1, <2>3, InterestGrows
  <2> QED
    BY <2>2, <2>4 DEF AtMost
<1> QED
  BY <1>1, DayInWindow, PTL

------------------------------------------------------------------------------
(* Holidays a weekend hides.                                                *)

\* What the caller listed and the calendar does not hold is on its weekend.
WeekendHides == \A d \in given : d \in cal.holidays \/ IsWeekend(cal, d)

\* Once there are holidays the weekend loses no day.
WeekendOnlyGrows == [][given # {} => cal.weekend \subseteq cal'.weekend]_vars

\* What is left of "a holiday already falling on a weekend can never change an
\* answer": it cannot as long as the weekend only grows once holidays are set.
\* Then what the caller listed is no business day, whatever the lists are.
THEOREM HolidaysSurvive == Spec /\ WeekendOnlyGrows => []HolidaysKept
<1>1. Init => WeekendHides
  BY DEF Init, WeekendHides
<1>2. ASSUME TypeOK, TypeOK', WeekendHides, [Next]_vars,
             [given # {} => cal.weekend \subseteq cal'.weekend]_vars
      PROVE  WeekendHides'
  <2>1. CASE UNCHANGED vars
    BY <1>2, <2>1 DEF vars, WeekendHides, IsWeekend
  <2>2. CASE ~UNCHANGED vars
    <3>1. given # {} => cal.weekend \subseteq cal'.weekend
      BY <1>2, <2>2
    <3>2. ASSUME NEW S \in HolidayLists, SetHolidays(S)
          PROVE  WeekendHides'
      <4>1. CASE UNCHANGED <<cal, given>>
        BY <1>2, <4>1 DEF WeekendHides, IsWeekend
      <4>2. CASE /\ cal' = [cal EXCEPT !.holidays = {d \in S : ~IsWeekend(cal, d)}]
                 /\ given' = S
        <5>1. /\ cal'.weekend = cal.weekend
              /\ cal'.holidays = {d \in S : ~IsWeekend(cal, d)}
          BY <1>2, <4>2 DEF TypeOK
        <5> QED
          BY <4>2, <5>1 DEF WeekendHides, IsWeekend
      <4> QED
        BY <3>2, <4>1, <4>2 DEF SetHolidays
    <3>3. ASSUME NEW m \in Masks, SetWeekend(m)
          PROVE  WeekendHides'
      <4>1. given' = given /\ cal'.holidays = cal.holidays
        BY <1>2, <3>3 DEF SetWeekend, TypeOK
      <4>2. ASSUME NEW d \in given
            PROVE  d \in cal'.holidays \/ IsWeekend(cal', d)
        BY <1>2, <3>1, <4>1, <4>2 DEF WeekendHides, IsWeekend
      <4> QED
        BY <4>1, <4>2 DEF WeekendHides
    <3> QED
      BY <1>2, <2>2, <3>2, <3>3 DEF Next
  <2> QED
    BY <2>1, <2>2
<1>3. WeekendHides => HolidaysKept
  BY DEF WeekendHides, HolidaysKept, IsBusinessDay, IsHoliday
<1> QED
  BY <1>1, <1>2, <1>3, CalendarTypeCorrect, PTL DEF Spec, WeekendOnlyGrows
=============================================================================
