-------------------------------- MODULE Dates --------------------------------
(***************************************************************************)
(* The civil calendar of date.hpp.  A date is its serial day: the number   *)
(* of days since 1970-01-01.  Division is C's, which truncates to zero;    *)
(* where the code divides unsigned values the two coincide.                *)
(***************************************************************************)
EXTENDS Integers

Truncated(a, b) == IF a >= 0 THEN a \div b ELSE -((-a) \div b)
Remainder(a, b) == a - b * Truncated(a, b)

\* Months counted from March: the days of the year before one.
MonthStart(mp) == (153 * mp + 2) \div 5

DaysFromCivil(year, m, d) ==
  LET y   == IF m <= 2 THEN year - 1 ELSE year
      era == Truncated(IF y >= 0 THEN y ELSE y - 399, 400)
      yoe == y - era * 400
      doy == MonthStart(IF m > 2 THEN m - 3 ELSE m + 9) + d - 1
      doe == yoe * 365 + yoe \div 4 - yoe \div 100 + doy
  IN  era * 146097 + doe - 719468

\* Eras of 400 years start on 1 March; so do the years within them.
Era(z) == Truncated(IF z >= 0 THEN z ELSE z - 146096, 146097)
DayOfEra(z) == z - Era(z) * 146097

\* Mutant of YearOfEra: the correction for the era's 400th year is missing.
YearOfEraShort(doe) == (doe - doe \div 1460 + doe \div 36524) \div 365

YearOfEra(doe) ==
  (doe - doe \div 1460 + doe \div 36524 - doe \div 146096) \div 365

DayOfYear(doe) ==
  LET yoe == YearOfEra(doe) IN doe - (365 * yoe + yoe \div 4 - yoe \div 100)

MonthFromMarch(doy) == (5 * doy + 2) \div 153
MonthOf(mp) == IF mp < 10 THEN mp + 3 ELSE mp - 9

\* civil_from_days.
Civil(serial) ==
  LET z   == serial + 719468
      doe == DayOfEra(z)
      doy == DayOfYear(doe)
      mp  == MonthFromMarch(doy)
  IN  [year  |-> YearOfEra(doe) + Era(z) * 400 + (IF MonthOf(mp) <= 2 THEN 1 ELSE 0),
       month |-> MonthOf(mp),
       day   |-> doy - MonthStart(mp) + 1]

IsLeap(y) == (Remainder(y, 4) = 0 /\ Remainder(y, 100) # 0) \/ Remainder(y, 400) = 0

DaysInYear(y) == IF IsLeap(y) THEN 366 ELSE 365

DaysInMonth(y, m) ==
  IF m = 2 /\ IsLeap(y) THEN 29
  ELSE IF m \in 1..12 THEN <<31, 28, 31, 30, 31, 30, 31, 31, 30, 31, 30, 31>>[m]
  ELSE 0

\* A date at the interface is an eight-digit number; nothing else is checked
\* once it has passed.
ValidYyyymmdd(n) ==
  /\ 10000101 <= n /\ n <= 99991231
  /\ LET m == (n \div 100) % 100
     IN  m \in 1..12 /\ n % 100 \in 1..DaysInMonth(n \div 10000, m)

FromYyyymmdd(n) == DaysFromCivil(n \div 10000, (n \div 100) % 100, n % 100)

ToYyyymmdd(serial) ==
  LET c == Civil(serial) IN c.year * 10000 + c.month * 100 + c.day

\* 0 is Sunday, 6 is Saturday.
Weekday(serial) ==
  IF serial >= -4 THEN (serial + 4) % 7 ELSE Remainder(serial + 5, 7) + 6

EndOfMonth(serial) ==
  LET c == Civil(serial)
  IN  DaysFromCivil(c.year, c.month, DaysInMonth(c.year, c.month))

IsEndOfMonth(serial) == EndOfMonth(serial) = serial

\* Mutant of AddMonths: the day of the month is not clamped.
AddMonthsOver(serial, n) ==
  LET c == Civil(serial)
      total == c.year * 12 + c.month - 1 + n
  IN  DaysFromCivil(total \div 12, (total % 12) + 1, c.day)

\* The same day n months away, or the last day of a month that is too short.
AddMonths(serial, n) ==
  LET c     == Civil(serial)
      total == c.year * 12 + c.month - 1 + n
      m     == Remainder(total, 12)
      year  == Truncated(total, 12) - (IF m < 0 THEN 1 ELSE 0)
      month == (IF m < 0 THEN m + 12 ELSE m) + 1
      end   == DaysInMonth(year, month)
  IN  DaysFromCivil(year, month, IF c.day < end THEN c.day ELSE end)

\* Mutant of ShiftMonths: month ends are like any other day.
ShiftMonthsPlain(serial, n, eom) == AddMonths(serial, n)

\* shift_months: month ends stay month ends, if the bond asks for it.
ShiftMonths(serial, n, eom) ==
  IF eom /\ IsEndOfMonth(serial) THEN EndOfMonth(AddMonths(serial, n))
                                 ELSE AddMonths(serial, n)

\* A day's month, counted over the years.
MonthNo(serial) == 12 * Civil(serial).year + Civil(serial).month
=============================================================================
