---------------------------- MODULE Dates_proofs ----------------------------
(***************************************************************************)
(* The civil calendar's closed formulas, proved for every day: a serial    *)
(* day is an era, a year of that era and a day of that year, in one way    *)
(* only, and conversion there and back returns to where it started.  On    *)
(* that rest the order of months, business days and year fractions.         *)
(***************************************************************************)
EXTENDS BusinessDays, DayCount, FiniteSetTheorems, WellFoundedInduction, TLAPS

\* The days of an era before its year y, which starts on 1 March.
YearStart(y) == 365 * y + y \div 4 - y \div 100

\* A year of an era ends with a 29 February, in the calendar year after it.
LongYear(y) == (y + 1) % 4 = 0 /\ ((y + 1) % 100 # 0 \/ y = 399)

\* A day of an era is day doy of year y.
Falls(doe, y, doy) ==
  /\ y \in Nat /\ y <= 399 /\ doy \in Nat /\ doy <= 365
  /\ doy = 365 => LongYear(y)
  /\ doe = YearStart(y) + doy

------------------------------------------------------------------------------
(* Eras and years.                                                          *)

\* Era, with its branch for days before the first era, rounds down.
LEMMA EraIsQuotient ==
  ASSUME NEW z \in Int
  PROVE  /\ Era(z) \in Int
         /\ 0 <= z - Era(z) * 146097 /\ z - Era(z) * 146097 <= 146096
<1>1. CASE z >= 0
  <2>1. Era(z) = z \div 146097
    BY <1>1, SMT DEF Era, Truncated
  <2> QED
    BY <1>1, <2>1, SMT
<1>2. CASE z < 0
  <2>1. PICK n \in Nat : n = 146096 - z
    BY <1>2, SMT
  <2>2. Era(z) = -(n \div 146097)
    BY <1>2, <2>1, SMT DEF Era, Truncated
  <2> QED
    BY <2>1, <2>2, SMT
<1> QED
  BY <1>1, <1>2, SMT

\* The years of an era follow one another.
LEMMA YearsFollow ==
  ASSUME NEW y \in Nat, y <= 399
  PROVE  /\ YearStart(y) \in Nat /\ YearStart(y) + 365 <= 146096
         /\ LongYear(y) \in BOOLEAN
         /\ y < 399 => YearStart(y + 1) = YearStart(y) + (IF LongYear(y) THEN 366 ELSE 365)
<1>1. YearStart(y) \in Nat /\ YearStart(y) + 365 <= 146096
  BY SMT DEF YearStart
<1>2. (y + 1) \div 4 - y \div 4 = IF (y + 1) % 4 = 0 THEN 1 ELSE 0
  BY SMT
<1>3. (y + 1) \div 100 - y \div 100 = IF (y + 1) % 100 = 0 THEN 1 ELSE 0
  BY SMT
<1>4. (y + 1) % 100 = 0 => (y + 1) % 4 = 0
  BY SMT
<1> QED
  BY <1>1, <1>2, <1>3, <1>4, SMT DEF YearStart, LongYear

LEMMA YearsGrow ==
  ASSUME NEW y \in Nat, NEW k \in Nat, y <= k
  PROVE  YearStart(y) <= YearStart(k)
BY SMT DEF YearStart

\* A day falls in one year.
LEMMA FallsBefore ==
  ASSUME NEW doe, NEW y, NEW doy, NEW k, NEW e,
         Falls(doe, y, doy), Falls(doe, k, e)
  PROVE  ~ (y < k)
<1> SUFFICES ASSUME y < k
             PROVE  FALSE
  OBVIOUS
<1>1. /\ y \in Nat /\ y < 399 /\ y + 1 \in Nat /\ k \in Nat /\ k <= 399 /\ y + 1 <= k
      /\ doy \in Nat /\ e \in Nat
  BY SMT DEF Falls
<1>2. /\ YearStart(y) \in Nat /\ YearStart(k) \in Nat /\ LongYear(y) \in BOOLEAN
      /\ YearStart(y + 1) = YearStart(y) + (IF LongYear(y) THEN 366 ELSE 365)
  BY <1>1, YearsFollow
<1>3. YearStart(y + 1) <= YearStart(k)
  BY <1>1, YearsGrow
<1>4. YearStart(y) + doy = YearStart(k) + e /\ doy <= 365 /\ (doy = 365 => LongYear(y))
  BY DEF Falls
<1> QED
  BY <1>1, <1>2, <1>3, <1>4, SMT

LEMMA FallsOnce ==
  ASSUME NEW doe, NEW y, NEW doy, NEW k, NEW e, Falls(doe, y, doy), Falls(doe, k, e)
  PROVE  y = k /\ doy = e
<1>1. y \in Nat /\ y <= 399 /\ k \in Nat /\ doy \in Nat /\ e \in Nat
  BY DEF Falls
<1>2. y = k
  BY <1>1, FallsBefore, SMT
<1>3. YearStart(y) \in Nat
  BY <1>1, YearsFollow
<1>4. YearStart(y) + doy = YearStart(k) + e
  BY DEF Falls
<1> QED
  BY <1>1, <1>2, <1>3, <1>4, SMT

\* Day s of cycle q of four years, in century c, in year u of the cycle; t is 1
\* at the end of a cycle.
InCycle(doe, c, q, s, t, u) ==
  /\ s <= 1460
  /\ q = 24 => s <= 1459
  /\ doe = 36524 * c + 1461 * q + s
  /\ t = 1 <=> 24 * c + q + s >= 1460
  /\ s - t - 365 * u \in 0..364

\* The formula of civil_from_days finds the year.
LEMMA YearInCycle ==
  ASSUME NEW c \in 0..3, NEW q \in 0..24, NEW s \in Nat, NEW t \in 0..1,
         NEW u \in 0..3, NEW doe \in Int, InCycle(doe, c, q, s, t, u)
  PROVE  Falls(doe, YearOfEra(doe), DayOfYear(doe))
<1> USE DEF InCycle
<1>0. PICK y \in Int : y = 100 * c + 4 * q + u
  BY SMT
<1>1. /\ doe \div 1460 = 25 * c + q + t
      /\ doe \div 36524 = c /\ doe \div 146096 = 0
  BY SMT
<1>2. doe - doe \div 1460 + doe \div 36524 - doe \div 146096
        = 365 * (100 * c + 4 * q) + (s - t)
  BY <1>1, SMT
<1>3. (365 * (100 * c + 4 * q) + (s - t)) \div 365 = y
  BY <1>0, SMT
<1>4. YearOfEra(doe) = y
  BY <1>2, <1>3, SMT DEF YearOfEra
<1>5. y \div 4 = 25 * c + q /\ y \div 100 = c /\ y \in Nat /\ y <= 399
  BY <1>0, SMT
<1>6. YearStart(y) = 36524 * c + 1461 * q + 365 * u
  BY <1>0, <1>5, SMT DEF YearStart
<1>7. DayOfYear(doe) = s - 365 * u
  BY <1>4, <1>6, SMT DEF DayOfYear, YearStart
<1>8. s - 365 * u \in Nat /\ s - 365 * u <= 365
  BY SMT
<1>9. ASSUME s - 365 * u = 365
      PROVE  LongYear(y)
  <2>1. u = 3 /\ q < 24
    BY <1>9, SMT
  <2> QED
    BY <1>0, <2>1, SMT DEF LongYear
<1> QED
  BY <1>4, <1>5, <1>6, <1>7, <1>8, <1>9, SMT DEF Falls

InSomeCycle(doe) ==
  \E c \in 0..3, q \in 0..24, s \in Nat, t \in 0..1, u \in 0..3 : InCycle(doe, c, q, s, t, u)

LEMMA CycleFound ==
  ASSUME NEW doe \in Nat, doe < 146096
  PROVE  InSomeCycle(doe)
<1> USE DEF InSomeCycle
<1>1. PICK c \in 0..3, r \in Nat : doe = 36524 * c + r /\ r <= 36523
  <2>1. /\ doe \div 36524 \in 0..3
        /\ doe - 36524 * (doe \div 36524) \in Nat
        /\ doe - 36524 * (doe \div 36524) <= 36523
    BY SMT
  <2> QED
    BY <2>1, SMT
<1>2. PICK q \in 0..24, s \in Nat : r = 1461 * q + s /\ s <= 1460
  <2>1. /\ r \div 1461 \in 0..24
        /\ r - 1461 * (r \div 1461) \in Nat /\ r - 1461 * (r \div 1461) <= 1460
    BY <1>1, SMT
  <2> QED
    BY <2>1, SMT
<1>3. PICK t \in 0..1 : t = 1 <=> 24 * c + q + s >= 1460
  BY SMT
<1>4. 0 <= s - t /\ s - t <= 1459
  BY <1>2, <1>3, SMT
<1>5. PICK u \in 0..3 : s - t - 365 * u \in 0..364
  <2>1. (s - t) \div 365 \in 0..3 /\ s - t - 365 * ((s - t) \div 365) \in 0..364
    BY <1>4, SMT
  <2> QED
    BY <2>1, SMT
<1>6. /\ q = 24 => s <= 1459
      /\ doe = 36524 * c + 1461 * q + s
  BY <1>1, <1>2, SMT
<1>7. InCycle(doe, c, q, s, t, u)
  BY <1>2, <1>3, <1>5, <1>6, SMT DEF InCycle
<1> WITNESS c \in 0..3, q \in 0..24, s \in Nat, t \in 0..1, u \in 0..3
<1> QED
  BY <1>7

LEMMA CycleIsAYear ==
  ASSUME NEW doe \in Int, InSomeCycle(doe)
  PROVE  Falls(doe, YearOfEra(doe), DayOfYear(doe))
BY YearInCycle, Zenon DEF InSomeCycle

LEMMA YearFound ==
  ASSUME NEW doe \in Nat, doe <= 146096
  PROVE  Falls(doe, YearOfEra(doe), DayOfYear(doe))
<1>1. CASE doe = 146096
  <2>1. YearOfEra(doe) = 399
    BY <1>1, SMT DEF YearOfEra
  <2> QED
    BY <1>1, <2>1, SMT DEF DayOfYear, Falls, YearStart, LongYear
<1>2. CASE doe < 146096
  BY <1>2, CycleFound, CycleIsAYear, SMT
<1> QED
  BY <1>1, <1>2, SMT

------------------------------------------------------------------------------
(* Months.  The year of an era begins in March, its months are numbered     *)
(* from 0, and month mp begins on its day MonthStart(mp).                   *)

FromMarch(m)   == IF m > 2 THEN m - 3 ELSE m + 9

\* The days of month mp of year y.
MonthLength(y, mp) ==
  IF mp = 11 THEN (IF LongYear(y) THEN 29 ELSE 28)
  ELSE IF mp \in {1, 3, 6, 8} THEN 30 ELSE 31

LEMMA MonthsAreTwelve ==
  /\ \A m \in 1..12 : FromMarch(m) \in 0..11 /\ MonthOf(FromMarch(m)) = m
  /\ \A mp \in 0..11 : MonthOf(mp) \in 1..12 /\ FromMarch(MonthOf(mp)) = mp
BY SMT DEF FromMarch, MonthOf

\* Month mp + 1 begins where month mp ends.
LEMMA MonthsFollow ==
  ASSUME NEW mp \in 0..11, NEW y
  PROVE  /\ MonthStart(mp) \in Nat
         /\ mp < 11 => MonthStart(mp + 1) = MonthStart(mp) + MonthLength(y, mp)
         /\ mp = 11 => MonthStart(mp) = 337
         /\ MonthLength(y, mp) \in 28..31
         /\ mp < 11 => MonthStart(mp) + MonthLength(y, mp) <= 337
<1>1. mp \in {0, 1, 2, 3, 4, 5, 6, 7, 8, 9, 10, 11}
  BY SMT
<1> QED
  BY <1>1, SMT DEF MonthStart, MonthLength

\* The month of a day, and the days of a month.
LEMMA MonthFound ==
  ASSUME NEW doy \in Nat, doy <= 365
  PROVE  /\ MonthFromMarch(doy) \in 0..11
         /\ MonthStart(MonthFromMarch(doy)) <= doy
         /\ MonthFromMarch(doy) < 11 => doy < MonthStart(MonthFromMarch(doy) + 1)
<1>1. PICK mp \in 0..11 : mp = (5 * doy + 2) \div 153
  BY SMT
<1>2. 153 * mp <= 5 * doy + 2 /\ 5 * doy + 2 < 153 * mp + 153
  BY <1>1, SMT
<1>3. MonthStart(mp) <= doy
  BY <1>2, SMT DEF MonthStart
<1>4. doy < (153 * (mp + 1) + 2) \div 5
  BY <1>2, SMT
<1> QED
  BY <1>1, <1>3, <1>4, SMT DEF MonthFromMarch, MonthStart

LEMMA MonthOnce ==
  ASSUME NEW mp \in 0..11, NEW doy \in Nat, doy <= 365, MonthStart(mp) <= doy,
         mp < 11 => doy < MonthStart(mp + 1)
  PROVE  MonthFromMarch(doy) = mp
<1>1. mp \in {0, 1, 2, 3, 4, 5, 6, 7, 8, 9, 10, 11}
  BY SMT
<1> QED
  BY <1>1, SMT DEF MonthStart, MonthFromMarch

\* is_leap, with remainders that round towards zero.
LEMMA LeapIsLong ==
  ASSUME NEW era \in Int, NEW y \in Nat, y <= 399
  PROVE  IsLeap(y + 400 * era + 1) <=> LongYear(y)
<1>1. \A n \in Int : /\ Remainder(n, 4) = 0 <=> n % 4 = 0
                     /\ Remainder(n, 100) = 0 <=> n % 100 = 0
                     /\ Remainder(n, 400) = 0 <=> n % 400 = 0
  BY SMT DEF Remainder, Truncated
<1>2. PICK n \in Int : n = y + 400 * era + 1
  BY SMT
<1>3. n % 4 = (y + 1) % 4 /\ n % 100 = (y + 1) % 100 /\ (n % 400 = 0 <=> y = 399)
  BY <1>2, SMT
<1> QED
  BY <1>1, <1>2, <1>3 DEF IsLeap, LongYear

------------------------------------------------------------------------------
(* Civil dates.                                                             *)

\* The calendar year that month m of year y of an era belongs to.
CivilYear(era, y, m) == y + 400 * era + (IF m <= 2 THEN 1 ELSE 0)

LEMMA DaysInMonthIs ==
  ASSUME NEW era \in Int, NEW y \in Nat, y <= 399, NEW m \in 1..12
  PROVE  DaysInMonth(CivilYear(era, y, m), m) = MonthLength(y, FromMarch(m))
<1>1. m \in {1, 2, 3, 4, 5, 6, 7, 8, 9, 10, 11, 12}
  BY SMT
<1>2. IsLeap(y + 400 * era + 1) <=> LongYear(y)
  BY LeapIsLong
<1>3. CASE m = 2
  BY <1>2, <1>3, SMT DEF DaysInMonth, CivilYear, MonthLength, FromMarch
<1>4. CASE m # 2
  BY <1>1, <1>4, SMT DEF DaysInMonth, MonthLength, FromMarch
<1> QED
  BY <1>3, <1>4

\* The serial of an era's first day.
EraStart(era) == 146097 * era - 719468

\* A serial day is day doy of year y of an era: exactly one such.
At(d, era, y, doy) == /\ d \in Int /\ era \in Int
                      /\ Falls(d - EraStart(era), y, doy)

LEMMA EraStartType == ASSUME NEW era \in Int PROVE EraStart(era) \in Int
BY SMT DEF EraStart

\* What At says, in numbers.
LEMMA AtTypes ==
  ASSUME NEW d, NEW era, NEW y, NEW doy, At(d, era, y, doy)
  PROVE  /\ d \in Int /\ era \in Int /\ EraStart(era) \in Int
         /\ y \in Nat /\ y <= 399 /\ YearStart(y) \in Nat
         /\ doy \in Nat /\ doy <= 365 /\ (doy = 365 => LongYear(y))
         /\ d = EraStart(era) + YearStart(y) + doy
<1>1. /\ d \in Int /\ era \in Int
      /\ y \in Nat /\ y <= 399 /\ doy \in Nat /\ doy <= 365 /\ (doy = 365 => LongYear(y))
      /\ d - EraStart(era) = YearStart(y) + doy
  BY DEF At, Falls
<1>2. EraStart(era) \in Int /\ YearStart(y) \in Nat
  BY <1>1, EraStartType, YearsFollow
<1> QED
  BY <1>1, <1>2, SMT

\* The day d as civil_from_days counts it, from the first of all eras' starts.
Shifted(d) == d + 719468

LEMMA DayOfEraIs ==
  ASSUME NEW d \in Int
  PROVE  /\ Era(Shifted(d)) \in Int
         /\ DayOfEra(Shifted(d)) \in Nat /\ DayOfEra(Shifted(d)) <= 146096
         /\ DayOfEra(Shifted(d)) = d - EraStart(Era(Shifted(d)))
<1>1. PICK z \in Int : z = Shifted(d)
  BY SMT DEF Shifted
<1>2. /\ Era(z) \in Int
      /\ 0 <= z - Era(z) * 146097 /\ z - Era(z) * 146097 <= 146096
  BY <1>1, EraIsQuotient, SMT
<1>3. DayOfEra(z) = z - Era(z) * 146097
  BY SMT DEF DayOfEra
<1>4. DayOfEra(z) = d - EraStart(Era(z))
  BY <1>1, <1>2, <1>3, SMT DEF Shifted, EraStart
<1> QED
  BY <1>1, <1>2, <1>3, <1>4, SMT

LEMMA AtSome ==
  ASSUME NEW d \in Int
  PROVE  At(d, Era(Shifted(d)), YearOfEra(DayOfEra(Shifted(d))), DayOfYear(DayOfEra(Shifted(d))))
<1>1. Falls(DayOfEra(Shifted(d)), YearOfEra(DayOfEra(Shifted(d))), DayOfYear(DayOfEra(Shifted(d))))
  BY DayOfEraIs, YearFound
<1> QED
  BY <1>1, DayOfEraIs DEF At

LEMMA AtOnce ==
  ASSUME NEW d, NEW era, NEW y, NEW doy, At(d, era, y, doy),
         NEW er, NEW ye, NEW dy, At(d, er, ye, dy)
  PROVE  era = er /\ y = ye /\ doy = dy
<1>1. ASSUME NEW i \in Int, NEW j \in Int, NEW p \in Int, NEW q \in Int,
             d = EraStart(i) + p, d = EraStart(j) + q,
             0 <= p, p <= 146096, 0 <= q, q <= 146096
      PROVE  i = j
  BY <1>1, SMT DEF EraStart
<1>2. /\ d \in Int /\ era \in Int /\ er \in Int
      /\ EraStart(era) \in Int /\ EraStart(er) \in Int
      /\ YearStart(y) + doy \in Nat /\ YearStart(ye) + dy \in Nat
      /\ d = EraStart(era) + (YearStart(y) + doy)
      /\ d = EraStart(er) + (YearStart(ye) + dy)
  BY AtTypes, SMT
<1>3. YearStart(y) + doy <= 146096 /\ YearStart(ye) + dy <= 146096
  BY AtTypes, YearsFollow, SMT
<1>4. era = er
  BY <1>1, <1>2, <1>3, SMT
<1>5. Falls(d - EraStart(era), y, doy) /\ Falls(d - EraStart(era), ye, dy)
  BY <1>4 DEF At
<1> QED
  BY <1>4, <1>5, FallsOnce

\* The civil date of a day of an era.
LEMMA CivilIs ==
  ASSUME NEW d, NEW era, NEW y, NEW doy, At(d, era, y, doy),
         NEW mp, mp = MonthFromMarch(doy)
  PROVE  Civil(d) = [year  |-> CivilYear(era, y, MonthOf(mp)),
                     month |-> MonthOf(mp),
                     day   |-> doy - MonthStart(mp) + 1]
<1>1. d \in Int /\ era \in Int /\ y \in Int
  BY AtTypes
<1>2. /\ era = Era(Shifted(d))
      /\ y = YearOfEra(DayOfEra(Shifted(d)))
      /\ doy = DayOfYear(DayOfEra(Shifted(d)))
  BY <1>1, AtSome, AtOnce
<1>3. Civil(d) =
        LET z   == Shifted(d)
            mp2 == MonthFromMarch(DayOfYear(DayOfEra(z)))
        IN  [year  |-> YearOfEra(DayOfEra(z)) + Era(z) * 400
                         + (IF MonthOf(mp2) <= 2 THEN 1 ELSE 0),
             month |-> MonthOf(mp2),
             day   |-> DayOfYear(DayOfEra(z)) - MonthStart(mp2) + 1]
  BY SMT DEF Civil, Shifted
<1>4. Civil(d) =
        [year  |-> y + era * 400 + (IF MonthOf(mp) <= 2 THEN 1 ELSE 0),
         month |-> MonthOf(mp),
         day   |-> doy - MonthStart(mp) + 1]
  BY <1>2, <1>3, SMT
<1>5. y + era * 400 = y + 400 * era
  BY <1>1, SMT
<1> QED
  BY <1>4, <1>5, SMT DEF CivilYear

\* days_from_civil, once era and year are known.
LEMMA SerialOfParts ==
  ASSUME NEW year \in Int, NEW m \in Int, NEW k \in Int, NEW n \in Int, NEW era \in Int,
         n = (IF m <= 2 THEN year - 1 ELSE year),
         Truncated(IF n >= 0 THEN n ELSE n - 399, 400) = era,
         NEW y \in Int, n - era * 400 = y
  PROVE  DaysFromCivil(year, m, k)
           = era * 146097 + (y * 365 + y \div 4 - y \div 100
               + (MonthStart(FromMarch(m)) + k - 1)) - 719468
BY SMT DEF DaysFromCivil, MonthStart, FromMarch

\* days_from_civil of a day of month m.
LEMMA SerialIs ==
  ASSUME NEW era \in Int, NEW y \in Nat, y <= 399, NEW m \in 1..12, NEW k \in Int
  PROVE  DaysFromCivil(CivilYear(era, y, m), m, k)
           = EraStart(era) + YearStart(y) + MonthStart(FromMarch(m)) + k - 1
<1>1. PICK n \in Int : n = y + 400 * era
  BY SMT
<1>2. (IF m <= 2 THEN CivilYear(era, y, m) - 1 ELSE CivilYear(era, y, m)) = n
  BY <1>1, SMT DEF CivilYear
<1>3. Truncated(IF n >= 0 THEN n ELSE n - 399, 400) = era
  <2>1. CASE n >= 0
    BY <1>1, <2>1, SMT DEF Truncated
  <2>2. CASE n < 0
    <3>1. PICK k2 \in Nat : k2 = 399 - n
      BY <2>2, SMT
    <3>2. Truncated(n - 399, 400) = -(k2 \div 400)
      BY <2>2, <3>1, SMT DEF Truncated
    <3>3. k2 \div 400 = -era
      BY <1>1, <3>1, SMT
    <3> QED
      BY <2>2, <3>2, <3>3, SMT
  <2> QED
    BY <1>1, <2>1, <2>2, SMT
<1>4. n - era * 400 = y
  BY <1>1, SMT
<1>5. DaysFromCivil(CivilYear(era, y, m), m, k)
        = era * 146097 + (y * 365 + y \div 4 - y \div 100
             + (MonthStart(FromMarch(m)) + k - 1)) - 719468
  <2>1. PICK year \in Int : year = CivilYear(era, y, m)
    BY SMT DEF CivilYear
  <2>2. m \in Int /\ y \in Int
    OBVIOUS
  <2>3. n = (IF m <= 2 THEN year - 1 ELSE year)
    BY <1>2, <2>1
  <2> QED
    BY <1>3, <1>4, <2>1, <2>2, <2>3, SerialOfParts
<1>6. MonthStart(FromMarch(m)) \in Nat
  BY MonthsAreTwelve, MonthsFollow
<1> QED
  BY <1>5, <1>6, SMT DEF YearStart, EraStart

\* date.hpp's two conversions are each other's inverse, on every day.
THEOREM ConversionReturns ==
  ASSUME NEW d \in Int
  PROVE  DaysFromCivil(Civil(d).year, Civil(d).month, Civil(d).day) = d
<1>1. PICK era, y, doy : At(d, era, y, doy)
  BY AtSome
<1>2. /\ era \in Int /\ EraStart(era) \in Int
      /\ y \in Nat /\ y <= 399 /\ YearStart(y) \in Nat
      /\ doy \in Nat /\ doy <= 365
      /\ d = EraStart(era) + YearStart(y) + doy
  BY <1>1, AtTypes
<1>3. PICK mp \in 0..11 : mp = MonthFromMarch(doy)
  BY <1>2, MonthFound
<1>4. PICK m \in 1..12 : m = MonthOf(mp) /\ FromMarch(m) = mp
  BY MonthsAreTwelve
<1>5. MonthStart(mp) \in Nat
  BY MonthsFollow
<1>6. PICK k \in Int : k = doy - MonthStart(mp) + 1
  BY <1>2, <1>5, SMT
<1>7. Civil(d).year = CivilYear(era, y, m) /\ Civil(d).month = m /\ Civil(d).day = k
  BY <1>1, <1>3, <1>4, <1>6, CivilIs
<1>8. DaysFromCivil(CivilYear(era, y, m), m, k)
        = EraStart(era) + YearStart(y) + MonthStart(FromMarch(m)) + k - 1
  BY <1>2, SerialIs
<1>9. EraStart(era) + YearStart(y) + MonthStart(FromMarch(m)) + k - 1 = d
  BY <1>2, <1>4, <1>5, <1>6, SMT
<1> QED
  BY <1>7, <1>8, <1>9

------------------------------------------------------------------------------
(* Days by their month.                                                     *)

\* Day d is the k-th of month mp of year y of an era.
InMonth(d, era, y, mp, k) ==
  /\ era \in Int /\ y \in Nat /\ y <= 399 /\ mp \in 0..11
  /\ k \in Nat /\ 1 <= k /\ k <= MonthLength(y, mp)
  /\ d = EraStart(era) + YearStart(y) + MonthStart(mp) + k - 1

\* The numbers InMonth is about, and how far they go.
LEMMA InMonthTypes ==
  ASSUME NEW d, NEW era, NEW y, NEW mp, NEW k, InMonth(d, era, y, mp, k)
  PROVE  /\ d \in Int /\ EraStart(era) \in Int /\ era \in Int
         /\ y \in Nat /\ y <= 399 /\ mp \in 0..11 /\ k \in Nat /\ 1 <= k
         /\ YearStart(y) \in Nat /\ YearStart(y) + 365 <= 146096
         /\ MonthStart(mp) \in Nat /\ MonthLength(y, mp) \in 28..31
         /\ k <= MonthLength(y, mp)
         /\ d = EraStart(era) + YearStart(y) + MonthStart(mp) + k - 1
<1>1. /\ era \in Int /\ y \in Nat /\ y <= 399 /\ mp \in 0..11 /\ k \in Nat /\ 1 <= k
      /\ k <= MonthLength(y, mp)
      /\ d = EraStart(era) + YearStart(y) + MonthStart(mp) + k - 1
  BY DEF InMonth
<1>2. EraStart(era) \in Int
  BY <1>1, EraStartType
<1>3. YearStart(y) \in Nat /\ YearStart(y) + 365 <= 146096
  BY <1>1, YearsFollow
<1>4. MonthStart(mp) \in Nat /\ MonthLength(y, mp) \in 28..31
  BY <1>1, MonthsFollow
<1> QED
  BY <1>1, <1>2, <1>3, <1>4, SMT

\* Every day is in a month.
LEMMA InSomeMonth ==
  ASSUME NEW d \in Int
  PROVE  \E era, y, mp, k : InMonth(d, era, y, mp, k)
<1>1. PICK era, y, doy : At(d, era, y, doy)
  BY AtSome
<1>2. /\ era \in Int /\ EraStart(era) \in Int
      /\ y \in Nat /\ y <= 399 /\ YearStart(y) \in Nat
      /\ doy \in Nat /\ doy <= 365 /\ (doy = 365 => LongYear(y))
      /\ d = EraStart(era) + YearStart(y) + doy
  BY <1>1, AtTypes
<1>3. PICK mp \in 0..11 : mp = MonthFromMarch(doy)
  BY <1>2, MonthFound
<1>4. MonthStart(mp) <= doy /\ (mp < 11 => doy < MonthStart(mp + 1))
  BY <1>2, <1>3, MonthFound
<1>5. /\ MonthStart(mp) \in Nat
      /\ mp < 11 => MonthStart(mp + 1) = MonthStart(mp) + MonthLength(y, mp)
      /\ mp = 11 => MonthStart(mp) = 337
      /\ MonthLength(y, mp) \in 28..31
  BY MonthsFollow
<1>6. PICK k \in Nat : k = doy - MonthStart(mp) + 1 /\ 1 <= k
  BY <1>2, <1>4, <1>5, SMT
<1>7. k <= MonthLength(y, mp)
  <2>1. CASE mp < 11
    BY <1>2, <1>4, <1>5, <1>6, <2>1, SMT
  <2>2. CASE mp = 11
    <3>1. MonthLength(y, mp) = IF LongYear(y) THEN 29 ELSE 28
      BY <2>2 DEF MonthLength
    <3>2. doy = k + 336
      BY <1>2, <1>5, <1>6, <2>2, SMT
    <3> QED
      BY <1>2, <1>6, <3>1, <3>2, SMT
  <2> QED
    BY <2>1, <2>2, SMT
<1>8. d = EraStart(era) + YearStart(y) + MonthStart(mp) + k - 1
  BY <1>2, <1>5, <1>6, SMT
<1> QED
  BY <1>2, <1>6, <1>7, <1>8 DEF InMonth

\* Its civil date.
LEMMA CivilInMonth ==
  ASSUME NEW d, NEW era, NEW y, NEW mp, NEW k, InMonth(d, era, y, mp, k)
  PROVE  Civil(d) = [year  |-> CivilYear(era, y, MonthOf(mp)),
                     month |-> MonthOf(mp),
                     day   |-> k]
<1>1. /\ d \in Int /\ EraStart(era) \in Int /\ era \in Int
      /\ y \in Nat /\ y <= 399 /\ mp \in 0..11 /\ k \in Nat /\ 1 <= k
      /\ YearStart(y) \in Nat
      /\ MonthStart(mp) \in Nat /\ MonthLength(y, mp) \in 28..31
      /\ k <= MonthLength(y, mp)
      /\ d = EraStart(era) + YearStart(y) + MonthStart(mp) + k - 1
  BY InMonthTypes
<1>2. /\ mp < 11 => MonthStart(mp + 1) = MonthStart(mp) + MonthLength(y, mp)
      /\ mp < 11 => MonthStart(mp) + MonthLength(y, mp) <= 337
      /\ mp = 11 => MonthStart(mp) = 337
  BY <1>1, MonthsFollow
<1>3. PICK doy \in Nat : doy = MonthStart(mp) + k - 1
  BY <1>1, SMT
<1>4. mp = 11 => MonthLength(y, mp) = IF LongYear(y) THEN 29 ELSE 28
  BY DEF MonthLength
<1>5. doy <= 365 /\ (doy = 365 => LongYear(y))
  BY <1>1, <1>2, <1>3, <1>4, SMT
<1>6. MonthFromMarch(doy) = mp
  <2>1. MonthStart(mp) <= doy /\ (mp < 11 => doy < MonthStart(mp + 1))
    BY <1>1, <1>2, <1>3, SMT
  <2> QED
    BY <1>1, <1>5, <2>1, MonthOnce
<1>7. At(d, era, y, doy)
  <2>1. d - EraStart(era) = YearStart(y) + doy
    BY <1>1, <1>3, SMT
  <2> QED
    BY <1>1, <1>5, <2>1 DEF At, Falls
<1>8. doy - MonthStart(mp) + 1 = k
  BY <1>1, <1>3, SMT
<1> QED
  BY <1>6, <1>7, <1>8, CivilIs

\* Months counted from the first of all eras.
MonthIndex(era, y, mp) == 4800 * era + 12 * y + mp

LEMMA MonthNumber ==
  ASSUME NEW d, NEW era, NEW y, NEW mp, NEW k, InMonth(d, era, y, mp, k)
  PROVE  MonthNo(d) = MonthIndex(era, y, mp) + 3
<1>1. /\ Civil(d).year = CivilYear(era, y, MonthOf(mp))
      /\ Civil(d).month = MonthOf(mp)
  BY CivilInMonth
<1>2. era \in Int /\ y \in Nat /\ mp \in 0..11
  BY InMonthTypes
<1>3. 12 * CivilYear(era, y, MonthOf(mp)) + MonthOf(mp) = 4800 * era + 12 * y + mp + 3
  BY <1>2, SMT DEF CivilYear, MonthOf
<1> QED
  BY <1>1, <1>3 DEF MonthNo, MonthIndex

\* A month ends within its year, and does not reach into the next.
LEMMA WithinYear ==
  ASSUME NEW d, NEW era, NEW y, NEW mp, NEW k, InMonth(d, era, y, mp, k)
  PROVE  /\ MonthStart(mp) + k - 1 <= 365
         /\ MonthStart(mp) + k - 1 = 365 => LongYear(y)
<1>1. /\ mp \in 0..11 /\ k \in Nat /\ k <= MonthLength(y, mp)
      /\ MonthStart(mp) \in Nat /\ MonthLength(y, mp) \in 28..31
  BY InMonthTypes
<1>2. /\ mp < 11 => MonthStart(mp) + MonthLength(y, mp) <= 337
      /\ mp = 11 => MonthStart(mp) = 337
  BY <1>1, MonthsFollow
<1>3. mp = 11 => MonthLength(y, mp) = IF LongYear(y) THEN 29 ELSE 28
  BY DEF MonthLength
<1> QED
  BY <1>1, <1>2, <1>3, SMT

\* Months within a year, years and eras come in order.
LEMMA MonthStartsGrow ==
  ASSUME NEW mp \in 0..11, NEW mq \in 0..11, mp < mq, NEW y
  PROVE  MonthStart(mp) + MonthLength(y, mp) <= MonthStart(mq)
<1>1. /\ mp \in {0, 1, 2, 3, 4, 5, 6, 7, 8, 9, 10}
      /\ mq \in {1, 2, 3, 4, 5, 6, 7, 8, 9, 10, 11}
  BY SMT
<1> QED
  BY <1>1, SMT DEF MonthStart, MonthLength

LEMMA EraStartsGrow ==
  ASSUME NEW i \in Int, NEW j \in Int, i < j
  PROVE  EraStart(i) \in Int /\ EraStart(j) \in Int /\ EraStart(j) > EraStart(i) + 146096
BY SMT DEF EraStart

LEMMA InOrder ==
  ASSUME NEW d, NEW era, NEW y, NEW mp, NEW k, InMonth(d, era, y, mp, k),
         NEW e, NEW er, NEW ye, NEW mq, NEW j, InMonth(e, er, ye, mq, j),
         MonthIndex(era, y, mp) < MonthIndex(er, ye, mq)
  PROVE  d < e
<1>1. /\ d \in Int /\ EraStart(era) \in Int /\ era \in Int
      /\ y \in Nat /\ y <= 399 /\ mp \in 0..11 /\ k \in Nat /\ 1 <= k
      /\ YearStart(y) \in Nat /\ YearStart(y) + 365 <= 146096
      /\ MonthStart(mp) \in Nat /\ MonthLength(y, mp) \in 28..31
      /\ k <= MonthLength(y, mp)
      /\ d = EraStart(era) + YearStart(y) + MonthStart(mp) + k - 1
  BY InMonthTypes
<1>2. /\ e \in Int /\ EraStart(er) \in Int /\ er \in Int
      /\ ye \in Nat /\ ye <= 399 /\ mq \in 0..11 /\ j \in Nat /\ 1 <= j
      /\ YearStart(ye) \in Nat
      /\ MonthStart(mq) \in Nat
      /\ e = EraStart(er) + YearStart(ye) + MonthStart(mq) + j - 1
  BY InMonthTypes
<1>3. /\ MonthStart(mp) + k - 1 <= 365
      /\ MonthStart(mp) + k - 1 = 365 => LongYear(y)
  BY WithinYear
<1>4. \/ era < er
      \/ era = er /\ y < ye
      \/ era = er /\ y = ye /\ mp < mq
  BY <1>1, <1>2, SMT DEF MonthIndex
<1>5. CASE era < er
  <2>1. EraStart(er) > EraStart(era) + 146096
    BY <1>1, <1>2, <1>5, EraStartsGrow
  <2> QED
    BY <1>1, <1>2, <1>3, <2>1, SMT
<1>6. CASE era = er /\ y < ye
  <2>1. y < 399 /\ y + 1 \in Nat /\ y + 1 <= ye
    BY <1>1, <1>2, <1>6, SMT
  <2>2. YearStart(y + 1) = YearStart(y) + (IF LongYear(y) THEN 366 ELSE 365)
    BY <1>1, <2>1, YearsFollow
  <2>3. YearStart(y + 1) <= YearStart(ye)
    BY <1>2, <2>1, YearsGrow
  <2> QED
    BY <1>1, <1>2, <1>3, <1>6, <2>2, <2>3, SMT
<1>7. CASE era = er /\ y = ye /\ mp < mq
  <2>1. MonthStart(mp) + MonthLength(y, mp) <= MonthStart(mq)
    BY <1>1, <1>2, <1>7, MonthStartsGrow
  <2> QED
    BY <1>1, <1>2, <1>7, <2>1, SMT
<1> QED
  BY <1>4, <1>5, <1>6, <1>7

\* Days whose months are a year or more apart are more than 300 days apart.
LEMMA YearApart ==
  ASSUME NEW d, NEW era, NEW y, NEW mp, NEW k, InMonth(d, era, y, mp, k),
         NEW e, NEW er, NEW ye, NEW mq, NEW j, InMonth(e, er, ye, mq, j),
         MonthIndex(era, y, mp) + 12 <= MonthIndex(er, ye, mq)
  PROVE  d + 300 < e
<1>1. /\ d \in Int /\ EraStart(era) \in Int /\ era \in Int
      /\ y \in Nat /\ y <= 399 /\ mp \in 0..11 /\ k \in Nat /\ 1 <= k
      /\ YearStart(y) \in Nat
      /\ MonthStart(mp) \in Nat /\ MonthLength(y, mp) \in 28..31
      /\ k <= MonthLength(y, mp)
      /\ d = EraStart(era) + YearStart(y) + MonthStart(mp) + k - 1
  BY InMonthTypes
<1>2. /\ e \in Int /\ er \in Int /\ ye \in Nat /\ ye <= 399 /\ mq \in 0..11
  BY InMonthTypes
\* the first of d's month, a year later
<1>3. PICK er2 \in Int, y2 \in Nat :
        /\ y2 <= 399
        /\ EraStart(er2) \in Int /\ YearStart(y2) \in Nat
        /\ MonthIndex(er2, y2, mp) = MonthIndex(era, y, mp) + 12
        /\ EraStart(er2) + YearStart(y2) >= EraStart(era) + YearStart(y) + 365
  <2>1. CASE y < 399
    <3>1. /\ YearStart(y + 1) = YearStart(y) + (IF LongYear(y) THEN 366 ELSE 365)
          /\ y + 1 \in Nat /\ y + 1 <= 399
      BY <1>1, <2>1, YearsFollow, SMT
    <3>2. YearStart(y + 1) \in Nat /\ YearStart(y + 1) >= YearStart(y) + 365
      BY <1>1, <3>1, SMT
    <3>3. MonthIndex(era, y + 1, mp) = MonthIndex(era, y, mp) + 12
      BY <1>1, SMT DEF MonthIndex
    <3>4. EraStart(era) + YearStart(y + 1) >= EraStart(era) + YearStart(y) + 365
      BY <1>1, <3>2, SMT
    <3> QED
      BY <1>1, <3>1, <3>2, <3>3, <3>4
  <2>2. CASE y = 399
    <3>1. era + 1 \in Int /\ EraStart(era + 1) = EraStart(era) + 146097
      BY <1>1, SMT DEF EraStart
    <3>2. YearStart(0) = 0 /\ YearStart(y) = 145731
      BY <2>2, SMT DEF YearStart
    <3>3. MonthIndex(era + 1, 0, mp) = MonthIndex(era, y, mp) + 12
      BY <1>1, <2>2, SMT DEF MonthIndex
    <3>4. EraStart(era + 1) \in Int /\ EraStart(era + 1) + YearStart(0) >= EraStart(era) + YearStart(y) + 365
      BY <1>1, <3>1, <3>2, SMT
    <3> QED
      BY <3>1, <3>2, <3>3, <3>4, SMT
  <2> QED
    BY <1>1, <2>1, <2>2, SMT
<1>4. PICK f \in Int : f = EraStart(er2) + YearStart(y2) + MonthStart(mp)
  BY <1>1, <1>3, SMT
<1>5. MonthLength(y2, mp) \in 28..31
  BY <1>1, MonthsFollow
<1>6. InMonth(f, er2, y2, mp, 1)
  BY <1>1, <1>3, <1>4, <1>5, SMT DEF InMonth
<1>7. d + 300 < f
  BY <1>1, <1>3, <1>4, SMT
<1>8. f <= e
  <2>1. CASE MonthIndex(er2, y2, mp) < MonthIndex(er, ye, mq)
    <3>1. f < e
      BY <1>6, <2>1, InOrder
    <3> QED
      BY <1>2, <1>4, <3>1, SMT
  <2>2. CASE MonthIndex(er2, y2, mp) = MonthIndex(er, ye, mq)
    <3>1. er2 = er /\ y2 = ye /\ mp = mq
      BY <1>1, <1>2, <1>3, <2>2, SMT DEF MonthIndex
    <3> QED
      BY <1>1, <1>2, <1>3, <1>4, <3>1, InMonthTypes, SMT
  <2> QED
    BY <1>1, <1>2, <1>3, <2>1, <2>2, SMT DEF MonthIndex
<1> QED
  BY <1>1, <1>2, <1>4, <1>7, <1>8, SMT

------------------------------------------------------------------------------
(* The same about civil dates, eras forgotten.                              *)

IsCivil(c) == /\ c = [year |-> c.year, month |-> c.month, day |-> c.day]
              /\ c.year \in Int /\ c.month \in 1..12
              /\ c.day \in Nat /\ 1 <= c.day
              /\ c.day <= DaysInMonth(c.year, c.month)

LEMMA DaysInMonthRange ==
  ASSUME NEW year \in Int, NEW m \in 1..12
  PROVE  DaysInMonth(year, m) \in 28..31
<1>1. m \in {1, 2, 3, 4, 5, 6, 7, 8, 9, 10, 11, 12}
  BY SMT
<1> QED
  BY <1>1, SMT DEF DaysInMonth

\* The parts of a date are numbers.
LEMMA PartsOf ==
  ASSUME NEW c, IsCivil(c)
  PROVE  /\ c.year \in Int /\ c.month \in 1..12 /\ c.day \in 1..31
         /\ c.day \in 1..DaysInMonth(c.year, c.month)
<1>1. PICK y \in Int, m \in 1..12, k \in Nat :
        y = c.year /\ m = c.month /\ k = c.day /\ 1 <= k /\ k <= DaysInMonth(y, m)
  BY DEF IsCivil
<1>2. k \in 1..31 /\ k \in 1..DaysInMonth(y, m)
  BY <1>1, DaysInMonthRange, SMT
<1> QED
  BY <1>1, <1>2

\* Every day has a date that exists.
LEMMA CivilValid ==
  ASSUME NEW d \in Int
  PROVE  IsCivil(Civil(d)) /\ MonthNo(d) \in Int
<1>1. PICK era, y, mp, k : InMonth(d, era, y, mp, k)
  BY InSomeMonth
<1>2. /\ era \in Int /\ y \in Nat /\ y <= 399 /\ mp \in 0..11 /\ k \in Nat /\ 1 <= k
      /\ k <= MonthLength(y, mp)
  BY <1>1, InMonthTypes
<1>3. PICK m \in 1..12 : m = MonthOf(mp) /\ FromMarch(m) = mp
  BY <1>2, MonthsAreTwelve
<1>4. PICK year \in Int : year = CivilYear(era, y, m)
  BY <1>2, SMT DEF CivilYear
<1>5. Civil(d) = [year |-> year, month |-> m, day |-> k]
  BY <1>1, <1>3, <1>4, CivilInMonth
<1>6. DaysInMonth(year, m) = MonthLength(y, mp)
  BY <1>2, <1>3, <1>4, DaysInMonthIs
<1>7. MonthNo(d) \in Int
  BY <1>5, SMT DEF MonthNo
<1> QED
  BY <1>2, <1>5, <1>6, <1>7 DEF IsCivil

\* Every date that exists has a day, in its month.
LEMMA DateInMonth ==
  ASSUME NEW year \in Int, NEW m \in 1..12, NEW k \in Nat, 1 <= k, k <= DaysInMonth(year, m)
  PROVE  \E era, y : /\ InMonth(DaysFromCivil(year, m, k), era, y, FromMarch(m), k)
                     /\ year = CivilYear(era, y, m)
<1>1. PICK n \in Int : n = IF m <= 2 THEN year - 1 ELSE year
  BY SMT
<1>2. PICK era \in Int, y \in Nat : n = y + 400 * era /\ y <= 399
  <2>1. n \div 400 \in Int /\ n % 400 \in Nat /\ n % 400 <= 399 /\ n = (n % 400) + 400 * (n \div 400)
    BY <1>1, SMT
  <2> QED
    BY <2>1, SMT
<1>3. year = CivilYear(era, y, m)
  BY <1>1, <1>2, SMT DEF CivilYear
<1>4. DaysFromCivil(year, m, k)
        = EraStart(era) + YearStart(y) + MonthStart(FromMarch(m)) + k - 1
  <2>1. k \in Int
    BY SMT
  <2>2. DaysFromCivil(CivilYear(era, y, m), m, k)
          = EraStart(era) + YearStart(y) + MonthStart(FromMarch(m)) + k - 1
    <3>1. y <= 399
      BY <1>2
    <3> QED
      BY <2>1, <3>1, SerialIs
  <2> QED
    BY <1>3, <2>2
<1>5. DaysInMonth(year, m) = MonthLength(y, FromMarch(m))
  BY <1>2, <1>3, DaysInMonthIs
<1>6. FromMarch(m) \in 0..11
  BY MonthsAreTwelve
<1> QED
  BY <1>2, <1>3, <1>4, <1>5, <1>6 DEF InMonth

\* Conversion there and back returns to every date that exists: with
\* ConversionReturns, days and dates are one to one.
THEOREM DatesReturn ==
  ASSUME NEW year \in Int, NEW m \in 1..12, NEW k \in Nat, 1 <= k, k <= DaysInMonth(year, m)
  PROVE  /\ DaysFromCivil(year, m, k) \in Int
         /\ Civil(DaysFromCivil(year, m, k)) = [year |-> year, month |-> m, day |-> k]
<1>1. PICK era, y : /\ InMonth(DaysFromCivil(year, m, k), era, y, FromMarch(m), k)
                    /\ year = CivilYear(era, y, m)
  BY DateInMonth
<1>2. MonthOf(FromMarch(m)) = m
  BY MonthsAreTwelve
<1>3. DaysFromCivil(year, m, k) \in Int
  BY <1>1, InMonthTypes
<1> QED
  BY <1>1, <1>2, <1>3, CivilInMonth

\* Days sort as their months do.
LEMMA MonthsInOrder ==
  ASSUME NEW d \in Int, NEW e \in Int, MonthNo(d) < MonthNo(e)
  PROVE  d < e
<1>1. PICK era, y, mp, k : InMonth(d, era, y, mp, k)
  BY InSomeMonth
<1>2. PICK er, ye, mq, j : InMonth(e, er, ye, mq, j)
  BY InSomeMonth
<1>3. MonthNo(d) = MonthIndex(era, y, mp) + 3 /\ MonthNo(e) = MonthIndex(er, ye, mq) + 3
  BY <1>1, <1>2, MonthNumber
<1>4. MonthIndex(era, y, mp) \in Int /\ MonthIndex(er, ye, mq) \in Int
  BY <1>1, <1>2, InMonthTypes, SMT DEF MonthIndex
<1>5. MonthIndex(era, y, mp) < MonthIndex(er, ye, mq)
  BY <1>3, <1>4, SMT
<1> QED
  BY <1>1, <1>2, <1>5, InOrder

LEMMA MonthsYearApart ==
  ASSUME NEW d \in Int, NEW e \in Int, MonthNo(d) + 12 <= MonthNo(e)
  PROVE  d + 300 < e
<1>1. PICK era, y, mp, k : InMonth(d, era, y, mp, k)
  BY InSomeMonth
<1>2. PICK er, ye, mq, j : InMonth(e, er, ye, mq, j)
  BY InSomeMonth
<1>3. MonthNo(d) = MonthIndex(era, y, mp) + 3 /\ MonthNo(e) = MonthIndex(er, ye, mq) + 3
  BY <1>1, <1>2, MonthNumber
<1>4. MonthIndex(era, y, mp) \in Int /\ MonthIndex(er, ye, mq) \in Int
  BY <1>1, <1>2, InMonthTypes, SMT DEF MonthIndex
<1>5. MonthIndex(era, y, mp) + 12 <= MonthIndex(er, ye, mq)
  BY <1>3, <1>4, SMT
<1> QED
  BY <1>1, <1>2, <1>5, YearApart

\* Within a month, the days of the month count.
LEMMA WithinMonth ==
  ASSUME NEW d \in Int, NEW e \in Int, MonthNo(d) = MonthNo(e)
  PROVE  /\ Civil(d).year = Civil(e).year /\ Civil(d).month = Civil(e).month
         /\ e - d = Civil(e).day - Civil(d).day
<1>1. PICK era, y, mp, k : InMonth(d, era, y, mp, k)
  BY InSomeMonth
<1>2. PICK er, ye, mq, j : InMonth(e, er, ye, mq, j)
  BY InSomeMonth
<1>3. MonthNo(d) = MonthIndex(era, y, mp) + 3 /\ MonthNo(e) = MonthIndex(er, ye, mq) + 3
  BY <1>1, <1>2, MonthNumber
<1>4. /\ era \in Int /\ y \in Nat /\ y <= 399 /\ mp \in 0..11 /\ k \in Nat
      /\ EraStart(era) \in Int /\ YearStart(y) \in Nat /\ MonthStart(mp) \in Nat
      /\ d = EraStart(era) + YearStart(y) + MonthStart(mp) + k - 1
  BY <1>1, InMonthTypes
<1>5. /\ er \in Int /\ ye \in Nat /\ ye <= 399 /\ mq \in 0..11 /\ j \in Nat
      /\ e = EraStart(er) + YearStart(ye) + MonthStart(mq) + j - 1
  BY <1>2, InMonthTypes
<1>6. era = er /\ y = ye /\ mp = mq
  <2>1. MonthIndex(era, y, mp) + 3 = MonthIndex(er, ye, mq) + 3
    BY <1>3
  <2> QED
    BY <1>4, <1>5, <2>1, SMT DEF MonthIndex
<1>7. /\ Civil(d).year = CivilYear(era, y, MonthOf(mp)) /\ Civil(d).month = MonthOf(mp)
      /\ Civil(d).day = k
  BY <1>1, CivilInMonth
<1>8. /\ Civil(e).year = CivilYear(era, y, MonthOf(mp)) /\ Civil(e).month = MonthOf(mp)
      /\ Civil(e).day = j
  BY <1>2, <1>6, CivilInMonth
<1>9. e - d = j - k
  BY <1>4, <1>5, <1>6, SMT
<1> QED
  BY <1>7, <1>8, <1>9

LEMMA MonthsOrdered ==
  ASSUME NEW d \in Int, NEW e \in Int, d <= e
  PROVE  MonthNo(d) <= MonthNo(e)
<1>1. MonthNo(d) \in Int /\ MonthNo(e) \in Int
  BY CivilValid
<1>2. MonthNo(e) < MonthNo(d) => e < d
  BY MonthsInOrder
<1> QED
  BY <1>1, <1>2, SMT

------------------------------------------------------------------------------
(* Shifts by months.                                                        *)

\* A number of months as a year and a month of it.
LEMMA MonthAway ==
  ASSUME NEW total \in Int, NEW r, r = Remainder(total, 12)
  PROVE  /\ r \in Int
         /\ Truncated(total, 12) - (IF r < 0 THEN 1 ELSE 0) \in Int
         /\ (IF r < 0 THEN r + 12 ELSE r) + 1 \in 1..12
         /\ 12 * (Truncated(total, 12) - (IF r < 0 THEN 1 ELSE 0))
              + ((IF r < 0 THEN r + 12 ELSE r) + 1) = total + 1
<1>1. CASE total >= 0
  BY <1>1, SMT DEF Remainder, Truncated
<1>2. CASE total < 0
  <2>1. PICK a \in Nat : a = -total
    BY <1>2, SMT
  <2>2. Truncated(total, 12) = -(a \div 12)
    BY <1>2, <2>1, SMT DEF Truncated
  <2> QED
    BY <1>2, <2>1, <2>2, SMT DEF Remainder
<1> QED
  BY <1>1, <1>2, SMT

\* A shift lands in the n-th next month, on the same day or on the last one.
LEMMA AddMonthsIs ==
  ASSUME NEW d \in Int, NEW n \in Int, NEW s, s = AddMonths(d, n)
  PROVE  /\ s \in Int
         /\ MonthNo(s) = MonthNo(d) + n
         /\ LET len == DaysInMonth(Civil(s).year, Civil(s).month)
            IN  Civil(s).day = IF Civil(d).day < len THEN Civil(d).day ELSE len
<1>1. PICK year \in Int, m \in 1..12, k \in Nat :
        /\ Civil(d).year = year /\ Civil(d).month = m /\ Civil(d).day = k
        /\ 1 <= k
  BY CivilValid DEF IsCivil
<1>2. PICK total \in Int : total = year * 12 + m - 1 + n
  BY SMT
<1>3. PICK r : r = Remainder(total, 12)
  OBVIOUS
<1>4. PICK y2 : y2 = Truncated(total, 12) - (IF r < 0 THEN 1 ELSE 0)
  OBVIOUS
<1>5. PICK m2 : m2 = (IF r < 0 THEN r + 12 ELSE r) + 1
  OBVIOUS
<1>6. y2 \in Int /\ m2 \in 1..12 /\ 12 * y2 + m2 = 12 * year + m + n
  <2>1. y2 \in Int /\ m2 \in 1..12 /\ 12 * y2 + m2 = total + 1
    BY <1>3, <1>4, <1>5, MonthAway
  <2> QED
    BY <1>2, <2>1, SMT
<1>7. PICK len \in 28..31 : len = DaysInMonth(y2, m2)
  BY <1>6, DaysInMonthRange
<1>8. PICK j \in Nat : j = (IF k < len THEN k ELSE len) /\ 1 <= j /\ j <= len
  BY <1>1, <1>7, SMT
<1>9. s = DaysFromCivil(y2, m2, j)
  BY <1>1, <1>2, <1>3, <1>4, <1>5, <1>7, <1>8, SMT DEF AddMonths
<1>10. /\ s \in Int
       /\ Civil(s).year = y2 /\ Civil(s).month = m2 /\ Civil(s).day = j
       /\ MonthNo(s) = 12 * y2 + m2
  <2>1. y2 \in Int /\ m2 \in 1..12 /\ j \in Nat /\ 1 <= j /\ j <= DaysInMonth(y2, m2)
    BY <1>6, <1>7, <1>8
  <2>2. s \in Int /\ Civil(s) = [year |-> y2, month |-> m2, day |-> j]
    BY <1>9, <2>1, DatesReturn
  <2>3. Civil(s).year = y2 /\ Civil(s).month = m2 /\ Civil(s).day = j
    BY <2>2
  <2> QED
    BY <2>2, <2>3 DEF MonthNo
<1>11. MonthNo(d) + n = 12 * y2 + m2
  BY <1>1, <1>6, SMT DEF MonthNo
<1> QED
  BY <1>1, <1>7, <1>8, <1>10, <1>11

\* A later day never shifts to an earlier one.
LEMMA AddMonthsOrdered ==
  ASSUME NEW d \in Int, NEW e \in Int, NEW n \in Int, d <= e
  PROVE  AddMonths(d, n) <= AddMonths(e, n)
<1>1. PICK s \in Int : /\ s = AddMonths(d, n) /\ MonthNo(s) = MonthNo(d) + n
                       /\ LET len == DaysInMonth(Civil(s).year, Civil(s).month)
                          IN  Civil(s).day = IF Civil(d).day < len THEN Civil(d).day ELSE len
  BY AddMonthsIs
<1>2. PICK t \in Int : /\ t = AddMonths(e, n) /\ MonthNo(t) = MonthNo(e) + n
                       /\ LET len == DaysInMonth(Civil(t).year, Civil(t).month)
                          IN  Civil(t).day = IF Civil(e).day < len THEN Civil(e).day ELSE len
  BY AddMonthsIs
<1>3. MonthNo(d) \in Int /\ MonthNo(e) \in Int /\ MonthNo(d) <= MonthNo(e)
  BY CivilValid, MonthsOrdered
<1>4. CASE MonthNo(d) < MonthNo(e)
  <2>1. MonthNo(s) < MonthNo(t)
    BY <1>1, <1>2, <1>3, <1>4, SMT
  <2> QED
    BY <1>1, <1>2, <2>1, MonthsInOrder, SMT
<1>5. CASE MonthNo(d) = MonthNo(e)
  <2>1. Civil(d).day <= Civil(e).day /\ Civil(d).day \in Nat /\ Civil(e).day \in Nat
    <3>1. e - d = Civil(e).day - Civil(d).day
      BY <1>5, WithinMonth
    <3>2. Civil(d).day \in Nat /\ Civil(e).day \in Nat
      BY CivilValid DEF IsCivil
    <3> QED
      BY <3>1, <3>2, SMT
  <2>2. /\ Civil(s).year = Civil(t).year /\ Civil(s).month = Civil(t).month
        /\ t - s = Civil(t).day - Civil(s).day
    BY <1>1, <1>2, <1>5, WithinMonth
  <2>3. PICK len \in 28..31 : len = DaysInMonth(Civil(s).year, Civil(s).month)
    BY CivilValid, DaysInMonthRange DEF IsCivil
  <2>4. /\ Civil(s).day = IF Civil(d).day < len THEN Civil(d).day ELSE len
        /\ Civil(t).day = IF Civil(e).day < len THEN Civil(e).day ELSE len
    BY <1>1, <1>2, <2>2, <2>3
  <2> QED
    BY <1>1, <1>2, <2>1, <2>2, <2>4, SMT
<1> QED
  BY <1>3, <1>4, <1>5, SMT

\* The last day of a month.
LEMMA EndOfMonthIs ==
  ASSUME NEW d \in Int, NEW s, s = EndOfMonth(d)
  PROVE  /\ s \in Int /\ MonthNo(s) = MonthNo(d)
         /\ Civil(s).day = DaysInMonth(Civil(s).year, Civil(s).month)
<1>1. /\ Civil(d).year \in Int /\ Civil(d).month \in 1..12
      /\ MonthNo(d) = 12 * Civil(d).year + Civil(d).month
  BY CivilValid DEF IsCivil, MonthNo
<1>2. PICK len \in 28..31 : len = DaysInMonth(Civil(d).year, Civil(d).month)
  BY <1>1, DaysInMonthRange
<1>3. len \in Nat /\ 1 <= len
  BY SMT
<1>4. s = DaysFromCivil(Civil(d).year, Civil(d).month, len)
  BY <1>2 DEF EndOfMonth
<1> QED
  <2>1. len <= DaysInMonth(Civil(d).year, Civil(d).month)
    BY <1>2, SMT
  <2>2. /\ s \in Int
        /\ Civil(s).year = Civil(d).year /\ Civil(s).month = Civil(d).month
        /\ Civil(s).day = len
        /\ MonthNo(s) = 12 * Civil(d).year + Civil(d).month
    <3>1. /\ s \in Int
          /\ Civil(s) = [year |-> Civil(d).year, month |-> Civil(d).month, day |-> len]
      BY <1>1, <1>3, <1>4, <2>1, DatesReturn
    <3>2. /\ Civil(s).year = Civil(d).year /\ Civil(s).month = Civil(d).month
          /\ Civil(s).day = len
      BY <3>1
    <3> QED
      BY <3>1, <3>2 DEF MonthNo
  <2> QED
    BY <1>1, <1>2, <2>2

LEMMA IsEndOfMonthIs ==
  ASSUME NEW d \in Int
  PROVE  IsEndOfMonth(d) <=> Civil(d).day = DaysInMonth(Civil(d).year, Civil(d).month)
<1>1. PICK s \in Int : /\ s = EndOfMonth(d) /\ MonthNo(s) = MonthNo(d)
                       /\ Civil(s).day = DaysInMonth(Civil(s).year, Civil(s).month)
  BY EndOfMonthIs
<1>2. /\ Civil(d).year = Civil(s).year /\ Civil(d).month = Civil(s).month
      /\ s - d = Civil(s).day - Civil(d).day
  BY <1>1, WithinMonth
<1>3. Civil(s).day \in Nat /\ Civil(d).day \in Nat
  BY CivilValid DEF IsCivil
<1>4. IsEndOfMonth(d) <=> s = d
  BY <1>1 DEF IsEndOfMonth
<1> QED
  BY <1>1, <1>2, <1>3, <1>4, SMT

\* With the end-of-month rule too, a shift moves by n months, and month ends
\* stay month ends.
LEMMA ShiftMonthsIs ==
  ASSUME NEW d \in Int, NEW n \in Int, NEW eom \in BOOLEAN,
         NEW s, s = ShiftMonths(d, n, eom)
  PROVE  /\ s \in Int /\ MonthNo(s) = MonthNo(d) + n
         /\ eom /\ IsEndOfMonth(d) => IsEndOfMonth(s)
<1>1. PICK a \in Int : a = AddMonths(d, n) /\ MonthNo(a) = MonthNo(d) + n
  BY AddMonthsIs
<1>2. CASE eom /\ IsEndOfMonth(d)
  <2>1. s = EndOfMonth(a)
    BY <1>1, <1>2 DEF ShiftMonths
  <2>2. /\ s \in Int /\ MonthNo(s) = MonthNo(a)
        /\ Civil(s).day = DaysInMonth(Civil(s).year, Civil(s).month)
    BY <2>1, EndOfMonthIs
  <2> QED
    BY <1>1, <2>2, IsEndOfMonthIs
<1>3. CASE ~(eom /\ IsEndOfMonth(d))
  BY <1>1, <1>3 DEF ShiftMonths
<1> QED
  BY <1>2, <1>3

\* The calendar everybody knows: the day after a day.
NextDate(c) ==
  IF c.day < DaysInMonth(c.year, c.month)
    THEN [year |-> c.year, month |-> c.month, day |-> c.day + 1]
  ELSE IF c.month < 12 THEN [year |-> c.year, month |-> c.month + 1, day |-> 1]
  ELSE [year |-> c.year + 1, month |-> 1, day |-> 1]

LEMMA NextDay ==
  ASSUME NEW d \in Int
  PROVE  Civil(d + 1) = NextDate(Civil(d))
<1> DEFINE c == Civil(d)
           n == NextDate(c)
<1>1. /\ c.year \in Int /\ c.month \in 1..12
      /\ c.day \in Nat /\ 1 <= c.day /\ c.day <= DaysInMonth(c.year, c.month)
      /\ DaysInMonth(c.year, c.month) \in 28..31
      /\ MonthNo(d) = 12 * c.year + c.month
      /\ MonthNo(d) \in Int
  BY CivilValid, DaysInMonthRange DEF IsCivil, MonthNo
<1> HIDE DEF c
<1>2. /\ n = [year |-> n.year, month |-> n.month, day |-> n.day]
      /\ n.year \in Int /\ n.month \in 1..12 /\ n.day \in Nat /\ 1 <= n.day
      /\ \/ /\ c.day < DaysInMonth(c.year, c.month)
            /\ n.year = c.year /\ n.month = c.month /\ n.day = c.day + 1
         \/ /\ c.day = DaysInMonth(c.year, c.month)
            /\ 12 * n.year + n.month = 12 * c.year + c.month + 1
            /\ n.day = 1
  BY <1>1, SMT DEF NextDate
<1> HIDE DEF n
<1>3. n.day <= DaysInMonth(n.year, n.month)
  <2>1. DaysInMonth(n.year, n.month) \in 28..31
    BY <1>2, DaysInMonthRange
  <2>2. CASE n.day = 1
    BY <2>1, <2>2, SMT
  <2>3. CASE n.year = c.year /\ n.month = c.month /\ n.day = c.day + 1
             /\ c.day < DaysInMonth(c.year, c.month)
    BY <1>1, <2>1, <2>3, SMT
  <2> QED
    BY <1>2, <2>2, <2>3
<1>4. PICK x \in Int : Civil(x) = n
  <2>1. /\ DaysFromCivil(n.year, n.month, n.day) \in Int
        /\ Civil(DaysFromCivil(n.year, n.month, n.day)) = n
    BY <1>2, <1>3, DatesReturn
  <2> QED
    BY <2>1
<1>5. MonthNo(x) = 12 * n.year + n.month /\ MonthNo(x) \in Int
  BY <1>4, CivilValid DEF MonthNo
<1>6. x = d + 1
  <2>1. CASE n.year = c.year /\ n.month = c.month /\ n.day = c.day + 1
    <3>1. MonthNo(d) = MonthNo(x)
      BY <1>1, <1>5, <2>1
    <3>2. x - d = Civil(x).day - Civil(d).day
      BY <3>1, WithinMonth
    <3> QED
      BY <1>1, <1>4, <2>1, <3>2, SMT DEF c
  <2>2. CASE /\ c.day = DaysInMonth(c.year, c.month)
             /\ 12 * n.year + n.month = 12 * c.year + c.month + 1
             /\ n.day = 1
    <3>1. MonthNo(d) < MonthNo(x) /\ MonthNo(x) = MonthNo(d) + 1
      BY <1>1, <1>5, <2>2, SMT
    <3>2. d < x
      BY <3>1, MonthsInOrder
    <3>3. PICK e \in Int : e = d + 1
      BY SMT
    <3>4. e <= x /\ d <= e
      BY <3>2, <3>3, SMT
    <3>5. MonthNo(d) <= MonthNo(e) /\ MonthNo(e) <= MonthNo(x) /\ MonthNo(e) \in Int
      BY <3>4, MonthsOrdered, CivilValid
    <3>6. /\ 1 <= Civil(e).day /\ Civil(e).day \in Nat
          /\ Civil(e).day <= DaysInMonth(Civil(e).year, Civil(e).month)
      BY CivilValid DEF IsCivil
    <3>7. CASE MonthNo(e) = MonthNo(d)
      <4>1. /\ Civil(e).year = c.year /\ Civil(e).month = c.month
            /\ e - d = Civil(e).day - c.day
        BY <3>7, WithinMonth DEF c
      <4> QED
        BY <1>1, <2>2, <3>3, <3>6, <4>1, SMT
    <3>8. CASE MonthNo(e) = MonthNo(x)
      <4>1. x - e = n.day - Civil(e).day
        BY <1>4, <3>8, WithinMonth
      <4> QED
        BY <2>2, <3>3, <3>4, <3>6, <4>1, SMT
    <3> QED
      BY <1>1, <1>5, <3>1, <3>5, <3>7, <3>8, SMT
  <2> QED
    BY <1>2, <2>1, <2>2
<1> QED
  BY <1>4, <1>6 DEF n, c

------------------------------------------------------------------------------
(* First and last days with a property, and induction, by way of least      *)
(* numbers.                                                                 *)

LEMMA LeastNumber ==
  ASSUME NEW T, T \subseteq Nat, T # {}
  PROVE  \E x \in T : \A y \in T : x <= y
<1>1. PICK x \in T : \A y \in T : ~ (<<y, x>> \in OpToRel(<, Nat))
  BY NatLessThanWellFounded, WFMin, Zenon
<1>2. ASSUME NEW y \in T
      PROVE  x <= y
  <2>1. ~ (y < x)
    BY <1>1, Zenon DEF OpToRel
  <2> QED
    BY <2>1, SMT
<1> QED
  BY <1>2

LEMMA FirstFrom ==
  ASSUME NEW T, NEW a \in Int, NEW b \in Int, a <= b, b \in T
  PROVE  \E x \in a..b : x \in T /\ \A y \in a..(x - 1) : y \notin T
<1> DEFINE N == {n \in Nat : a + n \in T}
<1>1. N \subseteq Nat /\ N # {}
  <2>1. b - a \in N
    BY SMT
  <2> QED
    BY <2>1
<1>2. PICK n \in N : \A m \in N : n <= m
  <2> HIDE DEF N
  <2> QED
    BY <1>1, LeastNumber
<1>3. a + n \in a..b /\ a + n \in T
  <2>1. b - a \in N
    BY SMT
  <2>2. n <= b - a
    BY <1>2, <2>1
  <2> QED
    BY <2>2, SMT
<1>4. ASSUME NEW y \in a..(a + n - 1), y \in T
      PROVE  FALSE
  <2>1. y - a \in N
    BY <1>4, SMT
  <2>2. n <= y - a
    BY <1>2, <2>1
  <2> QED
    BY <2>2, SMT
<1> QED
  BY <1>3, <1>4, SMT

LEMMA LastUpTo ==
  ASSUME NEW T, NEW a \in Int, NEW b \in Int, b <= a, b \in T
  PROVE  \E x \in b..a : x \in T /\ \A y \in (x + 1)..a : y \notin T
<1> DEFINE N == {n \in Nat : a - n \in T}
<1>1. N \subseteq Nat /\ N # {}
  <2>1. a - b \in N
    BY SMT
  <2> QED
    BY <2>1
<1>2. PICK n \in N : \A m \in N : n <= m
  <2> HIDE DEF N
  <2> QED
    BY <1>1, LeastNumber
<1>3. a - n \in b..a /\ a - n \in T
  <2>1. a - b \in N
    BY SMT
  <2>2. n <= a - b
    BY <1>2, <2>1
  <2> QED
    BY <2>2, SMT
<1>4. ASSUME NEW y \in (a - n + 1)..a, y \in T
      PROVE  FALSE
  <2>1. a - y \in N
    BY <1>4, SMT
  <2>2. n <= a - y
    BY <1>2, <2>1
  <2> QED
    BY <2>2, SMT
<1> QED
  BY <1>3, <1>4, SMT

LEMMA UpToAll ==
  ASSUME NEW S, 0 \in S, \A n \in Nat : n \in S => n + 1 \in S
  PROVE  Nat \subseteq S
<1> SUFFICES ASSUME Nat \ S # {}
             PROVE  FALSE
  OBVIOUS
<1>1. PICK n \in Nat \ S : \A m \in Nat \ S : n <= m
  BY LeastNumber
<1>2. n - 1 \in Nat /\ n - 1 \notin S
  <2>1. n # 0
    OBVIOUS
  <2> QED
    BY <2>1, SMT
<1> QED
  BY <1>1, <1>2, SMT

------------------------------------------------------------------------------
(* Business days.  The weekend mask leaves one weekday w free; of the        *)
(* Cardinality(holidays) + 1 days w that come next, holidays cannot hold     *)
(* every one.                                                                *)

\* What a calendar always is.
IsCalendar(c) == (\E w \in Weekdays : w \notin c.weekend) /\ IsFiniteSet(c.holidays)

\* Weekday, with the branch for days before 1970, is the remainder of a
\* division that rounds down.
LEMMA WeekdayIsRemainder ==
  ASSUME NEW d \in Int
  PROVE  Weekday(d) = (d + 4) % 7
<1>1. CASE d >= -4
  BY <1>1 DEF Weekday
<1>2. CASE d < -4
  <2> DEFINE a == d + 5
  <2>1. a \in Int /\ a <= 0
    BY <1>2
  <2>2. Truncated(a, 7) = -((-a) \div 7)
    BY <2>1 DEF Truncated
  <2>3. Remainder(a, 7) = a + 7 * ((-a) \div 7)
    BY <2>1, <2>2 DEF Remainder
  <2>4. a + 7 * ((-a) \div 7) + 6 = (a + 6) % 7
    BY <2>1
  <2> QED
    BY <1>2, <2>3, <2>4 DEF Weekday
<1> QED
  BY <1>1, <1>2

\* Every weekday comes round within a week.
LEMMA WeekdayComes ==
  ASSUME NEW d \in Int, NEW w \in Weekdays
  PROVE  \E k \in 0..6 : \A j \in Int : Weekday(d + k + 7 * j) = w
<1> DEFINE k == (w - (d + 4)) % 7
<1>1. k \in 0..6
  BY DEF Weekdays
<1>2. ASSUME NEW j \in Int
      PROVE  Weekday(d + k + 7 * j) = w
  <2>1. (d + k + 7 * j + 4) % 7 = w
    BY <1>1 DEF Weekdays
  <2> HIDE DEF k
  <2> QED
    BY <1>1, <2>1, WeekdayIsRemainder
<1> HIDE DEF k
<1> QED
  BY <1>1, <1>2

\* A finite set cannot hold every one of Cardinality(S) + 1 different values.
LEMMA OneIsFree ==
  ASSUME NEW S, IsFiniteSet(S), NEW f \in [0..Cardinality(S) -> Int],
         \A i, j \in 0..Cardinality(S) : f[i] = f[j] => i = j
  PROVE  \E j \in 0..Cardinality(S) : f[j] \notin S
<1> DEFINE n == Cardinality(S)
<1>1. n \in Nat
  BY FS_CardinalityType
<1> SUFFICES ASSUME \A j \in 0..n : f[j] \in S
             PROVE  FALSE
  OBVIOUS
<1>2. f \in Injection(0..n, S)
  BY DEF Injection, IsInjective
<1>3. Cardinality(0..n) <= n
  BY <1>2, FS_Injection
<1>4. Cardinality(0..n) = n + 1
  BY <1>1, FS_Interval
<1> QED
  BY <1>1, <1>3, <1>4

\* Within Reach of any day there is a business day, before and after.
LEMMA BusinessDayWithinReach ==
  ASSUME NEW c, IsCalendar(c), NEW d \in Int
  PROVE  /\ \E e \in d..(d + Reach(c)) : IsBusinessDay(c, e)
         /\ \E e \in (d - Reach(c))..d : IsBusinessDay(c, e)
<1> DEFINE H == c.holidays
           n == Cardinality(H)
<1>1. IsFiniteSet(H) /\ n \in Nat
  BY FS_CardinalityType DEF IsCalendar
<1>2. PICK w \in Weekdays : w \notin c.weekend
  BY DEF IsCalendar
<1>3. Reach(c) = 7 * (n + 1)
  BY DEF Reach
<1>4. ASSUME NEW e \in Int, Weekday(e) = w, e \notin H
      PROVE  IsBusinessDay(c, e)
  BY <1>2, <1>4 DEF IsBusinessDay, IsWeekend, IsHoliday
<1>5. \E e \in d..(d + Reach(c)) : IsBusinessDay(c, e)
  <2>1. PICK k \in 0..6 : \A j \in Int : Weekday(d + k + 7 * j) = w
    BY WeekdayComes
  <2> DEFINE f == [j \in 0..n |-> d + k + 7 * j]
  <2>2. PICK j \in 0..n : f[j] \notin H
    <3>1. f \in [0..n -> Int] /\ \A i, j \in 0..n : f[i] = f[j] => i = j
      BY <1>1
    <3> HIDE DEF f
    <3> QED
      BY <1>1, <3>1, OneIsFree
  <2> DEFINE e == d + k + 7 * j
  <2>3. e \in d..(d + Reach(c))
    BY <1>1, <1>3
  <2>4. IsBusinessDay(c, e)
    BY <1>4, <2>1, <2>2
  <2> QED
    BY <2>3, <2>4
<1>6. \E e \in (d - Reach(c))..d : IsBusinessDay(c, e)
  <2> DEFINE b == d - 6
  <2>0. b \in Int
    OBVIOUS
  <2>1. PICK k \in 0..6 : \A j \in Int : Weekday(b + k + 7 * j) = w
    <3> HIDE DEF b
    <3> QED
      BY <2>0, WeekdayComes
  <2> DEFINE f == [j \in 0..n |-> b + k + 7 * (-j)]
  <2>2. PICK j \in 0..n : f[j] \notin H
    <3>1. f \in [0..n -> Int] /\ \A i, j \in 0..n : f[i] = f[j] => i = j
      BY <1>1
    <3> HIDE DEF f
    <3> QED
      BY <1>1, <3>1, OneIsFree
  <2> DEFINE e == b + k + 7 * (-j)
  <2>3. e \in (d - Reach(c))..d
    BY <1>1, <1>3
  <2>4. Weekday(e) = w
    <3>1. -j \in Int
      BY <1>1
    <3> QED
      BY <2>1, <3>1
  <2>5. IsBusinessDay(c, e)
    BY <1>4, <2>2, <2>3, <2>4
  <2> QED
    BY <2>3, <2>5
<1> QED
  BY <1>5, <1>6

LEMMA ReachType == ASSUME NEW c, IsCalendar(c) PROVE Reach(c) \in Nat
<1>1. Cardinality(c.holidays) \in Nat
  BY FS_CardinalityType DEF IsCalendar
<1> QED
  BY <1>1 DEF Reach

\* The walks stop on the first business day they meet.
LEMMA FollowingIs ==
  ASSUME NEW c, IsCalendar(c), NEW d \in Int
  PROVE  /\ Following(c, d) \in Int /\ d <= Following(c, d)
         /\ IsBusinessDay(c, Following(c, d))
         /\ \A x \in d..(Following(c, d) - 1) : ~IsBusinessDay(c, x)
<1> DEFINE T == {x \in Int : IsBusinessDay(c, x)}
           P(e) == IsBusinessDay(c, e) /\ \A x \in d..(e - 1) : ~IsBusinessDay(c, x)
<1>1. Reach(c) \in Nat
  BY ReachType
<1>2. PICK b \in d..(d + Reach(c)) : IsBusinessDay(c, b)
  BY BusinessDayWithinReach
<1>3. b \in Int /\ d <= b /\ b \in T
  BY <1>1, <1>2
<1>4. \E e \in d..b : e \in T /\ \A x \in d..(e - 1) : x \notin T
  <2> HIDE DEF T
  <2> QED
    BY <1>3, FirstFrom
<1>5. \E e \in d..(d + Reach(c)) : P(e)
  BY <1>1, <1>2, <1>4
<1>6. Following(c, d) = CHOOSE e \in d..(d + Reach(c)) : P(e)
  BY DEF Following
<1>7. Following(c, d) \in d..(d + Reach(c)) /\ P(Following(c, d))
  <2> HIDE DEF P
  <2> QED
    BY <1>5, <1>6
<1> QED
  BY <1>1, <1>7

LEMMA PrecedingIs ==
  ASSUME NEW c, IsCalendar(c), NEW d \in Int
  PROVE  /\ Preceding(c, d) \in Int /\ Preceding(c, d) <= d
         /\ IsBusinessDay(c, Preceding(c, d))
         /\ \A x \in (Preceding(c, d) + 1)..d : ~IsBusinessDay(c, x)
<1> DEFINE T == {x \in Int : IsBusinessDay(c, x)}
           P(e) == IsBusinessDay(c, e) /\ \A x \in (e + 1)..d : ~IsBusinessDay(c, x)
<1>1. Reach(c) \in Nat
  BY ReachType
<1>2. PICK b \in (d - Reach(c))..d : IsBusinessDay(c, b)
  BY BusinessDayWithinReach
<1>3. b \in Int /\ b <= d /\ b \in T
  BY <1>1, <1>2
<1>4. \E e \in b..d : e \in T /\ \A x \in (e + 1)..d : x \notin T
  <2> HIDE DEF T
  <2> QED
    BY <1>3, LastUpTo
<1>5. \E e \in (d - Reach(c))..d : P(e)
  BY <1>1, <1>2, <1>4
<1>6. Preceding(c, d) = CHOOSE e \in (d - Reach(c))..d : P(e)
  BY DEF Preceding
<1>7. Preceding(c, d) \in (d - Reach(c))..d /\ P(Preceding(c, d))
  <2> HIDE DEF P
  <2> QED
    BY <1>5, <1>6
<1> QED
  BY <1>1, <1>7

\* Between the two there is no business day, but the day itself.
LEMMA NoneBetween ==
  ASSUME NEW c, IsCalendar(c), NEW d \in Int, NEW b \in Int, IsBusinessDay(c, b)
  PROVE  /\ d <= b => Following(c, d) <= b
         /\ b <= d => b <= Preceding(c, d)
<1>1. /\ Following(c, d) \in Int
      /\ \A x \in d..(Following(c, d) - 1) : ~IsBusinessDay(c, x)
  BY FollowingIs
<1>2. /\ Preceding(c, d) \in Int
      /\ \A x \in (Preceding(c, d) + 1)..d : ~IsBusinessDay(c, x)
  BY PrecedingIs
<1> QED
  BY <1>1, <1>2

\* No 300 days in a row without a business day.
OpensYearly(c) == \A d \in Int : \E e \in d..(d + 300) : IsBusinessDay(c, e)

\* Two days at most 300 days apart that share a month's name share the month,
\* and so do all days between.
LEMMA MonthOfDays ==
  ASSUME NEW a \in Int, NEW b \in Int, NEW x \in Int, a <= x, x <= b, b <= a + 300,
         Civil(a).month = Civil(b).month
  PROVE  Civil(x).month = Civil(a).month
<1>1. /\ MonthNo(a) \in Int /\ MonthNo(b) \in Int /\ MonthNo(x) \in Int
      /\ MonthNo(a) <= MonthNo(x) /\ MonthNo(x) <= MonthNo(b)
  BY CivilValid, MonthsOrdered
<1>2. ~ (MonthNo(a) + 12 <= MonthNo(b))
  <2>1. MonthNo(a) + 12 <= MonthNo(b) => a + 300 < b
    BY MonthsYearApart
  <2> QED
    BY <2>1, SMT
<1>3. MonthNo(a) = MonthNo(b)
  <2>1. PICK y \in Int, z \in Int : y = Civil(a).year /\ z = Civil(b).year
    BY CivilValid DEF IsCivil
  <2>2. PICK m \in 1..12 : m = Civil(a).month /\ m = Civil(b).month
    BY CivilValid DEF IsCivil
  <2>3. MonthNo(a) = 12 * y + m /\ MonthNo(b) = 12 * z + m
    BY <2>1, <2>2 DEF MonthNo
  <2> QED
    BY <1>1, <1>2, <2>3, SMT
<1>4. MonthNo(x) = MonthNo(a)
  BY <1>1, <1>3, SMT
<1> QED
  BY <1>4, WithinMonth

LEMMA ModifiedFollowingIs ==
  ASSUME NEW c, NEW d
  PROVE  Adjust(c, d, "MODIFIED_FOLLOWING")
           = IF Civil(Following(c, d)).month # Civil(d).month
               THEN Preceding(c, d) ELSE Following(c, d)
BY DEF Adjust, ModifiedFollowing

\* Adjustment lands on a business day.
LEMMA AdjustOpens ==
  ASSUME NEW c, IsCalendar(c), NEW d \in Int, NEW bdc \in Adjusting
  PROVE  Adjust(c, d, bdc) \in Int /\ IsBusinessDay(c, Adjust(c, d, bdc))
<1>1. bdc \in {"FOLLOWING", "PRECEDING", "MODIFIED_FOLLOWING"}
  BY DEF Adjusting
<1>2. Adjust(c, d, bdc) \in {Following(c, d), Preceding(c, d)}
  BY <1>1 DEF Adjust, ModifiedFollowing
<1> QED
  BY <1>2, FollowingIs, PrecedingIs

\* Modified following keeps the order of days: two that are moved to
\* different sides have a business day between them.
LEMMA ModifiedOrdered ==
  ASSUME NEW c, IsCalendar(c), OpensYearly(c), NEW a \in Int, NEW b \in Int, a <= b
  PROVE  Adjust(c, a, "MODIFIED_FOLLOWING") <= Adjust(c, b, "MODIFIED_FOLLOWING")
<1>1. PICK f \in Int, g \in Int : f = Following(c, a) /\ g = Following(c, b)
  BY FollowingIs
<1>2. PICK p \in Int, q \in Int : p = Preceding(c, a) /\ q = Preceding(c, b)
  BY PrecedingIs
<1>3. /\ a <= f /\ b <= g /\ p <= a /\ q <= b
      /\ IsBusinessDay(c, f) /\ IsBusinessDay(c, g)
      /\ IsBusinessDay(c, p) /\ IsBusinessDay(c, q)
  BY <1>1, <1>2, FollowingIs, PrecedingIs
<1>4. f <= g /\ p <= q
  <2>1. a <= g => f <= g
    BY <1>1, <1>3, NoneBetween
  <2>2. p <= b => p <= q
    BY <1>2, <1>3, NoneBetween
  <2> QED
    BY <1>3, <2>1, <2>2, SMT
<1>5. /\ Adjust(c, a, "MODIFIED_FOLLOWING")
           = IF Civil(f).month # Civil(a).month THEN p ELSE f
      /\ Adjust(c, b, "MODIFIED_FOLLOWING")
           = IF Civil(g).month # Civil(b).month THEN q ELSE g
  BY <1>1, <1>2, ModifiedFollowingIs
<1>6. CASE Civil(f).month = Civil(a).month /\ Civil(g).month # Civil(b).month
  <2>1. CASE f <= b
    <3>1. f <= q
      BY <1>2, <1>3, <2>1, NoneBetween
    <3> QED
      BY <1>5, <1>6, <3>1
  <2>2. CASE b < f
    <3>1. g = f
      <4>1. b <= f => g <= f
        BY <1>1, <1>3, NoneBetween
      <4> QED
        BY <1>4, <2>2, <4>1, SMT
    <3>2. f <= a + 300
      <4>1. PICK e \in a..(a + 300) : IsBusinessDay(c, e)
        BY DEF OpensYearly
      <4>2. a <= e => f <= e
        BY <1>1, <4>1, NoneBetween
      <4> QED
        BY <4>1, <4>2, SMT
    <3>3. Civil(b).month = Civil(a).month
      <4>1. b <= f
        BY <2>2, SMT
      <4> QED
        BY <1>3, <1>6, <3>2, <4>1, MonthOfDays
    <3> QED
      BY <1>6, <3>1, <3>3
  <2> QED
    BY <2>1, <2>2, SMT
<1>7. CASE ~ (Civil(f).month = Civil(a).month /\ Civil(g).month # Civil(b).month)
  <2>1. p <= g /\ p <= q /\ f <= g
    BY <1>3, <1>4, SMT
  <2> QED
    BY <1>5, <1>7, <2>1
<1> QED
  BY <1>6, <1>7

\* No convention reorders days.
LEMMA AdjustOrdered ==
  ASSUME NEW c, IsCalendar(c), NEW bdc \in Adjusting,
         bdc = "MODIFIED_FOLLOWING" => OpensYearly(c),
         NEW a \in Int, NEW b \in Int, a <= b
  PROVE  Adjust(c, a, bdc) <= Adjust(c, b, bdc)
<1>1. CASE bdc = "FOLLOWING"
  <2>1. /\ Following(c, b) \in Int /\ b <= Following(c, b)
        /\ IsBusinessDay(c, Following(c, b))
    BY FollowingIs
  <2>2. a <= Following(c, b)
    BY <2>1, SMT
  <2>3. Following(c, a) <= Following(c, b)
    BY <2>1, <2>2, NoneBetween
  <2> QED
    BY <1>1, <2>3 DEF Adjust
<1>2. CASE bdc = "PRECEDING"
  <2>1. /\ Preceding(c, a) \in Int /\ Preceding(c, a) <= a
        /\ IsBusinessDay(c, Preceding(c, a))
    BY PrecedingIs
  <2>2. Preceding(c, a) <= b
    BY <2>1, SMT
  <2>3. Preceding(c, a) <= Preceding(c, b)
    BY <2>1, <2>2, NoneBetween
  <2> QED
    BY <1>2, <2>3 DEF Adjust
<1>3. CASE bdc = "MODIFIED_FOLLOWING"
  BY <1>3, ModifiedOrdered
<1> QED
  BY <1>1, <1>2, <1>3 DEF Adjusting

\* Modified following stays in the month if the month has a business day.
LEMMA ModifiedStays ==
  ASSUME NEW c, IsCalendar(c), NEW d \in Int,
         NEW e \in (d - 31)..(d + 31), Civil(e).month = Civil(d).month, IsBusinessDay(c, e)
  PROVE  Civil(Adjust(c, d, "MODIFIED_FOLLOWING")).month = Civil(d).month
<1>1. PICK f \in Int, p \in Int : /\ f = Following(c, d) /\ d <= f
                                  /\ p = Preceding(c, d) /\ p <= d
  BY FollowingIs, PrecedingIs
<1>2. Adjust(c, d, "MODIFIED_FOLLOWING") = IF Civil(f).month # Civil(d).month THEN p ELSE f
  BY <1>1, ModifiedFollowingIs
<1>3. e \in Int /\ (d <= e => f <= e) /\ (e <= d => e <= p)
  BY <1>1, NoneBetween
<1>4. CASE d <= e
  <2>1. e <= d + 300 /\ f <= e
    BY <1>3, <1>4, SMT
  <2>2. Civil(f).month = Civil(d).month
    BY <1>1, <1>3, <2>1, MonthOfDays
  <2> QED
    BY <1>2, <2>2
<1>5. CASE e <= d
  <2>1. d <= e + 300 /\ e <= p
    BY <1>3, <1>5, SMT
  <2>2. Civil(p).month = Civil(d).month
    BY <1>1, <1>3, <2>1, MonthOfDays
  <2> QED
    BY <1>2, <2>2
<1> QED
  BY <1>3, <1>4, <1>5, SMT

------------------------------------------------------------------------------
(* advance, which is a walk from business day to business day.              *)

BusinessStep(c, n, x) == IF n > 0 THEN Following(c, x + 1) ELSE Preceding(c, x - 1)

\* The days a walk of s steps from d passes.
IsWalk(c, d, n, s, f) ==
  /\ f \in [0..s -> Int] /\ f[0] = d
  /\ \A i \in 0..(s - 1) : f[i + 1] = BusinessStep(c, n, f[i])

StepsOf(n) == IF n < 0 THEN -n ELSE n

LEMMA StepType ==
  ASSUME NEW c, IsCalendar(c), NEW n \in Int, NEW x \in Int
  PROVE  BusinessStep(c, n, x) \in Int
<1>1. x + 1 \in Int /\ x - 1 \in Int
  OBVIOUS
<1> QED
  BY <1>1, FollowingIs, PrecedingIs DEF BusinessStep

LEMMA WalkExists ==
  ASSUME NEW c, IsCalendar(c), NEW d \in Int, NEW n \in Int, NEW s \in Nat
  PROVE  \E f : IsWalk(c, d, n, s, f)
<1> DEFINE S == {k \in Nat : \E f : IsWalk(c, d, n, k, f)}
<1>1. 0 \in S
  <2>1. IsWalk(c, d, n, 0, [i \in 0..0 |-> d])
    BY DEF IsWalk
  <2> QED
    BY <2>1
<1>2. ASSUME NEW k \in Nat, k \in S
      PROVE  k + 1 \in S
  <2>1. PICK f : IsWalk(c, d, n, k, f)
    BY <1>2
  <2>2. f \in [0..k -> Int] /\ f[0] = d /\ f[k] \in Int
        /\ \A i \in 0..(k - 1) : f[i + 1] = BusinessStep(c, n, f[i])
    BY <2>1 DEF IsWalk
  <2>3. PICK x \in Int : x = BusinessStep(c, n, f[k])
    BY <2>2, StepType
  <2> DEFINE g == [i \in 0..(k + 1) |-> IF i = k + 1 THEN x ELSE f[i]]
  <2>4. g \in [0..(k + 1) -> Int] /\ g[0] = d /\ g[k + 1] = x
        /\ \A i \in 0..k : g[i] = f[i]
    BY <2>2
  <2> HIDE DEF g
  <2>5. ASSUME NEW i \in 0..(k + 1 - 1)
        PROVE  g[i + 1] = BusinessStep(c, n, g[i])
    <3>1. CASE i = k
      <4>1. k \in 0..k
        OBVIOUS
      <4>2. g[k] = f[k]
        BY <2>4, <4>1
      <4> QED
        BY <2>3, <2>4, <3>1, <4>2
    <3>2. CASE i \in 0..(k - 1)
      <4>1. i \in 0..k /\ i + 1 \in 0..k
        BY <3>2
      <4>2. g[i] = f[i] /\ g[i + 1] = f[i + 1]
        BY <2>4, <4>1
      <4> QED
        BY <2>2, <3>2, <4>2
    <3> QED
      BY <3>1, <3>2
  <2>6. IsWalk(c, d, n, k + 1, g)
    BY <2>4, <2>5 DEF IsWalk
  <2> QED
    BY <2>6
<1>3. Nat \subseteq S
  <2> HIDE DEF S
  <2> QED
    BY <1>1, <1>2, UpToAll
<1> QED
  BY <1>3

\* There is one walk only.
LEMMA WalkOnce ==
  ASSUME NEW c, NEW d \in Int, NEW n \in Int, NEW s \in Nat,
         NEW f, IsWalk(c, d, n, s, f), NEW g, g[0] = d,
         \A i \in 0..(s - 1) : g[i + 1] = BusinessStep(c, n, g[i])
  PROVE  \A i \in 0..s : g[i] = f[i]
<1> DEFINE S == {k \in Nat : k <= s => g[k] = f[k]}
<1>1. 0 \in S
  BY DEF IsWalk
<1>2. ASSUME NEW k \in Nat, k \in S
      PROVE  k + 1 \in S
  <2>1. CASE k + 1 <= s
    <3>1. k \in 0..(s - 1) /\ g[k] = f[k]
      BY <1>2, <2>1
    <3>2. g[k + 1] = BusinessStep(c, n, g[k]) /\ f[k + 1] = BusinessStep(c, n, f[k])
      BY <3>1 DEF IsWalk
    <3>3. g[k + 1] = f[k + 1]
      BY <3>1, <3>2
    <3> QED
      BY <3>3
  <2>2. CASE ~ (k + 1 <= s)
    BY <2>2
  <2> QED
    BY <2>1, <2>2
<1>3. Nat \subseteq S
  <2> HIDE DEF S
  <2> QED
    BY <1>1, <1>2, UpToAll
<1> QED
  BY <1>3

\* advance takes that walk.
LEMMA AdvanceIs ==
  ASSUME NEW c, IsCalendar(c), NEW d \in Int, NEW n \in Int,
         NEW f, IsWalk(c, d, n, StepsOf(n), f)
  PROVE  Advance(c, d, n) = f[StepsOf(n)]
<1> DEFINE s == StepsOf(n)
           R(to) == to = [i \in 0..s |->
                            IF i = 0 THEN d
                            ELSE IF n > 0 THEN Following(c, to[i - 1] + 1)
                                          ELSE Preceding(c, to[i - 1] - 1)]
<1>1. s \in Nat
  BY DEF StepsOf
<1>2. Advance(c, d, n) = (CHOOSE to : R(to))[s]
  BY DEF Advance, StepsOf
<1> HIDE DEF s
<1>3. R(f)
  <2>1. f \in [0..s -> Int] /\ f[0] = d
        /\ \A i \in 0..(s - 1) : f[i + 1] = BusinessStep(c, n, f[i])
    BY DEF IsWalk, s
  <2>2. ASSUME NEW i \in 0..s, i # 0
        PROVE  f[i] = IF n > 0 THEN Following(c, f[i - 1] + 1)
                               ELSE Preceding(c, f[i - 1] - 1)
    <3>1. PICK j \in 0..(s - 1) : i = j + 1 /\ j = i - 1
      BY <1>1, <2>2
    <3> QED
      BY <2>1, <3>1 DEF BusinessStep
  <2> QED
    BY <1>1, <2>1, <2>2
<1>4. PICK g : g = (CHOOSE to : R(to)) /\ R(g)
  <2> HIDE DEF R
  <2> QED
    BY <1>3
<1>5. g[0] = d /\ \A i \in 0..(s - 1) : g[i + 1] = BusinessStep(c, n, g[i])
  <2>1. g[0] = d
    <3>1. 0 \in 0..s
      BY <1>1
    <3>2. g[0] = IF 0 = 0 THEN d
                 ELSE IF n > 0 THEN Following(c, g[0 - 1] + 1)
                               ELSE Preceding(c, g[0 - 1] - 1)
      BY <1>4, <3>1, Zenon
    <3> QED
      BY <3>2
  <2>2. ASSUME NEW i \in 0..(s - 1)
        PROVE  g[i + 1] = BusinessStep(c, n, g[i])
    <3>1. i + 1 \in 0..s /\ i + 1 # 0 /\ (i + 1) - 1 = i
      BY <1>1
    <3>2. g[i + 1] = IF n > 0 THEN Following(c, g[(i + 1) - 1] + 1)
                              ELSE Preceding(c, g[(i + 1) - 1] - 1)
      BY <1>4, <3>1
    <3> QED
      BY <3>1, <3>2 DEF BusinessStep
  <2> QED
    BY <2>1, <2>2
<1>6. g[s] = f[s]
  <2>1. \A i \in 0..s : g[i] = f[i]
    BY <1>1, <1>5, WalkOnce DEF s
  <2> QED
    BY <1>1, <2>1
<1> QED
  BY <1>2, <1>4, <1>6 DEF s

\* The business days from a on, b not counted.
CountIn(c, a, b) == Cardinality({x \in a..(b - 1) : IsBusinessDay(c, x)})

LEMMA CountType ==
  ASSUME NEW c, NEW a \in Int, NEW b \in Int
  PROVE  /\ IsFiniteSet({x \in a..(b - 1) : IsBusinessDay(c, x)})
         /\ CountIn(c, a, b) \in Nat
         /\ b <= a => CountIn(c, a, b) = 0
         /\ CountIn(c, a, a) = 0
<1> DEFINE T == {x \in a..(b - 1) : IsBusinessDay(c, x)}
<1>1. IsFiniteSet(a..(b - 1)) /\ T \subseteq a..(b - 1)
  BY FS_Interval
<1>2. IsFiniteSet(T)
  <2> HIDE DEF T
  <2> QED
    BY <1>1, FS_Subset
<1>3. b <= a => T = {}
  OBVIOUS
<1>4. CountIn(c, a, b) = Cardinality(T)
  BY DEF CountIn
<1>5. CountIn(c, a, a) = 0
  <2>1. {x \in a..(a - 1) : IsBusinessDay(c, x)} = {}
    OBVIOUS
  <2> QED
    BY <2>1, FS_EmptySet DEF CountIn
<1> HIDE DEF T
<1>6. Cardinality(T) \in Nat /\ (T = {} => Cardinality(T) = 0)
  BY <1>2, FS_CardinalityType, FS_EmptySet
<1> QED
  BY <1>2, <1>3, <1>4, <1>5, <1>6 DEF T

\* One more business day counts one more, at either end.
LEMMA CountsOneMore ==
  ASSUME NEW c, NEW a \in Int, NEW b \in Int, NEW a2 \in Int, NEW b2 \in Int,
         NEW x \in a2..(b2 - 1), IsBusinessDay(c, x), x \notin a..(b - 1),
         a2 <= a, b <= b2,
         \A y \in a2..(b2 - 1) : y \in a..(b - 1) \/ y = x \/ ~IsBusinessDay(c, y)
  PROVE  CountIn(c, a2, b2) = CountIn(c, a, b) + 1
<1> DEFINE T  == {y \in a..(b - 1) : IsBusinessDay(c, y)}
           T2 == {y \in a2..(b2 - 1) : IsBusinessDay(c, y)}
<1>1. T2 = T \cup {x} /\ x \notin T
  <2>1. a..(b - 1) \subseteq a2..(b2 - 1)
    OBVIOUS
  <2> QED
    BY <2>1
<1>2. IsFiniteSet(T)
  BY CountType
<1> HIDE DEF T, T2
<1>3. Cardinality(T2) = Cardinality(T) + 1
  BY <1>1, <1>2, FS_AddElement
<1> QED
  BY <1>3 DEF CountIn, T, T2

\* A step there and back returns.
LEMMA StepReturns ==
  ASSUME NEW c, IsCalendar(c), NEW n \in Int, n # 0, NEW b \in Int, IsBusinessDay(c, b)
  PROVE  BusinessStep(c, -n, BusinessStep(c, n, b)) = b
<1>1. CASE n > 0
  <2>1. PICK x \in Int : /\ x = Following(c, b + 1) /\ b + 1 <= x
                         /\ \A y \in (b + 1)..(x - 1) : ~IsBusinessDay(c, y)
    <3>1. b + 1 \in Int
      OBVIOUS
    <3> QED
      BY <3>1, FollowingIs
  <2>2. PICK p \in Int : /\ p = Preceding(c, x - 1) /\ p <= x - 1 /\ IsBusinessDay(c, p)
                         /\ \A y \in (p + 1)..(x - 1) : ~IsBusinessDay(c, y)
    <3>1. x - 1 \in Int
      OBVIOUS
    <3> QED
      BY <3>1, PrecedingIs
  <2>3. p = b
    <3>1. ~ (p < b)
      BY <2>1, <2>2
    <3>2. ~ (b < p)
      BY <2>1, <2>2
    <3> QED
      BY <3>1, <3>2
  <2> QED
    BY <1>1, <2>1, <2>2, <2>3 DEF BusinessStep
<1>2. CASE n < 0
  <2>1. PICK x \in Int : /\ x = Preceding(c, b - 1) /\ x <= b - 1
                         /\ \A y \in (x + 1)..(b - 1) : ~IsBusinessDay(c, y)
    <3>1. b - 1 \in Int
      OBVIOUS
    <3> QED
      BY <3>1, PrecedingIs
  <2>2. PICK p \in Int : /\ p = Following(c, x + 1) /\ x + 1 <= p /\ IsBusinessDay(c, p)
                         /\ \A y \in (x + 1)..(p - 1) : ~IsBusinessDay(c, y)
    <3>1. x + 1 \in Int
      OBVIOUS
    <3> QED
      BY <3>1, FollowingIs
  <2>3. p = b
    <3>1. ~ (p < b)
      BY <2>1, <2>2
    <3>2. ~ (b < p)
      BY <2>1, <2>2
    <3> QED
      BY <3>1, <3>2
  <2> QED
    BY <1>2, <2>1, <2>2, <2>3 DEF BusinessStep
<1> QED
  BY <1>1, <1>2

\* Each step of a walk from a business day counts one.
LEMMA WalkCounts ==
  ASSUME NEW c, IsCalendar(c), NEW d \in Int, IsBusinessDay(c, d), NEW n \in Int,
         NEW s \in Nat, NEW f, IsWalk(c, d, n, s, f)
  PROVE  \A i \in 0..s :
           /\ f[i] \in Int /\ IsBusinessDay(c, f[i])
           /\ n > 0 => d <= f[i] /\ CountIn(c, d, f[i]) = i
           /\ ~ (n > 0) => f[i] <= d /\ CountIn(c, f[i], d) = i
<1> DEFINE Q(i) == /\ f[i] \in Int /\ IsBusinessDay(c, f[i])
                   /\ n > 0 => d <= f[i] /\ CountIn(c, d, f[i]) = i
                   /\ ~ (n > 0) => f[i] <= d /\ CountIn(c, f[i], d) = i
           S == {i \in Nat : i <= s => Q(i)}
<1>0. /\ \A i \in 0..s : f[i] \in Int
      /\ f[0] = d
      /\ \A i \in 0..(s - 1) : f[i + 1] = BusinessStep(c, n, f[i])
  BY DEF IsWalk
<1>1. 0 \in S
  <2>1. CountIn(c, d, d) = 0
    BY CountType
  <2> QED
    BY <1>0, <2>1
<1>2. ASSUME NEW k \in Nat, k \in S
      PROVE  k + 1 \in S
  <2> SUFFICES ASSUME k + 1 <= s
               PROVE  Q(k + 1)
    OBVIOUS
  <2>1. PICK b \in Int, x \in Int :
          /\ b = f[k] /\ x = f[k + 1] /\ x = BusinessStep(c, n, b)
          /\ IsBusinessDay(c, b)
          /\ n > 0 => d <= b /\ CountIn(c, d, b) = k
          /\ ~ (n > 0) => b <= d /\ CountIn(c, b, d) = k
    <3>1. k \in 0..(s - 1) /\ k \in 0..s /\ k + 1 \in 0..s /\ k <= s
      OBVIOUS
    <3> QED
      BY <1>0, <1>2, <3>1
  <2>2. CASE n > 0
    <3>1. /\ b + 1 \in Int /\ x = Following(c, b + 1)
          /\ b + 1 <= x /\ IsBusinessDay(c, x)
          /\ \A y \in (b + 1)..(x - 1) : ~IsBusinessDay(c, y)
      <4>1. b + 1 \in Int /\ x = Following(c, b + 1)
        BY <2>1, <2>2 DEF BusinessStep
      <4> QED
        BY <4>1, FollowingIs
    <3>2. CountIn(c, d, x) = CountIn(c, d, b) + 1
      <4>1. b \in d..(x - 1) /\ b \notin d..(b - 1) /\ d <= d /\ b <= x
        BY <2>1, <2>2, <3>1
      <4>2. \A y \in d..(x - 1) : y \in d..(b - 1) \/ y = b \/ ~IsBusinessDay(c, y)
        BY <2>1, <3>1
      <4> QED
        BY <2>1, <4>1, <4>2, CountsOneMore
    <3> QED
      BY <2>1, <2>2, <3>1, <3>2
  <2>3. CASE ~ (n > 0)
    <3>1. /\ b - 1 \in Int /\ x = Preceding(c, b - 1)
          /\ x <= b - 1 /\ IsBusinessDay(c, x)
          /\ \A y \in (x + 1)..(b - 1) : ~IsBusinessDay(c, y)
      <4>1. b - 1 \in Int /\ x = Preceding(c, b - 1)
        BY <2>1, <2>3 DEF BusinessStep
      <4> QED
        BY <4>1, PrecedingIs
    <3>2. CountIn(c, x, d) = CountIn(c, b, d) + 1
      <4>1. x \in x..(d - 1) /\ x \notin b..(d - 1) /\ x <= b /\ d <= d
        BY <2>1, <2>3, <3>1
      <4>2. \A y \in x..(d - 1) : y \in b..(d - 1) \/ y = x \/ ~IsBusinessDay(c, y)
        BY <2>1, <3>1
      <4> QED
        BY <3>1, <4>1, <4>2, CountsOneMore
    <3> QED
      BY <2>1, <2>3, <3>1, <3>2
  <2> QED
    BY <2>2, <2>3
<1>3. Nat \subseteq S
  <2> HIDE DEF S
  <2> QED
    BY <1>1, <1>2, UpToAll
<1> QED
  BY <1>3

\* Advancing and counting are each other's inverse, and advancing back returns.
LEMMA AdvanceReturns ==
  ASSUME NEW c, IsCalendar(c), NEW d \in Int, IsBusinessDay(c, d), NEW n \in Int,
         NEW e, e = Advance(c, d, n)
  PROVE  /\ e \in Int /\ IsBusinessDay(c, e)
         /\ BusinessDaysBetween(c, d, e) = n
         /\ Advance(c, e, -n) = d
<1>1. PICK s \in Nat : s = StepsOf(n) /\ s = StepsOf(-n)
  BY DEF StepsOf
<1>2. PICK f : IsWalk(c, d, n, s, f)
  BY WalkExists
<1>3. e = f[s]
  <2>1. IsWalk(c, d, n, StepsOf(n), f)
    BY <1>1, <1>2
  <2>2. Advance(c, d, n) = f[StepsOf(n)]
    BY <2>1, AdvanceIs
  <2> QED
    BY <1>1, <2>2
<1>4. /\ e \in Int /\ IsBusinessDay(c, e)
      /\ n > 0 => d <= e /\ CountIn(c, d, e) = s
      /\ ~ (n > 0) => e <= d /\ CountIn(c, e, d) = s
  BY <1>2, <1>3, WalkCounts
<1>5. BusinessDaysBetween(c, d, e) = n
  <2>1. BusinessDaysBetween(c, d, e) = IF e < d THEN -CountIn(c, e, d) ELSE CountIn(c, d, e)
    BY DEF BusinessDaysBetween, CountIn
  <2>2. e = d => CountIn(c, d, e) = 0
    <3>1. CountIn(c, d, d) = 0
      BY CountType
    <3> QED
      BY <3>1
  <2>3. s = IF n < 0 THEN -n ELSE n
    BY <1>1 DEF StepsOf
  <2> QED
    BY <1>4, <2>1, <2>2, <2>3, SMT
<1>6. Advance(c, e, -n) = d
  <2> DEFINE h == [i \in 0..s |-> f[s - i]]
  <2>1. /\ \A i \in 0..s : f[i] \in Int /\ IsBusinessDay(c, f[i])
        /\ f[0] = d
        /\ \A i \in 0..(s - 1) : f[i + 1] = BusinessStep(c, n, f[i])
    BY <1>2, WalkCounts DEF IsWalk
  <2>2. \A i \in 0..s : s - i \in 0..s
    OBVIOUS
  <2>3. h \in [0..s -> Int] /\ h[0] = e /\ h[s] = d
    BY <1>3, <2>1, <2>2
  <2>4. ASSUME NEW i \in 0..(s - 1)
        PROVE  h[i + 1] = BusinessStep(c, -n, h[i])
    <3>1. PICK j \in 0..(s - 1) : /\ s - i = j + 1 /\ s - (i + 1) = j
                                  /\ j \in 0..s
                                  /\ i \in 0..s /\ i + 1 \in 0..s
      BY SMT
    <3>2. h[i] = f[j + 1] /\ h[i + 1] = f[j]
      BY <3>1
    <3>3. f[j + 1] = BusinessStep(c, n, f[j]) /\ f[j] \in Int /\ IsBusinessDay(c, f[j])
      BY <2>1, <3>1
    <3>4. n # 0
      BY <1>1, <3>1 DEF StepsOf
    <3> QED
      BY <3>2, <3>3, <3>4, StepReturns
  <2>5. IsWalk(c, e, -n, s, h)
    BY <2>3, <2>4 DEF IsWalk
  <2>6. -n \in Int
    OBVIOUS
  <2> HIDE DEF h
  <2>7. IsWalk(c, e, -n, StepsOf(-n), h)
    BY <1>1, <2>5
  <2>8. Advance(c, e, -n) = h[StepsOf(-n)]
    BY <1>4, <2>6, <2>7, AdvanceIs
  <2> QED
    BY <1>1, <2>3, <2>8
<1> QED
  BY <1>4, <1>5, <1>6

------------------------------------------------------------------------------
(* Day counts.                                                              *)

\* Of two days, the later one is later in the month or in a later month.
LEMMA LaterInMonth ==
  ASSUME NEW a \in Int, NEW b \in Int, a <= b
  PROVE  \/ MonthNo(a) = MonthNo(b) /\ Civil(a).day <= Civil(b).day
         \/ MonthNo(a) + 1 <= MonthNo(b)
<1>1. MonthNo(a) \in Int /\ MonthNo(b) \in Int /\ MonthNo(a) <= MonthNo(b)
  BY CivilValid, MonthsOrdered
<1>2. Civil(a).day \in Int /\ Civil(b).day \in Int
  BY CivilValid DEF IsCivil
<1>3. CASE MonthNo(a) = MonthNo(b)
  BY <1>2, <1>3, WithinMonth, SMT
<1>4. CASE MonthNo(a) # MonthNo(b)
  BY <1>1, <1>4, SMT
<1> QED
  BY <1>3, <1>4

\* Days between two dates of thirty-day months, by the numbers of the months.
LEMMA ThirtyIs ==
  ASSUME NEW a \in Int, NEW b \in Int, NEW i \in Int, NEW j \in Int
  PROVE  Thirty(Civil(a), Civil(b), i, j) = 30 * (MonthNo(b) - MonthNo(a)) + (j - i)
<1>1. PICK y \in Int, m \in Int : y = Civil(a).year /\ m = Civil(a).month
  BY CivilValid DEF IsCivil
<1>2. PICK z \in Int, n \in Int : z = Civil(b).year /\ n = Civil(b).month
  BY CivilValid DEF IsCivil
<1>3. Thirty(Civil(a), Civil(b), i, j) = 360 * (z - y) + 30 * (n - m) + (j - i)
  BY <1>1, <1>2 DEF Thirty
<1>4. MonthNo(a) = 12 * y + m /\ MonthNo(b) = 12 * z + n
  BY <1>1, <1>2 DEF MonthNo
<1> QED
  BY <1>3, <1>4, SMT

\* The first and the last day's number after the clamping of a convention.
FirstOf30(k) == IF k = 31 THEN 30 ELSE k
LastOf30(dc, k, i) ==
  IF k = 31 /\ (dc = "THIRTY_360_BOND" => i = 30) THEN 30 ELSE k

Thirties == {"THIRTY_360_BOND", "THIRTY_E_360"}

LEMMA ThirtyFractionIs ==
  ASSUME NEW dc \in Thirties, NEW a \in Int, NEW b \in Int, NEW p,
         NEW i, i = FirstOf30(Civil(a).day), NEW j, j = LastOf30(dc, Civil(b).day, i)
  PROVE  /\ i \in 1..30 /\ j \in 1..31
         /\ YearFraction(dc, a, b, p).yf[1] = 30 * (MonthNo(b) - MonthNo(a)) + (j - i)
<1>1. Civil(a).day \in 1..31 /\ Civil(b).day \in 1..31
  BY CivilValid, PartsOf
<1>2. i \in 1..30 /\ j \in 1..31
  BY <1>1, SMT DEF FirstOf30, LastOf30
<1>3. YearFraction(dc, a, b, p).yf[1] = Thirty(Civil(a), Civil(b), i, j)
  <2>1. CASE dc = "THIRTY_360_BOND"
    <3>1. YearFraction(dc, a, b, p).yf = Thirty360Bond(a, b)
      BY <2>1 DEF YearFraction
    <3>2. Thirty360Bond(a, b)[1] = Thirty(Civil(a), Civil(b), i, j)
      BY <2>1 DEF Thirty360Bond, FirstOf30, LastOf30
    <3> QED
      BY <3>1, <3>2
  <2>2. CASE dc = "THIRTY_E_360"
    <3>1. YearFraction(dc, a, b, p).yf = ThirtyE360(a, b)
      BY <2>2 DEF YearFraction
    <3>2. ThirtyE360(a, b)[1] = Thirty(Civil(a), Civil(b), i, j)
      BY <2>2 DEF ThirtyE360, FirstOf30, LastOf30
    <3> QED
      BY <3>1, <3>2
  <2> QED
    BY <2>1, <2>2 DEF Thirties
<1>4. i \in Int /\ j \in Int
  BY <1>2, SMT
<1>5. Thirty(Civil(a), Civil(b), i, j) = 30 * (MonthNo(b) - MonthNo(a)) + (j - i)
  BY <1>4, ThirtyIs
<1> QED
  BY <1>2, <1>3, <1>5

\* From a start on, thirty-day months grow with the end.
LEMMA ThirtiesGrow ==
  ASSUME NEW dc \in Thirties, NEW p, NEW a \in Int, NEW b \in Int, NEW c \in Int,
         a <= b, b <= c
  PROVE  /\ YearFraction(dc, a, b, p).yf[1] >= 0
         /\ YearFraction(dc, a, b, p).yf[1] <= YearFraction(dc, a, c, p).yf[1]
<1>1. PICK ka, kb, kc : ka = Civil(a).day /\ kb = Civil(b).day /\ kc = Civil(c).day
  OBVIOUS
<1>2. PICK i : i = FirstOf30(ka)
  OBVIOUS
<1>3. PICK jb, jc : jb = LastOf30(dc, kb, i) /\ jc = LastOf30(dc, kc, i)
  OBVIOUS
<1>4. PICK ma, mb, mc : ma = MonthNo(a) /\ mb = MonthNo(b) /\ mc = MonthNo(c)
  OBVIOUS
<1>5. /\ ka \in Int /\ kb \in 1..31 /\ kc \in 1..31 /\ ka \in 1..31
      /\ ma \in Int /\ mb \in Int /\ mc \in Int
  BY <1>1, <1>4, CivilValid, PartsOf
<1>6. /\ i \in 1..30 /\ jb \in 1..31 /\ jc \in 1..31
      /\ YearFraction(dc, a, b, p).yf[1] = 30 * (mb - ma) + (jb - i)
      /\ YearFraction(dc, a, c, p).yf[1] = 30 * (mc - ma) + (jc - i)
  BY <1>1, <1>2, <1>3, <1>4, ThirtyFractionIs
<1>7. /\ (ma = mb /\ ka <= kb) \/ ma + 1 <= mb
      /\ (mb = mc /\ kb <= kc) \/ mb + 1 <= mc
  BY <1>1, <1>4, LaterInMonth
<1>8. i <= jb \/ ma + 1 <= mb
  BY <1>2, <1>3, <1>5, <1>7, SMT DEF FirstOf30, LastOf30
<1>9. jb <= jc \/ mb + 1 <= mc
  BY <1>3, <1>5, <1>7, SMT DEF LastOf30
<1>10. 0 <= mb - ma /\ 0 <= mc - mb
  BY <1>5, <1>7, SMT
<1>11. 30 * (mb - ma) + (jb - i) >= 0
  BY <1>5, <1>6, <1>8, <1>10, SMT
<1>12. 30 * (mb - ma) + (jb - i) <= 30 * (mc - ma) + (jc - i)
  BY <1>5, <1>6, <1>7, <1>9, <1>10, SMT
<1> QED
  BY <1>6, <1>11, <1>12

\* ACT/ACT ISDA gives every day a position, so that a fraction is the distance
\* between two: a whole year is worth 365 * 366, and a day of a year the
\* length that its year does not have.
Jan1(y)  == DaysFromCivil(y, 1, 1)
WholeYear == 365 * 366
Place(d, y) == y * WholeYear + InYear(d - Jan1(y), y)
Position(d) == Place(d, Civil(d).year)

\* A year is as long as DaysInYear says.
LEMMA YearIsLong ==
  ASSUME NEW n \in Int
  PROVE  /\ Jan1(n) \in Int /\ DaysInYear(n) \in {365, 366}
         /\ Jan1(n + 1) = Jan1(n) + DaysInYear(n)
<1>1. PICK era \in Int, y \in Nat : y <= 399 /\ n = y + 400 * era + 1
  <2>1. /\ n - 1 = 400 * ((n - 1) \div 400) + ((n - 1) % 400)
        /\ (n - 1) \div 400 \in Int /\ (n - 1) % 400 \in Nat /\ (n - 1) % 400 <= 399
    BY SMT
  <2> QED
    BY <2>1, SMT
<1>2. CivilYear(era, y, 1) = n
  BY <1>1, SMT DEF CivilYear
<1>3. PICK s : s = YearStart(y) /\ s \in Nat
  BY <1>1, YearsFollow
<1>4. Jan1(n) = EraStart(era) + s + 306
  <2>1. DaysFromCivil(CivilYear(era, y, 1), 1, 1)
          = EraStart(era) + YearStart(y) + MonthStart(FromMarch(1)) + 1 - 1
    BY <1>1, SerialIs, SMT
  <2>2. MonthStart(FromMarch(1)) = 306
    BY SMT DEF MonthStart, FromMarch
  <2> QED
    BY <1>2, <1>3, <2>1, <2>2, EraStartType, SMT DEF Jan1
<1>5. DaysInYear(n) = IF LongYear(y) THEN 366 ELSE 365
  BY <1>1, LeapIsLong DEF DaysInYear
<1>6. CASE y < 399
  <2>1. CivilYear(era, y + 1, 1) = n + 1
    BY <1>1, SMT DEF CivilYear
  <2>2. YearStart(y + 1) = s + DaysInYear(n)
    BY <1>1, <1>3, <1>5, <1>6, YearsFollow
  <2>3. DaysFromCivil(CivilYear(era, y + 1, 1), 1, 1)
          = EraStart(era) + YearStart(y + 1) + MonthStart(FromMarch(1)) + 1 - 1
    BY <1>1, <1>6, SerialIs, SMT
  <2>4. MonthStart(FromMarch(1)) = 306
    BY SMT DEF MonthStart, FromMarch
  <2>5. DaysInYear(n) \in {365, 366}
    BY <1>5
  <2>6. Jan1(n + 1) = EraStart(era) + (s + DaysInYear(n)) + 306 + 1 - 1
    BY <2>1, <2>2, <2>3, <2>4 DEF Jan1
  <2>7. EraStart(era) \in Int
    BY EraStartType
  <2> QED
    BY <1>3, <1>4, <2>5, <2>6, <2>7, SMT
<1>7. CASE y = 399
  <2>1. CivilYear(era + 1, 0, 1) = n + 1
    BY <1>1, <1>7, SMT DEF CivilYear
  <2>2. DaysFromCivil(CivilYear(era + 1, 0, 1), 1, 1)
          = EraStart(era + 1) + YearStart(0) + MonthStart(FromMarch(1)) + 1 - 1
    BY SerialIs, SMT
  <2>3. MonthStart(FromMarch(1)) = 306 /\ YearStart(0) = 0 /\ s = 145731
    BY <1>3, <1>7, SMT DEF MonthStart, FromMarch, YearStart
  <2>4. EraStart(era + 1) = EraStart(era) + 146097
    BY SMT DEF EraStart
  <2>5. DaysInYear(n) = 366
    BY <1>5, <1>7, SMT DEF LongYear
  <2>6. Jan1(n + 1) = EraStart(era + 1) + YearStart(0) + MonthStart(FromMarch(1)) + 1 - 1
    BY <2>1, <2>2, SMT DEF Jan1
  <2>7. EraStart(era) \in Int
    BY EraStartType
  <2> QED
    BY <1>4, <2>3, <2>4, <2>5, <2>6, <2>7, SMT
<1>8. Jan1(n) \in Int /\ DaysInYear(n) \in {365, 366}
  BY <1>3, <1>4, <1>5, EraStartType, SMT
<1> QED
  BY <1>1, <1>6, <1>7, <1>8, SMT

\* A day is in its year.
LEMMA DayInYear ==
  ASSUME NEW d \in Int, NEW y, y = Civil(d).year
  PROVE  /\ y \in Int /\ Jan1(y) \in Int /\ DaysInYear(y) \in {365, 366}
         /\ 0 <= d - Jan1(y) /\ d - Jan1(y) < DaysInYear(y)
<1>1. PICK m \in 1..12 : m = Civil(d).month /\ y \in Int
  BY CivilValid DEF IsCivil
<1>2. MonthNo(d) = 12 * y + m
  BY <1>1 DEF MonthNo
<1>3. \A z \in Int : Jan1(z) \in Int /\ MonthNo(Jan1(z)) = 12 * z + 1 /\ Civil(Jan1(z)).day = 1
  <2> TAKE z \in Int
  <2>1. DaysInMonth(z, 1) \in 28..31
    BY DaysInMonthRange, SMT
  <2>2. Jan1(z) \in Int /\ Civil(Jan1(z)) = [year |-> z, month |-> 1, day |-> 1]
    BY <2>1, DatesReturn, SMT DEF Jan1
  <2> QED
    BY <2>2, SMT DEF MonthNo
<1>4. Jan1(y) <= d
  <2>1. PICK j \in Int : j = Jan1(y) /\ MonthNo(j) = 12 * y + 1 /\ Civil(j).day = 1
    BY <1>1, <1>3
  <2>2. CASE m = 1
    <3>1. MonthNo(j) = MonthNo(d)
      BY <1>2, <2>1, <2>2
    <3>2. d - j = Civil(d).day - Civil(j).day
      BY <3>1, WithinMonth
    <3>3. Civil(d).day \in 1..31
      BY CivilValid, PartsOf
    <3>4. j <= d
      BY <2>1, <3>2, <3>3, SMT
    <3> QED
      BY <2>1, <3>4
  <2>3. CASE m # 1
    <3>1. MonthNo(j) < MonthNo(d)
      BY <1>1, <1>2, <2>1, <2>3, SMT
    <3>2. j < d
      BY <3>1, MonthsInOrder
    <3> QED
      BY <2>1, <3>2, SMT
  <2> QED
    BY <2>2, <2>3
<1>5. d < Jan1(y + 1)
  <2>1. y + 1 \in Int /\ 12 * y + m < 12 * (y + 1) + 1
    BY <1>1, SMT
  <2>2. MonthNo(d) < MonthNo(Jan1(y + 1))
    BY <1>2, <1>3, <2>1
  <2> QED
    BY <1>3, <2>1, <2>2, MonthsInOrder
<1>6. /\ Jan1(y) \in Int /\ DaysInYear(y) \in {365, 366}
      /\ Jan1(y + 1) = Jan1(y) + DaysInYear(y)
  BY <1>1, YearIsLong
<1> QED
  BY <1>1, <1>4, <1>5, <1>6, SMT

LEMMA PlaceIs ==
  ASSUME NEW d \in Int, NEW y, y = Civil(d).year
  PROVE  /\ Position(d) = Place(d, y) /\ Position(d) \in Int
         /\ y * WholeYear <= Position(d) /\ Position(d) <= (y + 1) * WholeYear
<1>1. /\ y \in Int /\ Jan1(y) \in Int /\ DaysInYear(y) \in {365, 366}
      /\ 0 <= d - Jan1(y) /\ d - Jan1(y) < DaysInYear(y)
  BY DayInYear
<1>2. PICK x \in Int : x = d - Jan1(y)
  BY <1>1, SMT
<1>3. Position(d) = y * WholeYear + InYear(x, y)
  BY <1>2 DEF Position, Place
<1>4. 0 <= InYear(x, y) /\ InYear(x, y) <= WholeYear /\ InYear(x, y) \in Int
  BY <1>1, <1>2, SMT DEF InYear, WholeYear
<1>5. y * WholeYear \in Int /\ (y + 1) * WholeYear = y * WholeYear + WholeYear /\ WholeYear \in Int
  BY <1>1, SMT DEF WholeYear
<1> QED
  BY <1>3, <1>4, <1>5, SMT DEF Position

\* Within a year, positions are as far apart as the days are worth there.
LEMMA InYearAdds ==
  ASSUME NEW y, DaysInYear(y) \in {365, 366}, NEW m \in Int, NEW n \in Int
  PROVE  /\ InYear(m, y) \in Int
         /\ InYear(m + n, y) = InYear(m, y) + InYear(n, y)
         /\ InYear(DaysInYear(y), y) = WholeYear
         /\ InYear(m - n, y) = InYear(m, y) - InYear(n, y)
BY SMT DEF InYear, WholeYear

LEMMA IsdaForwardIs ==
  ASSUME NEW a \in Int, NEW b \in Int
  PROVE  IsdaForward(a, b) = <<Position(b) - Position(a), WholeYear>>
<1>1. PICK y : y = Civil(a).year
  OBVIOUS
<1>2. PICK z : z = Civil(b).year
  OBVIOUS
<1>3. PICK i : i = Jan1(y)
  OBVIOUS
<1>4. PICK j : j = Jan1(z)
  OBVIOUS
<1>5. y \in Int /\ i \in Int /\ DaysInYear(y) \in {365, 366}
  BY <1>1, <1>3, DayInYear
<1>6. z \in Int /\ j \in Int /\ DaysInYear(z) \in {365, 366}
  BY <1>2, <1>4, DayInYear
<1>7. PICK k : k = Jan1(y + 1) /\ k = i + DaysInYear(y)
  BY <1>3, <1>5, YearIsLong
<1>8. Position(a) = y * WholeYear + InYear(a - i, y)
  BY <1>1, <1>3 DEF Position, Place
<1>9. Position(b) = z * WholeYear + InYear(b - j, z)
  BY <1>2, <1>4 DEF Position, Place
<1>10. IsdaForward(a, b)
         = IF y = z THEN <<InYear(b - a, y), WholeYear>>
           ELSE <<InYear(k - a, y) + InYear(b - j, z) + (z - y - 1) * WholeYear, WholeYear>>
  <2>1. (z - y - 1) * 365 * 366 = (z - y - 1) * WholeYear /\ 365 * 366 = WholeYear
    BY <1>5, <1>6, SMT DEF WholeYear
  <2>2. IsdaForward(a, b)
          = IF y = z THEN <<InYear(b - a, y), 365 * 366>>
            ELSE <<InYear(k - a, y) + InYear(b - j, z) + (z - y - 1) * 365 * 366, 365 * 366>>
    BY <1>1, <1>2, <1>4, <1>7, SMT DEF IsdaForward, Jan1
  <2> QED
    BY <2>1, <2>2, SMT
<1>11. WholeYear \in Int
  BY SMT DEF WholeYear
<1>12. CASE y = z
  <2>1. i = j
    BY <1>3, <1>4, <1>12
  <2>2. InYear(b - a, y) = InYear(b - i, y) - InYear(a - i, y)
    <3>1. /\ b - i \in Int /\ a - i \in Int /\ (b - i) - (a - i) = b - a
      BY <1>5, SMT
    <3> QED
      BY <1>5, <3>1, InYearAdds
  <2>3. InYear(b - i, y) \in Int /\ InYear(a - i, y) \in Int
    BY <1>5, InYearAdds, SMT
  <2>4. PICK p, q \in Int : p = InYear(b - i, y) /\ q = InYear(a - i, y)
    BY <2>3
  <2>5. Position(b) - Position(a) = p - q
    <3>1. Position(a) = y * WholeYear + q /\ Position(b) = y * WholeYear + p
      BY <1>8, <1>9, <1>12, <2>1, <2>4
    <3>2. y * WholeYear \in Int /\ p \in Int /\ q \in Int
      BY <1>5, <1>11, <2>3, <2>4, SMT
    <3> QED
      BY <3>1, <3>2, SMT
  <2> QED
    BY <1>10, <1>12, <2>2, <2>4, <2>5
<1>13. CASE y # z
  <2>1. PICK w \in {365, 366} : w = DaysInYear(y)
    BY <1>5
  <2>2. InYear(k - a, y) = InYear(w, y) - InYear(a - i, y)
    <3>1. w \in Int /\ a - i \in Int /\ k - a = w - (a - i)
      BY <1>5, <1>7, <2>1, SMT
    <3> QED
      BY <1>5, <3>1, InYearAdds
  <2>3. InYear(w, y) = WholeYear
    BY <1>5, <2>1, InYearAdds
  <2>4. InYear(b - j, z) \in Int /\ InYear(a - i, y) \in Int
    BY <1>5, <1>6, InYearAdds, SMT
  <2>5. PICK p, q \in Int : p = InYear(b - j, z) /\ q = InYear(a - i, y)
    BY <2>4
  <2>6. InYear(k - a, y) + InYear(b - j, z) + (z - y - 1) * WholeYear
          = Position(b) - Position(a)
    <3>1. Position(a) = y * WholeYear + q /\ Position(b) = z * WholeYear + p
      BY <1>8, <1>9, <2>5
    <3>2. InYear(k - a, y) = WholeYear - q
      BY <2>2, <2>3, <2>5
    <3>3. p \in Int /\ q \in Int
      BY <2>4, <2>5
    <3> QED
      BY <1>5, <1>6, <2>5, <3>1, <3>2, <3>3, SMT DEF WholeYear
  <2> QED
    BY <1>10, <1>13, <2>6
<1> QED
  BY <1>12, <1>13

LEMMA IsdaIs ==
  ASSUME NEW a \in Int, NEW b \in Int
  PROVE  ActActIsda(a, b) = <<Position(b) - Position(a), WholeYear>>
<1>1. IsdaForward(a, b) = <<Position(b) - Position(a), WholeYear>>
  BY IsdaForwardIs
<1>2. IsdaForward(b, a) = <<Position(a) - Position(b), WholeYear>>
  BY IsdaForwardIs
<1>3. PICK p \in Int, q \in Int : p = Position(a) /\ q = Position(b)
  BY PlaceIs
<1>4. -(p - q) = q - p
  BY SMT
<1> QED
  BY <1>1, <1>2, <1>3, <1>4 DEF ActActIsda

LEMMA PositionsGrow ==
  ASSUME NEW a \in Int, NEW b \in Int, a <= b
  PROVE  Position(a) <= Position(b)
<1>1. PICK y, z : y = Civil(a).year /\ z = Civil(b).year
  OBVIOUS
<1>2. /\ y \in Int /\ Jan1(y) \in Int /\ DaysInYear(y) \in {365, 366}
      /\ z \in Int /\ Jan1(z) \in Int
  BY <1>1, DayInYear
<1>3. y <= z
  <2>1. PICK m \in 1..12, n \in 1..12 : m = Civil(a).month /\ n = Civil(b).month
    BY CivilValid DEF IsCivil
  <2>2. 12 * y + m <= 12 * z + n
    BY <1>1, <2>1, MonthsOrdered DEF MonthNo
  <2> QED
    BY <1>2, <2>1, <2>2, SMT
<1>4. PICK p \in Int, q \in Int : p = Position(a) /\ q = Position(b)
  BY PlaceIs
<1>5. CASE y = z
  <2>1. PICK j \in Int : j = Jan1(y)
    BY <1>2
  <2>2. p = y * WholeYear + InYear(a - j, y) /\ q = y * WholeYear + InYear(b - j, y)
    BY <1>1, <1>4, <1>5, <2>1 DEF Position, Place
  <2>3. InYear(a - j, y) <= InYear(b - j, y)
        /\ InYear(a - j, y) \in Int /\ InYear(b - j, y) \in Int
    BY <1>2, <2>1, SMT DEF InYear
  <2> QED
    BY <1>2, <1>4, <2>2, <2>3, SMT DEF WholeYear
<1>6. CASE y < z
  <2>1. p <= (y + 1) * WholeYear /\ z * WholeYear <= q
    BY <1>1, <1>4, PlaceIs
  <2>2. (y + 1) * WholeYear <= z * WholeYear
    BY <1>2, <1>6, SMT DEF WholeYear
  <2> QED
    BY <1>2, <1>4, <2>1, <2>2, SMT DEF WholeYear
<1> QED
  BY <1>2, <1>3, <1>5, <1>6, SMT

\* Whatever the convention but ICMA's, and whatever the coupon period: interest
\* starts from nothing, is never negative and never shrinks as its end moves on.
LEMMA InterestGrows ==
  ASSUME NEW dc \in Conventions \ {"ACT_ACT_ICMA"}, NEW p,
         NEW a \in Int, NEW b \in Int, NEW c \in Int, a <= b, b <= c
  PROVE  /\ YearFraction(dc, a, b, p).status = "OK"
         /\ YearFraction(dc, a, a, p).yf[1] = 0
         /\ YearFraction(dc, a, b, p).yf[1] >= 0
         /\ YearFraction(dc, a, b, p).yf[1] <= YearFraction(dc, a, c, p).yf[1]
<1>1. YearFraction(dc, a, b, p).status = "OK"
  BY DEF YearFraction, Conventions, Fraction
<1>2. CASE dc = "ACT_360" \/ dc = "ACT_365F"
  <2>1. \A e \in Int : YearFraction(dc, a, e, p).yf[1] = e - a
    BY <1>2 DEF YearFraction, Fraction
  <2> QED
    BY <1>1, <2>1, SMT
<1>3. CASE dc = "ACT_ACT_ISDA"
  <2>1. PICK x \in Int, y \in Int, z \in Int :
          x = Position(a) /\ y = Position(b) /\ z = Position(c)
    BY PlaceIs
  <2>2. /\ ActActIsda(a, a)[1] = x - x /\ ActActIsda(a, b)[1] = y - x
        /\ ActActIsda(a, c)[1] = z - x
    BY <2>1, IsdaIs
  <2>3. x <= y /\ y <= z
    BY <2>1, PositionsGrow
  <2>4. \A e : YearFraction(dc, a, e, p).yf = ActActIsda(a, e)
    BY <1>3 DEF YearFraction
  <2>5. x - x = 0 /\ y - x >= 0 /\ y - x <= z - x
    BY <2>3, SMT
  <2> QED
    BY <1>1, <2>2, <2>4, <2>5
<1>4. CASE dc \in Thirties
  <2>1. YearFraction(dc, a, a, p).yf[1] = 0
    <3>1. PICK k : k = Civil(a).day
      OBVIOUS
    <3>2. k \in 1..31
      BY <3>1, CivilValid, PartsOf
    <3>3. PICK i, j : i = FirstOf30(k) /\ j = LastOf30(dc, k, i)
      OBVIOUS
    <3>4. YearFraction(dc, a, a, p).yf[1] = 30 * (MonthNo(a) - MonthNo(a)) + (j - i)
      BY <1>4, <3>1, <3>3, ThirtyFractionIs
    <3>5. i = j /\ i \in Int
      BY <1>4, <3>2, <3>3 DEF FirstOf30, LastOf30, Thirties
    <3>6. PICK m \in Int : m = MonthNo(a)
      BY CivilValid
    <3>7. 30 * (m - m) + (j - i) = 0
      BY <3>5
    <3> QED
      BY <3>4, <3>6, <3>7
  <2> QED
    BY <1>1, <1>4, <2>1, ThirtiesGrow
<1> QED
  BY <1>2, <1>3, <1>4 DEF Conventions, Thirties
=============================================================================
