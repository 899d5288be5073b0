---------------------------- MODULE Bond_proofs ----------------------------
(***************************************************************************)
(* What a bond that is built is made of.  Its periods tile its life because*)
(* the walk checks each step it takes, whatever a step of n months is; the *)
(* grid they lie on tells stubs from whole periods; its payments keep their*)
(* order because adjustment does; and its flows and coupons follow from    *)
(* those, period by period, as the loop of build_cashflows goes on.         *)
(***************************************************************************)
EXTENDS Bond, Dates_proofs, SequenceTheorems

\* A step of the walk goes from a date to a date, a whole frequency earlier.
LEMMA BackIs ==
  ASSUME DatesChecked, NEW d \in Int, NEW b, b = Back(spec, d)
  PROVE  /\ b \in Int /\ Months(spec) \in Int /\ b < d
         /\ MonthNo(b) = MonthNo(d) - Months(spec)
         /\ spec.eom /\ IsEndOfMonth(d) => IsEndOfMonth(b)
<1>1. Months(spec) \in {1, 3, 6, 12}
  BY DEF DatesChecked, Frequencies, Months
<1>2. PICK n \in Int : n = -Months(spec)
  BY <1>1
<1>3. /\ b \in Int /\ MonthNo(b) = MonthNo(d) + n
      /\ spec.eom /\ IsEndOfMonth(d) => IsEndOfMonth(b)
  BY <1>2, ShiftMonthsIs DEF Back, DatesChecked
<1>4. MonthNo(d) \in Int
  BY CivilValid
<1>5. MonthNo(b) = MonthNo(d) - Months(spec) /\ MonthNo(b) < MonthNo(d)
  BY <1>1, <1>2, <1>3, <1>4, SMT
<1>6. b < d
  BY <1>3, <1>5, MonthsInOrder
<1> QED
  BY <1>1, <1>3, <1>5, <1>6, SMT

LEMMA BackType ==
  ASSUME DatesChecked, NEW d \in Int
  PROVE  Back(spec, d) \in Int
BY BackIs

------------------------------------------------------------------------------
(* One lemma per step of the build that touches the dates.                  *)

LEMMA AcceptTiles ==
  ASSUME def \in Defs, TileInv, Accept
  PROVE  TileInv'
<1>1. BadDate \notin {def.issue, def.maturity, def.first}
  BY DEF Accept, EntryStatus
<1>2. {def.issue, def.maturity, def.first} \subseteq Int /\ def.eom \in BOOLEAN
  BY <1>1, DefsAssumption
<1> QED
  BY <1>2 DEF Accept, TileInv, SpecOf, PeriodsTile, Built

LEMMA ZeroCouponTiles ==
  ASSUME TileInv, ZeroCoupon
  PROVE  TileInv'
BY DEF ZeroCoupon, TileInv, PeriodsTile, Built, PeriodOf

LEMMA StartTiles ==
  ASSUME TileInv, Start
  PROVE  TileInv'
BY DEF Start, TileInv, WalkInv, DatesChecked, PeriodsTile, Built, Stop,
       HasFirst, NoDay

LEMMA StepBackTiles ==
  ASSUME TileInv, StepBack
  PROVE  TileInv'
<1> DEFINE prev == Back(spec, cursor)
           n    == Len(boundaries)
<1>1. WalkInv
  BY DEF StepBack, TileInv
<1>2. cursor \in Int /\ n \in Nat /\ n >= 1
  BY <1>1 DEF WalkInv
<1>3. prev \in Int
  BY <1>1, <1>2, BackType DEF WalkInv
<1>4. /\ Stop(spec) < prev /\ prev < cursor
      /\ boundaries' = Append(boundaries, prev)
      /\ cursor' = prev
      /\ UNCHANGED <<spec, pc, periods>>
  BY DEF StepBack
<1> HIDE DEF prev
<1>5. /\ boundaries' \in Seq(Int)
      /\ Len(boundaries') = n + 1
      /\ \A i \in 1..n : boundaries'[i] = boundaries[i]
      /\ boundaries'[n + 1] = prev
  BY <1>1, <1>3, <1>4 DEF WalkInv
<1>6. \A i \in 1..n : boundaries'[i + 1] < boundaries'[i]
  BY <1>1, <1>2, <1>4, <1>5 DEF WalkInv
<1>7. WalkInv'
  BY <1>1, <1>2, <1>4, <1>5, <1>6
     DEF WalkInv, DatesChecked, Stop, HasFirst, NoDay
<1> QED
  BY <1>4, <1>7 DEF TileInv, PeriodsTile, Built, StepBack, HasFirst, NoDay

LEMMA EndWalkTiles ==
  ASSUME TileInv, EndWalk
  PROVE  TileInv'
<1> DEFINE n == Len(boundaries)
           tail == IF HasFirst(spec) /\ spec.effective < Stop(spec)
                     THEN <<Stop(spec), spec.effective>> ELSE <<Stop(spec)>>
<1>1. CASE pc' = "failed"
  BY <1>1 DEF TileInv, PeriodsTile, Built
<1>2. CASE /\ boundaries' = boundaries \o tail
           /\ pc' = "emit"
           /\ UNCHANGED <<spec, cursor, periods>>
  <2>1. WalkInv /\ n \in Nat /\ n >= 1 /\ cursor \in Int
    BY DEF EndWalk, TileInv, WalkInv
  <2>2. CASE HasFirst(spec)
    <3>1. Stop(spec) = spec.first /\ spec.effective < spec.first
      BY <2>1, <2>2 DEF WalkInv, DatesChecked, Stop
    <3>2. boundaries' = boundaries \o <<spec.first, spec.effective>>
      BY <1>2, <2>2, <3>1
    <3>3. /\ boundaries' \in Seq(Int)
          /\ Len(boundaries') = n + 2
          /\ \A i \in 1..n : boundaries'[i] = boundaries[i]
          /\ boundaries'[n + 1] = spec.first
          /\ boundaries'[n + 2] = spec.effective
      BY <2>1, <3>2 DEF WalkInv, DatesChecked
    <3>4. ASSUME NEW i \in 1..(n + 1)
          PROVE  \/ boundaries'[i + 1] < boundaries'[i]
                 \/ i = 1 /\ spec.first = spec.maturity /\ boundaries'[2] = spec.maturity
      <4>1. CASE i \in 1..(n - 1)
        <5>1. boundaries[i + 1] < boundaries[i]
          BY <2>1, <4>1 DEF WalkInv
        <5>2. boundaries'[i + 1] = boundaries[i + 1] /\ boundaries'[i] = boundaries[i]
          BY <2>1, <3>3, <4>1
        <5> QED
          BY <5>1, <5>2
      <4>2. CASE i = n
        <5>1. boundaries'[i] = cursor /\ boundaries'[i + 1] = Stop(spec)
          BY <2>1, <3>1, <3>3, <4>2 DEF WalkInv
        <5>2. CASE Stop(spec) < cursor
          BY <5>1, <5>2
        <5>3. CASE n = 1 /\ Stop(spec) = cursor
          <6>1. cursor = spec.maturity
            BY <2>1, <5>3 DEF WalkInv
          <6> QED
            BY <3>1, <4>2, <5>1, <5>3, <6>1
        <5> QED
          BY <2>1, <5>2, <5>3 DEF WalkInv
      <4>3. CASE i = n + 1
        BY <2>1, <3>1, <3>3, <4>3
      <4> QED
        BY <2>1, <4>1, <4>2, <4>3
    <3>5. boundaries'[1] = spec.maturity /\ boundaries'[Len(boundaries') - 1] = spec.first
      BY <2>1, <3>3 DEF WalkInv
    <3>6. DatesChecked'
      BY <1>2, <2>1 DEF WalkInv, DatesChecked, HasFirst, NoDay
    <3>7. HandOverInv'
      <4>1. Len(boundaries') >= 2 /\ Len(boundaries') - 1 = n + 1
        BY <2>1, <3>3
      <4>2. boundaries'[Len(boundaries')] = spec.effective
        BY <3>3
      <4>3. spec' = spec
        BY <1>2
      <4> HIDE DEF n
      <4>4. \A i \in 1..(Len(boundaries') - 1) :
              \/ boundaries'[i + 1] < boundaries'[i]
              \/ i = 1 /\ spec.first = spec.maturity /\ boundaries'[2] = spec.maturity
        BY <3>4, <4>1
      <4> QED
        BY <3>3, <3>5, <3>6, <4>1, <4>2, <4>3, <4>4 DEF HandOverInv
    <3> QED
      BY <1>2, <3>7 DEF TileInv, PeriodsTile, Built
  <2>3. CASE ~HasFirst(spec)
    <3>1. Stop(spec) = spec.effective /\ spec.effective < cursor
      BY <2>1, <2>3 DEF WalkInv, Stop
    <3>2. boundaries' = boundaries \o <<spec.effective>>
      BY <1>2, <2>3, <3>1
    <3>3. /\ boundaries' \in Seq(Int)
          /\ Len(boundaries') = n + 1
          /\ \A i \in 1..n : boundaries'[i] = boundaries[i]
          /\ boundaries'[n + 1] = spec.effective
      BY <2>1, <3>2 DEF WalkInv, DatesChecked
    <3>4. ASSUME NEW i \in 1..n
          PROVE  boundaries'[i + 1] < boundaries'[i]
      <4>1. CASE i \in 1..(n - 1)
        <5>1. boundaries[i + 1] < boundaries[i]
          BY <2>1, <4>1 DEF WalkInv
        <5>2. boundaries'[i + 1] = boundaries[i + 1] /\ boundaries'[i] = boundaries[i]
          BY <2>1, <3>3, <4>1
        <5> QED
          BY <5>1, <5>2
      <4>2. CASE i = n
        <5>1. boundaries'[i] = cursor /\ boundaries'[i + 1] = spec.effective
          BY <2>1, <3>3, <4>2 DEF WalkInv
        <5> QED
          BY <3>1, <5>1
      <4> QED
        BY <2>1, <4>1, <4>2
    <3>5. DatesChecked' /\ boundaries'[1] = spec.maturity
      BY <1>2, <2>1, <3>3 DEF WalkInv, DatesChecked, HasFirst, NoDay
    <3>6. HandOverInv'
      <4>1. Len(boundaries') >= 2 /\ boundaries'[Len(boundaries')] = spec.effective
        BY <2>1, <3>3
      <4>2. \A i \in 1..(Len(boundaries') - 1) : boundaries'[i + 1] < boundaries'[i]
        BY <2>1, <3>3, <3>4
      <4>3. ~HasFirst(spec')
        BY <1>2, <2>3
      <4> HIDE DEF n
      <4> QED
        BY <1>2, <3>3, <3>5, <4>1, <4>2, <4>3 DEF HandOverInv
    <3> QED
      BY <1>2, <3>6 DEF TileInv, PeriodsTile, Built
  <2> QED
    BY <2>2, <2>3
<1> QED
  BY <1>1, <1>2 DEF EndWalk, Fail

LEMMA EmitTiles ==
  ASSUME TileInv, Emit
  PROVE  TileInv'
<1> DEFINE n == Len(boundaries)
<1>1. HandOverInv /\ n \in Nat /\ n >= 2
  BY DEF Emit, TileInv, HandOverInv
<1>2. pc' = "built" /\ UNCHANGED <<spec, boundaries>>
  BY DEF Emit
<1>3. /\ Len(periods') = n - 1
      /\ \A i \in 1..(n - 1) : /\ periods'[i].start = boundaries[n + 1 - i]
                               /\ periods'[i].end = boundaries[n - i]
  BY <1>1 DEF Emit, PeriodOf
<1>4. PeriodsTile'
  <2>1. \A i \in 1..(n - 2) : periods'[i].end = periods'[i + 1].start
    BY <1>1, <1>3
  <2>2. ASSUME NEW i \in 1..(n - 1)
        PROVE  \/ periods'[i].start < periods'[i].end
               \/ /\ i = n - 1 /\ spec.first = spec.maturity
                  /\ periods'[i].start = spec.maturity
    <3> DEFINE j == n - i
    <3>1. j \in 1..(n - 1) /\ n + 1 - i = j + 1
      BY <1>1
    <3>2. \/ boundaries[j + 1] < boundaries[j]
          \/ j = 1 /\ spec.first = spec.maturity /\ boundaries[2] = spec.maturity
      BY <1>1, <3>1 DEF HandOverInv
    <3>3. periods'[i].start = boundaries[j + 1] /\ periods'[i].end = boundaries[j]
      BY <1>3, <3>1
    <3>4. CASE boundaries[j + 1] < boundaries[j]
      BY <3>3, <3>4
    <3>5. CASE j = 1 /\ spec.first = spec.maturity /\ boundaries[2] = spec.maturity
      <4>1. i = n - 1
        BY <1>1, <3>5
      <4> QED
        BY <3>3, <3>5, <4>1
    <3> QED
      BY <3>2, <3>4, <3>5
  <2>3. /\ periods'[1].start = spec.effective
        /\ periods'[n - 1].end = spec.maturity
        /\ HasFirst(spec) => periods'[1].end = spec.first
    BY <1>1, <1>3 DEF HandOverInv
  <2> QED
    BY <1>1, <1>2, <1>3, <2>1, <2>2, <2>3 DEF PeriodsTile, HasFirst, NoDay
<1> QED
  BY <1>2, <1>4 DEF TileInv

------------------------------------------------------------------------------
LEMMA TileInit == Init => TileInv /\ def \in Defs
BY DEF Init, TileInv, PeriodsTile, Built

LEMMA DefKept == [Next]_vars => def' = def
BY DEF Next, vars, defVars, Reject, Accept, Flows, SkipFlow, AddFlow, FlowFails,
       NoFlows, Finish

LEMMA TileStep ==
  ASSUME TileInv, def \in Defs, [Next]_vars
  PROVE  TileInv'
<1>1. ASSUME pc' = "failed", UNCHANGED periods
      PROVE  TileInv'
  BY <1>1 DEF TileInv, PeriodsTile, Built
<1>2. ASSUME UNCHANGED <<spec, periods>>, pc = "built", pc' \in {"built", "done"}
      PROVE  TileInv'
  BY <1>2 DEF TileInv, PeriodsTile, Built, HasFirst, NoDay
<1>3. CASE Reject
  BY <1>1, <1>3 DEF Reject, Fail
<1>4. CASE Accept
  BY <1>4, AcceptTiles
<1>5. CASE Build
  <2>1. CASE Refuse
    BY <1>1, <2>1 DEF Refuse, Fail
  <2> QED
    BY <1>5, <2>1, ZeroCouponTiles, StartTiles, StepBackTiles, EndWalkTiles,
       EmitTiles DEF Build
<1>6. CASE Flows
  <2>1. PICK i \in DOMAIN periods : SkipFlow(i) \/ AddFlow(i) \/ FlowFails(i)
    BY <1>6 DEF Flows
  <2> QED
    BY <1>1, <1>2, <2>1 DEF SkipFlow, AddFlow, FlowFails, Flowing, Fail
<1>7. CASE NoFlows
  BY <1>1, <1>7 DEF NoFlows, Fail
<1>8. CASE Finish
  BY <1>2, <1>8 DEF Finish
<1>9. CASE UNCHANGED vars
  BY <1>9 DEF vars, TileInv, WalkInv, HandOverInv, DatesChecked, PeriodsTile,
               Built, Stop, HasFirst, NoDay
<1> QED
  BY <1>3, <1>4, <1>5, <1>6, <1>7, <1>8, <1>9 DEF Next

\* Whatever the definition and the calendar, a bond that is built has periods
\* that tile its life from issue to maturity, through its first coupon date.
THEOREM PeriodsAlwaysTile == Spec => []PeriodsTile
<1>1. TileInv /\ def \in Defs /\ [Next]_vars => (TileInv /\ def \in Defs)'
  BY TileStep, DefKept
<1>2. TileInv => PeriodsTile
  BY DEF TileInv
<1> QED
  BY <1>1, <1>2, TileInit, PTL DEF Spec
------------------------------------------------------------------------------
(* The grid.                                                                *)

\* Each boundary is one frequency back from the one before, until the last two
\* steps: onto the first coupon date, and from there to the effective date.
GridInv ==
  /\ pc = "back" =>
       \A i \in 1..(Len(boundaries) - 1) : boundaries[i + 1] = Back(spec, boundaries[i])
  /\ pc = "emit" =>
       \A i \in 1..(Len(boundaries) - 1) :
         \/ boundaries[i + 1] = Back(spec, boundaries[i])
         \/ i = Len(boundaries) - 1
         \/ /\ i = Len(boundaries) - 2
            /\ HasFirst(spec) /\ boundaries[i + 1] = spec.first
  /\ StubsInFront

LEMMA StepBackGrid ==
  ASSUME TileInv, GridInv, StepBack
  PROVE  GridInv'
<1> DEFINE n == Len(boundaries)
<1>1. /\ WalkInv /\ n \in Nat /\ n >= 1 /\ boundaries[n] = cursor
      /\ \A i \in 1..(n - 1) : boundaries[i + 1] = Back(spec, boundaries[i])
  BY DEF StepBack, TileInv, WalkInv, GridInv
<1>2. Back(spec, cursor) \in Int
  BY <1>1, BackType DEF WalkInv
<1>3. /\ pc' = "back" /\ spec' = spec
      /\ boundaries' = Append(boundaries, Back(spec, cursor))
  BY DEF StepBack
<1>4. /\ Len(boundaries') = n + 1
      /\ \A i \in 1..n : boundaries'[i] = boundaries[i]
      /\ boundaries'[n + 1] = Back(spec, cursor)
  BY <1>1, <1>2, <1>3 DEF WalkInv
<1>5. ASSUME NEW i \in 1..n
      PROVE  boundaries'[i + 1] = Back(spec, boundaries'[i])
  BY <1>1, <1>4
<1> QED
  BY <1>1, <1>3, <1>4, <1>5 DEF GridInv, StubsInFront, Built

LEMMA EndWalkGrid ==
  ASSUME TileInv, GridInv, EndWalk
  PROVE  GridInv'
<1> DEFINE n == Len(boundaries)
           tail == IF HasFirst(spec) /\ spec.effective < Stop(spec)
                     THEN <<Stop(spec), spec.effective>> ELSE <<Stop(spec)>>
<1>1. CASE pc' = "failed"
  BY <1>1 DEF GridInv, StubsInFront, Built
<1>2. CASE boundaries' = boundaries \o tail /\ pc' = "emit" /\ spec' = spec
  <2>1. /\ WalkInv /\ n \in Nat /\ n >= 1
        /\ \A i \in 1..(n - 1) : boundaries[i + 1] = Back(spec, boundaries[i])
    BY DEF EndWalk, TileInv, WalkInv, GridInv
  <2>2. Stop(spec) \in Int /\ spec.effective \in Int
    BY <2>1 DEF WalkInv, DatesChecked, Stop
  <2>3. /\ \/ Len(boundaries') = n + 1
           \/ Len(boundaries') = n + 2 /\ HasFirst(spec)
        /\ \A i \in 1..n : boundaries'[i] = boundaries[i]
        /\ boundaries'[n + 1] = Stop(spec)
    BY <1>2, <2>1, <2>2 DEF WalkInv
  <2>4. HasFirst(spec) => Stop(spec) = spec.first
    BY DEF Stop
  <2>5. ASSUME NEW i \in 1..(Len(boundaries') - 1)
        PROVE  \/ boundaries'[i + 1] = Back(spec, boundaries'[i])
               \/ i = Len(boundaries') - 1
               \/ /\ i = Len(boundaries') - 2
                  /\ HasFirst(spec) /\ boundaries'[i + 1] = spec.first
    <3> HIDE DEF n
    <3>1. CASE i \in 1..(n - 1)
      <4>1. i \in 1..n /\ i + 1 \in 1..n
        BY <2>1, <3>1
      <4>2. boundaries'[i] = boundaries[i] /\ boundaries'[i + 1] = boundaries[i + 1]
        BY <2>3, <4>1
      <4> QED
        BY <2>1, <3>1, <4>2
    <3>2. CASE i = n
      BY <2>1, <2>3, <2>4, <3>2
    <3>3. CASE i = n + 1
      BY <2>1, <2>3, <3>3
    <3> QED
      BY <2>1, <2>3, <3>1, <3>2, <3>3
  <2> QED
    BY <1>2, <2>5 DEF GridInv, StubsInFront, Built
<1> QED
  BY <1>1, <1>2 DEF EndWalk, Fail

LEMMA EmitGrid ==
  ASSUME TileInv, GridInv, Emit
  PROVE  GridInv'
<1> DEFINE n == Len(boundaries)
<1>1. HandOverInv /\ n \in Nat /\ n >= 2
  BY DEF Emit, TileInv, HandOverInv
<1>2. pc' = "built" /\ spec' = spec /\ DOMAIN periods' = 1..(n - 1)
  BY DEF Emit
<1>3. \A i \in 1..(n - 1) :
        /\ periods'[i].start = boundaries[n + 1 - i]
        /\ periods'[i].stub = (Back(spec, boundaries[n - i]) # boundaries[n + 1 - i])
  BY DEF Emit, PeriodOf
<1>4. ASSUME NEW i \in 1..(n - 1), periods'[i].stub
      PROVE  \/ i = 1
             \/ i = 2 /\ HasFirst(spec) /\ spec.first = periods'[i].start
  <2>1. n - i \in 1..(n - 1) /\ (n - i) + 1 = n + 1 - i
    BY <1>1
  <2>2. boundaries[(n - i) + 1] # Back(spec, boundaries[n - i])
    BY <1>3, <1>4, <2>1
  <2>3. \/ n - i = n - 1
        \/ /\ n - i = n - 2
           /\ HasFirst(spec) /\ boundaries[(n - i) + 1] = spec.first
    BY <2>1, <2>2 DEF GridInv, Emit
  <2> QED
    BY <1>1, <1>3, <2>1, <2>3
<1> QED
  BY <1>2, <1>4 DEF GridInv, StubsInFront, Built, HasFirst

LEMMA GridStep ==
  ASSUME TileInv, GridInv, [Next]_vars
  PROVE  GridInv'
<1>1. ASSUME pc' \in {"start", "failed"}
      PROVE  GridInv'
  BY <1>1 DEF GridInv, StubsInFront, Built
<1>2. ASSUME UNCHANGED <<spec, periods>>, pc = "built", pc' \in {"built", "done"}
      PROVE  GridInv'
  BY <1>2 DEF GridInv, StubsInFront, Built, HasFirst
<1>3. CASE Build
  <2>1. CASE Refuse
    BY <1>1, <2>1 DEF Refuse, Fail
  <2>2. CASE ZeroCoupon
    BY <2>2 DEF ZeroCoupon, GridInv, StubsInFront, Built, PeriodOf
  <2>3. CASE Start
    BY <2>3 DEF Start, GridInv, StubsInFront, Built
  <2> QED
    BY <1>3, <2>1, <2>2, <2>3, StepBackGrid, EndWalkGrid, EmitGrid DEF Build
<1>4. CASE Flows
  <2>1. PICK i \in DOMAIN periods : SkipFlow(i) \/ AddFlow(i) \/ FlowFails(i)
    BY <1>4 DEF Flows
  <2> QED
    BY <1>1, <1>2, <2>1 DEF SkipFlow, AddFlow, FlowFails, Flowing, Fail
<1>5. CASE UNCHANGED vars
  BY <1>5 DEF vars, GridInv, StubsInFront, Built, HasFirst
<1> QED
  BY <1>1, <1>2, <1>3, <1>4, <1>5
  DEF Next, Reject, Accept, NoFlows, Finish, Fail

\* Behind the front of a schedule every period is regular, whatever the dates
\* and however months roll.
THEOREM StubsOnlyInFront == Spec => []StubsInFront
<1>1. Init => GridInv
  BY DEF Init, GridInv, StubsInFront, Built
<1>2. /\ TileInv /\ GridInv /\ def \in Defs /\ [Next]_vars
        => (TileInv /\ GridInv /\ def \in Defs)'
  BY TileStep, GridStep, DefKept
<1>3. GridInv => StubsInFront
  BY DEF GridInv
<1> QED
  BY <1>1, <1>2, <1>3, TileInit, PTL DEF Spec

\* Every step of the walk lands one frequency earlier and stays on month ends,
\* so no walk fails for want of moving: for every definition.
THEOREM WalksMoveBack == Spec => WalkMovesBack
<1> DEFINE A == pc = "back" =>
                  /\ pc' # "failed"
                  /\ pc' = "back" =>
                       LET from == Civil(cursor)  to == Civil(cursor')
                       IN  /\ 12 * to.year + to.month = 12 * from.year + from.month - Months(spec)
                           /\ cursor' < cursor
                           /\ spec.eom /\ IsEndOfMonth(cursor) => IsEndOfMonth(cursor')
<1>1. TileInv /\ [Next]_vars => [A]_pcCursor
  <2> SUFFICES ASSUME TileInv, Next, pc = "back"
               PROVE  A
    BY DEF vars, pcCursor
  <2>1. DatesChecked /\ cursor \in Int
    BY DEF TileInv, WalkInv
  <2>2. PICK prev : prev = Back(spec, cursor)
    OBVIOUS
  <2>3. /\ prev \in Int /\ Months(spec) \in Int /\ prev < cursor
        /\ MonthNo(prev) = MonthNo(cursor) - Months(spec)
        /\ spec.eom /\ IsEndOfMonth(cursor) => IsEndOfMonth(prev)
    BY <2>1, <2>2, BackIs
  <2>4. ~ (prev >= cursor)
    BY <2>1, <2>3
  <2>5. CASE StepBack
    <3>1. cursor' = prev /\ pc' = "back"
      BY <2>2, <2>5 DEF StepBack
    <3>2. 12 * Civil(prev).year + Civil(prev).month
            = 12 * Civil(cursor).year + Civil(cursor).month - Months(spec)
      <4>1. MonthNo(prev) = 12 * Civil(prev).year + Civil(prev).month
        BY DEF MonthNo
      <4>2. MonthNo(cursor) = 12 * Civil(cursor).year + Civil(cursor).month
        BY DEF MonthNo
      <4>3. MonthNo(prev) = MonthNo(cursor) - Months(spec)
        BY <2>3
      <4>4. PICK c, e : c = Civil(prev) /\ e = Civil(cursor) /\ IsCivil(c) /\ IsCivil(e)
        BY <2>1, <2>3, CivilValid
      <4>5. 12 * c.year + c.month = 12 * e.year + e.month - Months(spec)
        <5>1. \A x : IsCivil(x) => x.year \in Int /\ x.month \in Int
          BY SMT DEF IsCivil
        <5>2. /\ c.year \in Int /\ c.month \in Int /\ e.year \in Int /\ e.month \in Int
          BY <4>4, <5>1
        <5>3. /\ MonthNo(prev) = 12 * c.year + c.month
              /\ MonthNo(cursor) = 12 * e.year + e.month
          BY <4>1, <4>2, <4>4, Zenon
        <5> QED
          BY <2>3, <5>2, <5>3, SMT
      <4> QED
        BY <4>4, <4>5, Zenon
    <3> QED
      BY <2>3, <3>1, <3>2
  <2>6. CASE EndWalk
    BY <2>2, <2>4, <2>6 DEF EndWalk
  <2>7. StepBack \/ EndWalk
    BY DEF Next, Reject, Accept, Build, Refuse, ZeroCoupon, Start, Emit, Flows,
           SkipFlow, AddFlow, FlowFails, Flowing, NoFlows, Finish
  <2> QED
    BY <2>5, <2>6, <2>7
<1>2. TileInv /\ def \in Defs /\ [Next]_vars => (TileInv /\ def \in Defs)'
  BY TileStep, DefKept
<1> QED
  BY <1>1, <1>2, TileInit, PTL DEF Spec, WalkMovesBack

------------------------------------------------------------------------------
(* Payments.                                                                *)

\* What is built is what was asked for.
SpecInv ==
  /\ def \in Defs /\ valuation \in Valuations
  /\ pc \notin {"entry", "failed"} => spec = SpecOf(def) /\ valuation # Unset

LEMMA SpecStep ==
  ASSUME SpecInv, [Next]_vars
  PROVE  SpecInv'
<1>1. def' = def /\ valuation' = valuation
  BY DEF Next, vars, defVars, Reject, Accept, Flows, SkipFlow, AddFlow, FlowFails,
         NoFlows, Finish
<1>2. ASSUME pc' = "failed"
      PROVE  SpecInv'
  BY <1>1, <1>2 DEF SpecInv
<1>3. ASSUME spec' = spec, pc \notin {"entry", "failed"}
      PROVE  SpecInv'
  BY <1>1, <1>3 DEF SpecInv
<1>4. CASE Reject
  BY <1>2, <1>4 DEF Reject, Fail
<1>5. CASE Accept
  BY <1>1, <1>5 DEF Accept, EntryStatus, SpecInv
<1>6. CASE Build
  BY <1>2, <1>3, <1>6 DEF Build, Refuse, ZeroCoupon, Start, StepBack, EndWalk, Emit, Fail
<1>7. CASE Flows
  <2>1. PICK i \in DOMAIN periods : SkipFlow(i) \/ AddFlow(i) \/ FlowFails(i)
    BY <1>7 DEF Flows
  <2> QED
    BY <1>2, <1>3, <2>1 DEF SkipFlow, AddFlow, FlowFails, Flowing, Fail
<1>8. CASE NoFlows
  BY <1>2, <1>8 DEF NoFlows, Fail
<1>9. CASE Finish
  BY <1>3, <1>9 DEF Finish
<1>10. CASE UNCHANGED vars
  BY <1>10 DEF vars, defVars, SpecInv
<1> QED
  BY <1>4, <1>5, <1>6, <1>7, <1>8, <1>9, <1>10 DEF Next

\* A payment is its period's end, adjusted.
PaymentsInv ==
  Built =>
    /\ Len(periods) \in Nat /\ DOMAIN periods = 1..Len(periods)
    /\ \A i \in DOMAIN periods :
         /\ periods[i].start \in Int /\ periods[i].end \in Int
         /\ periods[i].payment = Adjust(spec.cal, periods[i].end, spec.bdc)

LEMMA PaymentsStep ==
  ASSUME TileInv, PaymentsInv, [Next]_vars
  PROVE  PaymentsInv'
<1>1. ASSUME pc' \in {"start", "back", "emit", "failed"}
      PROVE  PaymentsInv'
  BY <1>1 DEF PaymentsInv, Built
<1>2. ASSUME UNCHANGED <<spec, periods>>, pc = "built", pc' \in {"built", "done"}
      PROVE  PaymentsInv'
  BY <1>2 DEF PaymentsInv, Built
<1>3. CASE Build
  <2>1. CASE Refuse
    BY <1>1, <2>1 DEF Refuse, Fail
  <2>2. CASE ZeroCoupon
    <3>1. spec.effective \in Int /\ spec.maturity \in Int /\ spec' = spec
      BY <2>2 DEF ZeroCoupon, TileInv
    <3> QED
      BY <2>2, <3>1 DEF ZeroCoupon, PaymentsInv, PeriodOf
  <2>3. CASE Start
    BY <1>1, <2>3 DEF Start
  <2>4. CASE StepBack
    BY <1>1, <2>4 DEF StepBack
  <2>5. CASE EndWalk
    BY <1>1, <2>5 DEF EndWalk, Fail
  <2>6. CASE Emit
    <3> DEFINE n == Len(boundaries)
    <3>1. n \in Nat /\ n >= 2 /\ boundaries \in Seq(Int) /\ spec' = spec
      BY <2>6 DEF Emit, TileInv, HandOverInv
    <3>2. /\ Len(periods') = n - 1 /\ DOMAIN periods' = 1..(n - 1)
          /\ \A i \in 1..(n - 1) :
               /\ periods'[i].start = boundaries[n + 1 - i]
               /\ periods'[i].end = boundaries[n - i]
               /\ periods'[i].payment = Adjust(spec.cal, boundaries[n - i], spec.bdc)
      BY <2>6, <3>1 DEF Emit, PeriodOf
    <3>3. \A i \in 1..(n - 1) : boundaries[n + 1 - i] \in Int /\ boundaries[n - i] \in Int
      BY <3>1
    <3>4. \A i \in 1..(n - 1) :
            /\ periods'[i].start \in Int /\ periods'[i].end \in Int
            /\ periods'[i].payment = Adjust(spec.cal, periods'[i].end, spec.bdc)
      BY <3>2, <3>3
    <3>5. n - 1 \in Nat
      BY <3>1
    <3> QED
      BY <3>1, <3>2, <3>4, <3>5 DEF PaymentsInv
  <2> QED
    BY <1>3, <2>1, <2>2, <2>3, <2>4, <2>5, <2>6 DEF Build
<1>4. CASE Flows
  <2>1. PICK i \in DOMAIN periods : SkipFlow(i) \/ AddFlow(i) \/ FlowFails(i)
    BY <1>4 DEF Flows
  <2> QED
    BY <1>1, <1>2, <2>1 DEF SkipFlow, AddFlow, FlowFails, Flowing, Fail
<1>5. CASE UNCHANGED vars
  BY <1>5 DEF vars, PaymentsInv, Built
<1> QED
  BY <1>1, <1>2, <1>3, <1>4, <1>5 DEF Next, Reject, Accept, NoFlows, Finish, Fail

\* The caller names one of the four conventions, and no calendar that modified
\* following is asked of is shut for 300 days in a row.
OrdinaryDefs ==
  \A d \in Defs :
    /\ d.bdc \in BDCs
    /\ d.bdc = "MODIFIED_FOLLOWING" /\ d.calendar # NoCalendar => OpensYearly(d.calendar)

LEMMA FallbackOpens == IsCalendar(Fallback) /\ OpensYearly(Fallback)
<1>1. IsCalendar(Fallback)
  BY FS_EmptySet DEF Fallback, IsCalendar, Weekdays
<1>2. ASSUME NEW d \in Int
      PROVE  \E e \in d..(d + 300) : IsBusinessDay(Fallback, e)
  <2>1. PICK k \in 0..6 : \A j \in Int : Weekday(d + k + 7 * j) = 1
    <3>1. 1 \in Weekdays
      BY DEF Weekdays
    <3> QED
      BY <3>1, WeekdayComes
  <2>2. Weekday(d + k) = 1
    <3>1. Weekday(d + k + 7 * 0) = 1
      <4>1. PICK j \in Int : j = 0
        OBVIOUS
      <4>2. Weekday(d + k + 7 * j) = 1
        BY <2>1, Zenon
      <4> QED
        BY <4>1, <4>2, Zenon
    <3>2. d + k + 7 * 0 = d + k
      BY SMT
    <3> QED
      BY <3>1, <3>2
  <2>3. d + k \in d..(d + 300)
    BY SMT
  <2> QED
    BY <2>2, <2>3 DEF IsBusinessDay, IsWeekend, IsHoliday, Fallback
<1> QED
  BY <1>1, <1>2 DEF OpensYearly

LEMMA CalendarsOpen ==
  ASSUME NEW d \in Defs, OrdinaryDefs
  PROVE  /\ d.bdc \in BDCs /\ IsCalendar(CalendarOf(d))
         /\ d.bdc = "MODIFIED_FOLLOWING" => OpensYearly(CalendarOf(d))
<1>1. CASE CalendarOf(d) = Fallback
  BY <1>1, FallbackOpens DEF OrdinaryDefs
<1>2. CASE CalendarOf(d) = d.calendar /\ d.calendar # NoCalendar
  <2>1. \E w \in Weekdays : w \notin d.calendar.weekend
    BY <1>2, DefsAssumption
  <2>2. IsFiniteSet(d.calendar.holidays)
    BY <1>2, DefsAssumption
  <2> QED
    BY <1>2, <2>1, <2>2 DEF IsCalendar, OrdinaryDefs
<1> QED
  BY <1>1, <1>2 DEF CalendarOf

LEMMA OrderedPayments ==
  ASSUME OrdinaryDefs, SpecInv, TileInv, PaymentsInv, Built
  PROVE  /\ \A i \in DOMAIN periods : periods[i].payment \in Int
         /\ \A i \in 1..(Len(periods) - 1) : periods[i].payment <= periods[i + 1].payment
         /\ \A i \in DOMAIN periods :
              spec.bdc # "NONE" => IsBusinessDay(spec.cal, periods[i].payment)
<1>1. PICK c, b : c = spec.cal /\ b = spec.bdc
  OBVIOUS
<1>2. /\ b \in BDCs /\ IsCalendar(c)
      /\ b = "MODIFIED_FOLLOWING" => OpensYearly(c)
  <2>1. spec = SpecOf(def) /\ def \in Defs
    BY DEF SpecInv, Built
  <2>2. spec.cal = CalendarOf(def) /\ spec.bdc = def.bdc
    BY <2>1 DEF SpecOf
  <2> QED
    BY <1>1, <2>1, <2>2, CalendarsOpen
<1>3. /\ Len(periods) \in Nat /\ DOMAIN periods = 1..Len(periods)
      /\ \A i \in DOMAIN periods :
           /\ periods[i].start \in Int /\ periods[i].end \in Int
           /\ periods[i].payment = Adjust(c, periods[i].end, b)
  BY <1>1 DEF PaymentsInv
<1>4. \A d \in Int : b = "NONE" => Adjust(c, d, b) = d
  BY DEF Adjust
<1>5. ASSUME NEW i \in DOMAIN periods
      PROVE  /\ periods[i].payment \in Int
             /\ b # "NONE" => IsBusinessDay(c, periods[i].payment)
  <2>1. CASE b = "NONE"
    BY <1>3, <1>4, <2>1
  <2>2. CASE b \in Adjusting
    BY <1>2, <1>3, <2>2, AdjustOpens
  <2> QED
    BY <1>2, <2>1, <2>2 DEF BDCs
<1>6. ASSUME NEW i \in 1..(Len(periods) - 1)
      PROVE  periods[i].payment <= periods[i + 1].payment
  <2>1. i \in DOMAIN periods /\ i + 1 \in DOMAIN periods
    BY <1>3
  <2>2. PICK d \in Int, e \in Int : d = periods[i].end /\ e = periods[i + 1].end
    BY <1>3, <2>1
  <2>3. d <= e
    <3>1. d = periods[i + 1].start
      BY <2>2 DEF TileInv, PeriodsTile
    <3>2. \/ periods[i + 1].start < e
          \/ i + 1 = Len(periods) /\ periods[i + 1].start = spec.maturity
             /\ periods[Len(periods)].end = spec.maturity
      BY <1>3, <2>1, <2>2 DEF TileInv, PeriodsTile
    <3> QED
      BY <2>2, <3>1, <3>2
  <2>4. Adjust(c, d, b) <= Adjust(c, e, b)
    <3>1. CASE b = "NONE"
      BY <1>4, <2>3, <3>1
    <3>2. CASE b \in Adjusting
      BY <1>2, <2>3, <3>2, AdjustOrdered
    <3> QED
      BY <1>2, <3>1, <3>2 DEF BDCs
  <2> QED
    BY <1>3, <2>1, <2>2, <2>4
<1> QED
  BY <1>1, <1>5, <1>6

BuildInv == TileInv /\ SpecInv /\ PaymentsInv

LEMMA BuildInvariant == Spec => []BuildInv
<1>1. Init => BuildInv
  BY TileInit DEF Init, BuildInv, SpecInv, PaymentsInv, Built
<1>2. BuildInv /\ [Next]_vars => BuildInv'
  <2>1. SpecInv => def \in Defs
    BY DEF SpecInv
  <2> QED
    BY <2>1, TileStep, SpecStep, PaymentsStep DEF BuildInv
<1> QED
  BY <1>1, <1>2, PTL DEF Spec

\* Coupons are paid in the order in which they accrue, on business days: for
\* every bond whose calendar is not shut for 300 days in a row.
THEOREM PaymentsKeepOrder == OrdinaryDefs => (Spec => []PaymentsOrdered)
<1> SUFFICES ASSUME OrdinaryDefs
             PROVE  Spec => []PaymentsOrdered
  OBVIOUS
<1>1. BuildInv => PaymentsOrdered
  BY OrderedPayments DEF BuildInv, PaymentsOrdered
<1> QED
  BY <1>1, BuildInvariant, PTL

------------------------------------------------------------------------------
(* Flows.                                                                   *)

\* The periods up to the index are done with: the first were paid already, and
\* the others gave one flow each, in order.
FlowInv ==
  /\ \E S : flows \in Seq(S)
  /\ pc \notin {"built", "done", "failed"} => index = 1 /\ flows = <<>>
  /\ pc = "done" => index = Len(periods) + 1
  /\ Built =>
       LET skipped == index - 1 - Len(flows)
       IN  /\ index \in 1..(Len(periods) + 1) /\ skipped \in Nat
           /\ \A i \in 1..skipped : periods[i].payment <= valuation
           /\ \A k \in 1..Len(flows) :
                /\ flows[k].period = skipped + k
                /\ flows[k].payment = periods[skipped + k].payment
                /\ periods[skipped + k].payment > valuation
                /\ flows[k].redemption <=> skipped + k = Len(periods)

\* What both steps of the loop start from.
LEMMA FlowFacts ==
  ASSUME OrdinaryDefs, BuildInv, FlowInv, Built
  PROVE  /\ Len(periods) \in Nat /\ Len(periods) >= 1 /\ DOMAIN periods = 1..Len(periods)
         /\ valuation \in Int /\ index \in Nat /\ Len(flows) \in Nat
         /\ \A i \in DOMAIN periods : periods[i].payment \in Int
         /\ \A i \in 1..(Len(periods) - 1) : periods[i].payment <= periods[i + 1].payment
<1>1. \A i \in DOMAIN periods : periods[i].payment \in Int
  BY OrderedPayments DEF BuildInv
<1>2. \A i \in 1..(Len(periods) - 1) : periods[i].payment <= periods[i + 1].payment
  BY OrderedPayments DEF BuildInv
<1>3. Len(periods) \in Nat /\ DOMAIN periods = 1..Len(periods)
  BY DEF BuildInv, PaymentsInv
<1>4. Len(periods) >= 1
  BY DEF BuildInv, TileInv, PeriodsTile
<1>5. valuation \in Int
  BY ValuationsAssumption DEF BuildInv, SpecInv, Built
<1>6. Len(flows) \in Nat
  BY DEF FlowInv
<1>7. index \in Nat
  BY <1>3 DEF FlowInv
<1> QED
  BY <1>1, <1>2, <1>3, <1>4, <1>5, <1>6, <1>7

\* Nothing is skipped once a flow is kept: payments are in order.
LEMMA SkipFlows ==
  ASSUME OrdinaryDefs, BuildInv, FlowInv, NEW i \in DOMAIN periods, SkipFlow(i)
  PROVE  FlowInv'
<1>1. /\ Built /\ index = i /\ pc' = pc /\ pc = "built" /\ index' = i + 1
      /\ flows' = flows /\ periods' = periods /\ valuation' = valuation
      /\ periods[i].payment <= valuation
  BY DEF SkipFlow, Flowing, Built, Paid, defVars
<1>2. PICK n, v, l : n = Len(periods) /\ v = valuation /\ l = Len(flows)
  OBVIOUS
<1>3. /\ n \in Nat /\ DOMAIN periods = 1..n /\ v \in Int /\ l \in Nat
      /\ \A j \in 1..n : periods[j].payment \in Int
      /\ \A j \in 1..(n - 1) : periods[j].payment <= periods[j + 1].payment
  BY <1>1, <1>2, FlowFacts
<1>4. /\ i - 1 - l \in Nat
      /\ \A j \in 1..(i - 1 - l) : periods[j].payment <= v
      /\ \A k \in 1..l : periods[(i - 1 - l) + k].payment > v
  BY <1>1, <1>2 DEF FlowInv
<1>5. l = 0
  <2>1. SUFFICES ASSUME l >= 1
                 PROVE  FALSE
    BY <1>3
  <2>2. i \in 1..n /\ l \in 1..l /\ (i - 1 - l) + l = i - 1
    BY <1>3, <2>1
  <2>3. periods[i - 1].payment > v
    BY <1>4, <2>2
  <2>4. i - 1 \in 1..(n - 1) /\ (i - 1) + 1 = i /\ i - 1 \in 1..n
    BY <1>3, <1>4, <2>1, <2>2
  <2>5. periods[i - 1].payment <= periods[i].payment
    BY <1>3, <2>4
  <2> QED
    BY <1>1, <1>2, <1>3, <2>2, <2>3, <2>4, <2>5
<1>6. /\ i + 1 \in 1..(n + 1) /\ (i + 1) - 1 - l \in Nat
      /\ \A j \in 1..((i + 1) - 1 - l) : periods[j].payment <= v
  BY <1>1, <1>2, <1>3, <1>4, <1>5
<1> QED
  BY <1>1, <1>2, <1>5, <1>6 DEF FlowInv, Built

LEMMA AddFlows ==
  ASSUME OrdinaryDefs, BuildInv, FlowInv, NEW i \in DOMAIN periods, AddFlow(i)
  PROVE  FlowInv'
<1> DEFINE new == [period     |-> i,
                   payment    |-> periods[i].payment,
                   coupon     |-> CouponAmount(i).yf,
                   redemption |-> i = Len(periods)]
<1>1. /\ Built /\ index = i /\ pc' = pc /\ pc = "built" /\ index' = i + 1
      /\ periods' = periods /\ valuation' = valuation
      /\ ~(periods[i].payment <= valuation)
  BY DEF AddFlow, Flowing, Built, Paid, defVars
<1>2. PICK n, v, l : n = Len(periods) /\ v = valuation /\ l = Len(flows)
  OBVIOUS
<1>3. /\ n \in Nat /\ DOMAIN periods = 1..n /\ v \in Int /\ l \in Nat
      /\ \A j \in 1..n : periods[j].payment \in Int
  BY <1>1, <1>2, FlowFacts
<1>4. /\ i - 1 - l \in Nat
      /\ \A j \in 1..(i - 1 - l) : periods[j].payment <= v
      /\ \A k \in 1..l :
           /\ flows[k].period = (i - 1 - l) + k
           /\ flows[k].payment = periods[(i - 1 - l) + k].payment
           /\ periods[(i - 1 - l) + k].payment > v
           /\ flows[k].redemption <=> (i - 1 - l) + k = n
  BY <1>1, <1>2 DEF FlowInv
<1>5. flows' = Append(flows, new)
  BY DEF AddFlow
<1>6. PICK S : flows \in Seq(S)
  BY DEF FlowInv
<1>7. flows \in Seq(S \cup {new})
  BY <1>6, SeqMonotonic
<1>8. /\ flows' \in Seq(S \cup {new}) /\ Len(flows') = l + 1
      /\ \A k \in 1..l : flows'[k] = flows[k]
      /\ flows'[l + 1] = new
  <2> HIDE DEF new
  <2> QED
    BY <1>2, <1>5, <1>7, AppendProperties
<1>9. new.period = i /\ new.payment = periods[i].payment /\ (new.redemption <=> i = n)
  BY <1>2
<1> HIDE DEF new
<1>10. /\ (i + 1) - 1 - (l + 1) = i - 1 - l /\ (i - 1 - l) + (l + 1) = i
       /\ i + 1 \in 1..(n + 1)
  BY <1>3
<1>11. periods[i].payment > v
  BY <1>1, <1>2, <1>3
<1>12. ASSUME NEW k \in 1..(l + 1)
       PROVE  /\ flows'[k].period = (i - 1 - l) + k
              /\ flows'[k].payment = periods[(i - 1 - l) + k].payment
              /\ periods[(i - 1 - l) + k].payment > v
              /\ flows'[k].redemption <=> (i - 1 - l) + k = n
  <2>1. CASE k \in 1..l
    BY <1>4, <1>8, <2>1
  <2>2. CASE k = l + 1
    BY <1>8, <1>9, <1>10, <1>11, <2>2
  <2> QED
    BY <1>3, <2>1, <2>2
<1>13. \E T : flows' \in Seq(T)
  BY <1>8
<1>14. pc' = "built"
  BY <1>1
<1>15. PICK s : s = i - 1 - l
  OBVIOUS
<1>16. /\ index' - 1 - Len(flows') = s /\ s \in Nat /\ index' \in 1..(Len(periods') + 1)
       /\ \A j \in 1..s : periods'[j].payment <= valuation'
  BY <1>1, <1>2, <1>4, <1>8, <1>10, <1>15
<1>17. \A k \in 1..Len(flows') :
         /\ flows'[k].period = s + k
         /\ flows'[k].payment = periods'[s + k].payment
         /\ periods'[s + k].payment > valuation'
         /\ flows'[k].redemption <=> s + k = Len(periods')
  BY <1>1, <1>2, <1>8, <1>12, <1>15
<1> QED
  BY <1>13, <1>14, <1>16, <1>17 DEF FlowInv

LEMMA FlowStep ==
  ASSUME OrdinaryDefs, BuildInv, BuildInv', FlowInv, [Next]_vars
  PROVE  FlowInv'
<1>1. ASSUME pc' \notin {"built", "done"}, UNCHANGED <<index, flows>>,
             pc' = "failed" \/ pc \notin {"built", "done", "failed"}
      PROVE  FlowInv'
  BY <1>1 DEF FlowInv, Built
<1>2. ASSUME pc' = "built", pc \notin {"built", "done", "failed"},
             UNCHANGED <<index, flows>>
      PROVE  FlowInv'
  <2>1. index' = 1 /\ flows' = <<>> /\ Len(flows') = 0
    BY <1>2 DEF FlowInv
  <2>2. Len(periods') \in Nat /\ Len(periods') >= 1
    BY <1>2 DEF BuildInv, PaymentsInv, TileInv, PeriodsTile, Built
  <2>3. flows' \in Seq({})
    BY <2>1
  <2> QED
    BY <1>2, <2>1, <2>2, <2>3 DEF FlowInv
<1>3. CASE Reject
  BY <1>1, <1>3 DEF Reject, Fail
<1>4. CASE Accept
  BY <1>1, <1>4 DEF Accept
<1>5. CASE Build /\ UNCHANGED <<defVars, index, flows>>
  BY <1>1, <1>2, <1>5 DEF Build, Refuse, ZeroCoupon, Start, StepBack, EndWalk, Emit, Fail
<1>6. CASE Flows
  <2>1. PICK i \in DOMAIN periods : SkipFlow(i) \/ AddFlow(i) \/ FlowFails(i)
    BY <1>6 DEF Flows
  <2>2. CASE FlowFails(i)
    BY <1>1, <2>2 DEF FlowFails, Fail
  <2> QED
    BY <2>1, <2>2, SkipFlows, AddFlows
<1>7. CASE NoFlows
  BY <1>1, <1>7 DEF NoFlows, Fail
<1>8. CASE Finish
  <2>1. /\ Built /\ pc' = "done" /\ index = Len(periods) + 1
        /\ UNCHANGED <<periods, valuation, index, flows>>
    BY <1>8 DEF Finish, Built, defVars
  <2> QED
    BY <2>1 DEF FlowInv, Built
<1>9. CASE UNCHANGED vars
  BY <1>9 DEF vars, defVars, FlowInv, Built
<1> QED
  BY <1>3, <1>4, <1>5, <1>6, <1>7, <1>8, <1>9 DEF Next

LEMMA FlowsFollow ==
  ASSUME OrdinaryDefs, BuildInv, FlowInv
  PROVE  FlowsAreTheFuture
<1> SUFFICES ASSUME Done
             PROVE  FlowsAreTheFuture
  BY DEF FlowsAreTheFuture
<1>1. Built /\ index = Len(periods) + 1
  BY DEF Done, Built, FlowInv
<1>2. PICK n, v, l, s : /\ n = Len(periods) /\ v = valuation /\ l = Len(flows)
                        /\ s = index - 1 - Len(flows)
  OBVIOUS
<1>3. /\ n \in Nat /\ n >= 1 /\ DOMAIN periods = 1..n /\ v \in Int /\ l \in Nat
      /\ \A j \in 1..n : periods[j].payment \in Int
      /\ \A j \in 1..(n - 1) : periods[j].payment <= periods[j + 1].payment
  BY <1>1, <1>2, FlowFacts
<1>4. s \in Nat /\ s = n - l
  BY <1>1, <1>2, <1>3 DEF FlowInv
<1>5. /\ \A j \in 1..s : periods[j].payment <= v
      /\ \A k \in 1..l :
           /\ flows[k].period = s + k
           /\ flows[k].payment = periods[s + k].payment
           /\ periods[s + k].payment > v
           /\ flows[k].redemption <=> s + k = n
  BY <1>1, <1>2 DEF FlowInv
<1>6. {flows[k].period : k \in 1..l} = {i \in DOMAIN periods : periods[i].payment > v}
  <2>1. ASSUME NEW k \in 1..l
        PROVE  flows[k].period \in {i \in DOMAIN periods : periods[i].payment > v}
    <3>1. s + k \in 1..n
      BY <1>3, <1>4
    <3> QED
      BY <1>3, <1>5, <3>1
  <2>2. ASSUME NEW i \in DOMAIN periods, periods[i].payment > v
        PROVE  \E k \in 1..l : flows[k].period = i
    <3>1. i \in 1..n /\ ~(i \in 1..s)
      BY <1>3, <1>5, <2>2
    <3>2. i - s \in 1..l /\ s + (i - s) = i
      BY <1>3, <1>4, <3>1
    <3> QED
      BY <1>5, <3>2
  <2> QED
    BY <2>1, <2>2
<1>7. \A k \in 1..l : flows[k].period = n - l + k /\ (flows[k].redemption <=> k = l)
  BY <1>3, <1>4, <1>5
<1>8. ASSUME NEW k \in 1..(l - 1)
      PROVE  flows[k].payment <= flows[k + 1].payment
  <2>1. k \in 1..l /\ k + 1 \in 1..l /\ s + k \in 1..(n - 1) /\ s + (k + 1) = (s + k) + 1
    BY <1>3, <1>4
  <2> QED
    BY <1>3, <1>5, <2>1
<1> QED
  BY <1>2, <1>6, <1>7, <1>8 DEF FlowsAreTheFuture

\* The flows of a bond that is built are those after its valuation date, all of
\* them, in order, with one redemption: whatever its periods, if its calendar is
\* not shut for 300 days in a row.
THEOREM FutureFlowsOnly == OrdinaryDefs => (Spec => []FlowsAreTheFuture)
<1> SUFFICES ASSUME OrdinaryDefs
             PROVE  Spec => []FlowsAreTheFuture
  OBVIOUS
<1>1. Init => FlowInv
  BY EmptySeq DEF Init, FlowInv, Built
<1>2. BuildInv /\ BuildInv' /\ FlowInv /\ [Next]_vars => FlowInv'
  BY FlowStep
<1>3. BuildInv /\ FlowInv => FlowsAreTheFuture
  BY FlowsFollow
<1> QED
  BY <1>1, <1>2, <1>3, BuildInvariant, PTL DEF Spec

------------------------------------------------------------------------------
(* Coupons.                                                                 *)

\* Every coupon the loop got past can be computed, and a flow carries it.
CouponInv ==
  /\ \E S : flows \in Seq(S)
  /\ pc \notin {"built", "done", "failed"} => index = 1 /\ flows = <<>>
  /\ pc = "done" => index = Len(periods) + 1 /\ flows # <<>>
  /\ Built =>
       /\ index \in 1..(Len(periods) + 1)
       /\ \A i \in 1..(index - 1) : ~Paid(i) => CouponAmount(i).status = "OK"
       /\ \A k \in 1..Len(flows) :
            \E p \in DOMAIN periods :
              /\ flows[k].period = p
              /\ CouponAmount(p).status = "OK" /\ flows[k].coupon = CouponAmount(p).yf

LEMMA CouponsKept ==
  ASSUME UNCHANGED <<spec, def, valuation, periods>>
  PROVE  \A i : CouponAmount(i)' = CouponAmount(i) /\ Paid(i)' = Paid(i)
BY DEF CouponAmount, ReferencePeriod, Paid

LEMMA SkipCoupons ==
  ASSUME PaymentsInv, CouponInv, NEW i \in DOMAIN periods, SkipFlow(i)
  PROVE  CouponInv'
<1>1. /\ Built /\ index = i /\ pc' = pc /\ pc = "built" /\ index' = i + 1 /\ Paid(i)
      /\ flows' = flows /\ UNCHANGED <<spec, def, valuation, periods>>
  BY DEF SkipFlow, Flowing, Built, defVars
<1>2. PICK n \in Nat : n = Len(periods) /\ DOMAIN periods = 1..n
  BY <1>1 DEF PaymentsInv
<1>3. \A j \in 1..i : ~Paid(j) => CouponAmount(j).status = "OK"
  BY <1>1, <1>2 DEF CouponInv
<1>4. (i + 1) - 1 = i /\ i + 1 \in 1..(n + 1)
  BY <1>2
<1>5. \A j : CouponAmount(j)' = CouponAmount(j) /\ Paid(j)' = Paid(j)
  BY <1>1, CouponsKept
<1> QED
  BY <1>1, <1>2, <1>3, <1>4, <1>5 DEF CouponInv, Built

LEMMA AddCoupons ==
  ASSUME PaymentsInv, CouponInv, NEW i \in DOMAIN periods, AddFlow(i)
  PROVE  CouponInv'
<1> DEFINE new == [period     |-> i,
                   payment    |-> periods[i].payment,
                   coupon     |-> CouponAmount(i).yf,
                   redemption |-> i = Len(periods)]
<1>1. /\ Built /\ index = i /\ pc' = pc /\ pc = "built" /\ index' = i + 1
      /\ CouponAmount(i).status = "OK"
      /\ flows' = Append(flows, new) /\ UNCHANGED <<spec, def, valuation, periods>>
  BY DEF AddFlow, Flowing, Built, defVars
<1>2. PICK n \in Nat : n = Len(periods) /\ DOMAIN periods = 1..n
  BY <1>1 DEF PaymentsInv
<1>3. \A j \in 1..i : ~Paid(j) => CouponAmount(j).status = "OK"
  BY <1>1, <1>2 DEF CouponInv
<1>4. (i + 1) - 1 = i /\ i + 1 \in 1..(n + 1)
  BY <1>2
<1>5. PICK S : flows \in Seq(S)
  BY DEF CouponInv
<1>6. flows \in Seq(S \cup {new})
  BY <1>5, SeqMonotonic
<1>7. new.period = i /\ new.coupon = CouponAmount(i).yf
  OBVIOUS
<1> HIDE DEF new
<1>8. PICK l \in Nat : l = Len(flows)
  BY <1>5
<1>9. /\ flows' \in Seq(S \cup {new}) /\ Len(flows') = l + 1
      /\ \A k \in 1..l : flows'[k] = flows[k]
      /\ flows'[l + 1] = new
  BY <1>1, <1>6, <1>8, AppendProperties
<1>10. ASSUME NEW k \in 1..(l + 1)
       PROVE  \E p \in DOMAIN periods :
                /\ flows'[k].period = p
                /\ CouponAmount(p).status = "OK" /\ flows'[k].coupon = CouponAmount(p).yf
  <2>1. CASE k \in 1..l
    BY <1>1, <1>8, <1>9, <2>1 DEF CouponInv
  <2>2. CASE k = l + 1
    BY <1>1, <1>7, <1>9, <2>2
  <2> QED
    BY <2>1, <2>2
<1>11. \A j : CouponAmount(j)' = CouponAmount(j) /\ Paid(j)' = Paid(j)
  BY <1>1, CouponsKept
<1>12. \A k \in 1..Len(flows') :
         \E p \in DOMAIN periods' :
           /\ flows'[k].period = p
           /\ CouponAmount(p)'.status = "OK" /\ flows'[k].coupon = CouponAmount(p)'.yf
  BY <1>1, <1>9, <1>10, <1>11
<1>13. \E T : flows' \in Seq(T)
  BY <1>9
<1>14. \A j \in 1..(index' - 1) : ~Paid(j)' => CouponAmount(j)'.status = "OK"
  BY <1>1, <1>3, <1>4, <1>11
<1> QED
  BY <1>1, <1>2, <1>4, <1>12, <1>13, <1>14 DEF CouponInv

LEMMA CouponStep ==
  ASSUME BuildInv, BuildInv', CouponInv, [Next]_vars
  PROVE  CouponInv'
<1>1. ASSUME pc' \notin {"built", "done"}, UNCHANGED <<index, flows>>,
             pc' = "failed" \/ pc \notin {"built", "done", "failed"}
      PROVE  CouponInv'
  BY <1>1 DEF CouponInv, Built
<1>2. ASSUME pc' = "built", pc \notin {"built", "done", "failed"},
             UNCHANGED <<index, flows>>
      PROVE  CouponInv'
  <2>1. index' = 1 /\ flows' = <<>> /\ Len(flows') = 0 /\ index' - 1 = 0
    BY <1>2 DEF CouponInv
  <2>2. Len(periods') \in Nat /\ Len(periods') >= 1
    BY <1>2 DEF BuildInv, PaymentsInv, TileInv, PeriodsTile, Built
  <2>3. flows' \in Seq({})
    BY <2>1
  <2> QED
    BY <1>2, <2>1, <2>2, <2>3 DEF CouponInv
<1>3. CASE Reject
  BY <1>1, <1>3 DEF Reject, Fail
<1>4. CASE Accept
  BY <1>1, <1>4 DEF Accept
<1>5. CASE Build /\ UNCHANGED <<defVars, index, flows>>
  BY <1>1, <1>2, <1>5 DEF Build, Refuse, ZeroCoupon, Start, StepBack, EndWalk, Emit, Fail
<1>6. CASE Flows
  <2>1. PICK i \in DOMAIN periods : SkipFlow(i) \/ AddFlow(i) \/ FlowFails(i)
    BY <1>6 DEF Flows
  <2>2. CASE FlowFails(i)
    BY <1>1, <2>2 DEF FlowFails, Fail
  <2> QED
    BY <2>1, <2>2, SkipCoupons, AddCoupons DEF BuildInv
<1>7. CASE NoFlows
  BY <1>1, <1>7 DEF NoFlows, Fail
<1>8. ASSUME UNCHANGED <<spec, def, valuation, periods, index, flows>>,
             \/ pc' = pc
             \/ pc = "built" /\ pc' = "done" /\ index = Len(periods) + 1 /\ flows # <<>>
      PROVE  CouponInv'
  <2>1. \A j : CouponAmount(j)' = CouponAmount(j) /\ Paid(j)' = Paid(j)
    BY <1>8, CouponsKept
  <2>2. ASSUME Built'
        PROVE  /\ index' \in 1..(Len(periods') + 1)
               /\ \A i \in 1..(index' - 1) : ~Paid(i)' => CouponAmount(i)'.status = "OK"
               /\ \A k \in 1..Len(flows') :
                    \E p \in DOMAIN periods' :
                      /\ flows'[k].period = p
                      /\ CouponAmount(p)'.status = "OK"
                      /\ flows'[k].coupon = CouponAmount(p)'.yf
    <3>1. Built
      BY <1>8, <2>2 DEF Built
    <3> QED
      BY <1>8, <2>1, <3>1 DEF CouponInv
  <2>3. /\ \E S : flows' \in Seq(S)
        /\ pc' \notin {"built", "done", "failed"} => index' = 1 /\ flows' = <<>>
        /\ pc' = "done" => index' = Len(periods') + 1 /\ flows' # <<>>
    BY <1>8 DEF CouponInv
  <2> QED
    BY <2>2, <2>3 DEF CouponInv
<1>9. CASE Finish
  BY <1>8, <1>9 DEF Finish, defVars
<1>10. CASE UNCHANGED vars
  <2>1. UNCHANGED <<spec, def, valuation, periods, index, flows>> /\ pc' = pc
    BY <1>10 DEF vars, defVars
  <2> QED
    BY <1>8, <2>1
<1> QED
  BY <1>3, <1>4, <1>5, <1>6, <1>7, <1>9, <1>10 DEF Next

LEMMA CouponInvariant == Spec => []CouponInv
<1>1. Init => CouponInv
  BY EmptySeq DEF Init, CouponInv, Built
<1>2. BuildInv /\ BuildInv' /\ CouponInv /\ [Next]_vars => CouponInv'
  BY CouponStep
<1> QED
  BY <1>1, <1>2, BuildInvariant, PTL DEF Spec

\* The fraction of an ICMA coupon, when it has one.
LEMMA IcmaCoupon ==
  ASSUME BuildInv, Built, def.daycount = "ACT_ACT_ICMA", spec.frequency # 0,
         NEW i \in DOMAIN periods, CouponAmount(i).status = "OK",
         NEW a, NEW b, a = periods[i].start, b = periods[i].end
  PROVE  \E n \in Int, s \in Int :
           /\ n = spec.frequency /\ n > 0 /\ a \in Int /\ b \in Int
           /\ s <= a /\ a <= b /\ s < b
           /\ ~periods[i].stub => s = a
           /\ ReferencePeriod(i) = [start |-> s, end |-> b, frequency |-> n]
           /\ CouponAmount(i).yf = <<b - a, (b - s) * n>>
<1>1. PICK n, s : /\ n = spec.frequency
                  /\ s = IF periods[i].stub THEN ShiftMonths(b, -Months(spec), TRUE) ELSE a
  OBVIOUS
<1>2. a \in Int /\ b \in Int /\ a <= b
  <2>1. a \in Int /\ b \in Int /\ DOMAIN periods = 1..Len(periods) /\ Len(periods) \in Nat
    BY DEF BuildInv, PaymentsInv
  <2>2. \/ periods[i].start < periods[i].end
        \/ i = Len(periods) /\ periods[i].start = spec.maturity
           /\ periods[Len(periods)].end = spec.maturity
    BY <2>1 DEF BuildInv, TileInv, PeriodsTile
  <2> QED
    BY <2>1, <2>2
<1>3. n \in Int
  <2>1. def \in Defs /\ spec = SpecOf(def)
    BY DEF BuildInv, SpecInv, Built
  <2>2. spec.frequency = def.frequency
    BY <2>1 DEF SpecOf
  <2> QED
    BY <1>1, <2>1, <2>2, DefsAssumption
<1>4. ReferencePeriod(i) = [start |-> s, end |-> b, frequency |-> n]
  BY <1>1 DEF ReferencePeriod
<1>5. CouponAmount(i) = ActActIcma(a, b, [start |-> s, end |-> b, frequency |-> n])
  BY <1>4 DEF CouponAmount, YearFraction
<1>6. /\ b > s /\ n > 0 /\ ~(a < s)
      /\ CouponAmount(i).yf = <<b - a, (b - s) * n>>
  BY <1>5 DEF ActActIcma, ValidPeriod, Refused, Fraction
<1>7. s \in Int
  <2>1. CASE periods[i].stub
    <3>1. Months(spec) = 12 \div n
      BY <1>1, <1>6 DEF Months
    <3>2. PICK m \in Int : m = -Months(spec)
      BY <1>3, <1>6, <3>1, SMT
    <3> QED
      BY <1>1, <1>2, <2>1, <3>2, ShiftMonthsIs
  <2>2. CASE ~periods[i].stub
    BY <1>1, <1>2, <2>2
  <2> QED
    BY <2>1, <2>2
<1>8. s <= a /\ s < b
  BY <1>2, <1>6, <1>7
<1>9. ~periods[i].stub => s = a
  BY <1>1
<1> QED
  BY <1>1, <1>2, <1>3, <1>4, <1>6, <1>7, <1>8, <1>9

\* An ICMA coupon is at most the annual one over the frequency, and exactly that
\* if its period is whole: for every bond.
THEOREM WholeCouponsArePaid == Spec => []CouponsWhole
<1>1. BuildInv /\ CouponInv => CouponsWhole
  <2> SUFFICES ASSUME BuildInv, CouponInv, Done,
                      def.daycount = "ACT_ACT_ICMA", spec.frequency # 0,
                      NEW k \in DOMAIN flows
               PROVE  LET q == flows[k].coupon
                      IN  /\ q[1] * spec.frequency <= q[2]
                          /\ ~periods[flows[k].period].stub => q[1] * spec.frequency = q[2]
    BY DEF CouponsWhole
  <2>1. Built
    BY DEF Done, Built
  <2>2. k \in 1..Len(flows)
    BY DEF CouponInv
  <2>3. PICK p \in DOMAIN periods :
          /\ flows[k].period = p
          /\ CouponAmount(p).status = "OK" /\ flows[k].coupon = CouponAmount(p).yf
    BY <2>1, <2>2 DEF CouponInv
  <2>4. PICK a, b : a = periods[p].start /\ b = periods[p].end
    OBVIOUS
  <2>5. PICK n \in Int, s \in Int :
          /\ n = spec.frequency /\ n > 0 /\ a \in Int /\ b \in Int
          /\ s <= a /\ a <= b /\ s < b
          /\ ~periods[p].stub => s = a
          /\ CouponAmount(p).yf = <<b - a, (b - s) * n>>
    BY <2>1, <2>3, <2>4, IcmaCoupon
  <2>6. (b - a) * n <= (b - s) * n
    <3>1. PICK x \in Nat, y \in Nat : x = b - a /\ y = a - s
      BY <2>5, SMT
    <3>2. y * n >= 0
      BY <2>5, SMT
    <3>3. (b - s) * n = x * n + y * n
      BY <2>5, <3>1, SMT
    <3>4. x * n \in Int /\ y * n \in Int
      BY <2>5, SMT
    <3> QED
      BY <3>1, <3>2, <3>3, <3>4, SMT
  <2>7. s = a => (b - a) * n = (b - s) * n
    OBVIOUS
  <2> QED
    BY <2>3, <2>5, <2>6, <2>7
<1> QED
  BY <1>1, BuildInvariant, CouponInvariant, PTL

------------------------------------------------------------------------------
(* Accrued interest.                                                        *)

LEMMA PeriodHolds ==
  ASSUME BuildInv, Built, NEW d \in Int, NEW i, i = PeriodIndexFor(d)
  PROVE  \/ i = Len(periods) + 1 /\ i \notin DOMAIN periods
         \/ i \in DOMAIN periods /\ periods[i].start <= d /\ d < periods[i].end
<1> DEFINE holds(j) == periods[j].start <= d /\ d < periods[j].end
<1>1. PICK n \in Nat : n = Len(periods) /\ DOMAIN periods = 1..n
  BY DEF BuildInv, PaymentsInv
<1>2. CASE \E j \in DOMAIN periods : holds(j)
  <2>1. PICK T : T = {j \in DOMAIN periods : holds(j)}
    OBVIOUS
  <2>2. PICK b \in 1..n : b \in T
    BY <1>1, <1>2, <2>1
  <2>3. PICK x \in 1..b : x \in T /\ \A y \in 1..(x - 1) : y \notin T
    <3>1. PICK o \in Int, e \in Int : o = 1 /\ e = b /\ o <= e /\ e \in T
      BY <2>2
    <3>2. \E x \in o..e : x \in T /\ \A y \in o..(x - 1) : y \notin T
      BY <3>1, FirstFrom
    <3> QED
      BY <3>1, <3>2
  <2>4. x \in DOMAIN periods /\ holds(x) /\ \A j \in 1..(x - 1) : ~holds(j)
    <3>1. \A j \in 1..(x - 1) : j \in DOMAIN periods
      BY <1>1, <2>2, <2>3
    <3> QED
      BY <2>1, <2>3, <3>1
  <2>5. i = CHOOSE j \in DOMAIN periods : holds(j) /\ \A m \in 1..(j - 1) : ~holds(m)
    BY <1>2 DEF PeriodIndexFor
  <2>6. i \in DOMAIN periods /\ holds(i)
    <3> HIDE DEF holds
    <3> QED
      BY <2>4, <2>5
  <2> QED
    BY <2>6
<1>3. CASE ~ \E j \in DOMAIN periods : holds(j)
  BY <1>1, <1>3 DEF PeriodIndexFor
<1> QED
  BY <1>2, <1>3

\* What accrued interest and the coupon it accrues towards have in common.
LEMMA AccruedIs ==
  ASSUME BuildInv, Built, spec.frequency # 0,
         NEW i \in DOMAIN periods, i = PeriodIndexFor(valuation)
  PROVE  \E a \in Int, v \in Int, b \in Int :
           /\ a = periods[i].start /\ v = valuation /\ b = periods[i].end
           /\ a <= v /\ v < b
           /\ Accrued = YearFraction(def.daycount, a, v, ReferencePeriod(i))
           /\ CouponAmount(i) = YearFraction(def.daycount, a, b, ReferencePeriod(i))
<1>1. valuation \in Int
  BY ValuationsAssumption DEF BuildInv, SpecInv, Built
<1>2. periods[i].start \in Int /\ periods[i].end \in Int
  BY DEF BuildInv, PaymentsInv
<1>3. periods[i].start <= valuation /\ valuation < periods[i].end
  BY <1>1, PeriodHolds
<1>4. ~ (i > Len(periods))
  BY DEF BuildInv, PaymentsInv
<1>5. Accrued = YearFraction(def.daycount, periods[i].start, valuation, ReferencePeriod(i))
  BY <1>4 DEF Accrued
<1>6. CouponAmount(i)
        = YearFraction(def.daycount, periods[i].start, periods[i].end, ReferencePeriod(i))
  BY DEF CouponAmount
<1> QED
  BY <1>1, <1>2, <1>3, <1>5, <1>6

\* Accrued interest starts from nothing and never exceeds its coupon: for every
\* bond, date and convention.
THEOREM AccruedStaysWithin == Spec => []AccruedWithinCoupon
<1>1. BuildInv => AccruedWithinCoupon
  <2> SUFFICES ASSUME BuildInv, Done, NEW i, i = PeriodIndexFor(valuation),
                      i \in DOMAIN periods, Accrued.status = "OK"
               PROVE  /\ Accrued.yf[1] >= 0
                      /\ CouponAmount(i).status = "OK" => AtMost(Accrued.yf, CouponAmount(i).yf)
                      /\ valuation = periods[i].start => Accrued.yf[1] = 0
    BY DEF AccruedWithinCoupon
  <2>1. Built
    BY DEF Done, Built
  <2>2. CASE spec.frequency = 0
    <3>1. Accrued = Fraction(0, 1) /\ CouponAmount(i) = Fraction(0, 1)
      BY <2>2 DEF Accrued, CouponAmount
    <3>2. Fraction(0, 1).yf = <<0, 1>>
      BY DEF Fraction
    <3> QED
      BY <3>1, <3>2 DEF AtMost
  <2>3. CASE spec.frequency # 0
    <3>1. PICK dc, p : dc = def.daycount /\ p = ReferencePeriod(i)
      OBVIOUS
    <3>2. PICK a \in Int, v \in Int, b \in Int :
            /\ a = periods[i].start /\ v = valuation /\ b = periods[i].end
            /\ a <= v /\ v < b
            /\ Accrued = YearFraction(dc, a, v, p)
            /\ CouponAmount(i) = YearFraction(dc, a, b, p)
      BY <2>1, <2>3, <3>1, AccruedIs
    <3>3. CASE dc \in Conventions \ {"ACT_ACT_ICMA"}
      <4>1. v <= b
        BY <3>2
      <4>2. /\ YearFraction(dc, a, a, p).yf[1] = 0
            /\ YearFraction(dc, a, v, p).yf[1] >= 0
            /\ YearFraction(dc, a, v, p).yf[1] <= YearFraction(dc, a, b, p).yf[1]
        BY <3>2, <3>3, <4>1, InterestGrows
      <4> QED
        BY <3>2, <4>2 DEF AtMost
    <3>4. CASE dc = "ACT_ACT_ICMA"
      <4>1. \A e : YearFraction(dc, a, e, p) = ActActIcma(a, e, p)
        BY <3>4 DEF YearFraction
      <4>2. \A e : ActActIcma(a, e, p).status = "OK" => ActActIcma(a, e, p).yf[1] = e - a
        BY DEF ActActIcma, Refused, Fraction
      <4>3. Accrued.yf[1] = v - a
        BY <3>2, <4>1, <4>2
      <4>4. CouponAmount(i).status = "OK" => CouponAmount(i).yf[1] = b - a
        BY <3>2, <4>1, <4>2
      <4> QED
        BY <3>2, <4>3, <4>4 DEF AtMost
    <3>5. CASE dc \notin Conventions
      BY <3>2, <3>5 DEF YearFraction, Refused, Conventions
    <3> QED
      BY <3>3, <3>4, <3>5
  <2> QED
    BY <2>2, <2>3
<1> QED
  BY <1>1, BuildInvariant, PTL

\* A bond that was built has an accrued interest, but for a front stub under
\* ICMA whose coupon was paid before it ended: for every bond.
THEOREM BuiltBondsArePriced == Spec => []BuiltIsPriceable
<1>1. BuildInv /\ CouponInv => BuiltIsPriceable
  <2> SUFFICES ASSUME BuildInv, CouponInv, Done, Accrued.status # "OK",
                      NEW i, i = PeriodIndexFor(valuation)
               PROVE  /\ def.daycount = "ACT_ACT_ICMA"
                      /\ periods[i].stub
                      /\ periods[i].payment <= valuation
    BY DEF BuiltIsPriceable
  <2>1. Built
    BY DEF Done, Built
  <2>2. spec.frequency # 0 /\ ~ (i > Len(periods))
    BY DEF Accrued, Fraction
  <2>3. i \in DOMAIN periods
    <3>1. valuation \in Int
      BY <2>1, ValuationsAssumption DEF BuildInv, SpecInv, Built
    <3>2. Len(periods) \in Nat
      BY <2>1 DEF BuildInv, PaymentsInv
    <3> QED
      BY <2>1, <2>2, <3>1, <3>2, PeriodHolds
  <2>4. PICK dc, r : dc = def.daycount /\ r = ReferencePeriod(i)
    OBVIOUS
  <2>5. PICK a \in Int, v \in Int, b \in Int :
          /\ a = periods[i].start /\ v = valuation /\ b = periods[i].end
          /\ a <= v /\ v < b
          /\ Accrued = YearFraction(dc, a, v, r)
    BY <2>1, <2>2, <2>3, <2>4, AccruedIs
  <2>6. PICK p \in DOMAIN periods : CouponAmount(p).status = "OK"
    <3>1. 1 \in 1..Len(flows)
      <4>1. PICK S : flows \in Seq(S)
        BY DEF CouponInv
      <4> QED
        BY <4>1 DEF CouponInv, Done
    <3> QED
      BY <2>1, <3>1 DEF CouponInv
  <2>7. dc = "ACT_ACT_ICMA"
    <3>1. CASE dc \notin Conventions
      BY <2>2, <2>4, <2>6, <3>1 DEF CouponAmount, YearFraction, Refused, Conventions
    <3>2. CASE dc \in Conventions \ {"ACT_ACT_ICMA"}
      <4>1. v <= b
        BY <2>5
      <4>2. YearFraction(dc, a, v, r).status = "OK"
        BY <2>5, <3>2, <4>1, InterestGrows
      <4> QED
        BY <2>5, <4>2
    <3> QED
      BY <3>1, <3>2
  <2>8. PICK n \in Int : n = spec.frequency /\ n > 0
    <3>1. PICK c, e : c = periods[p].start /\ e = periods[p].end
      OBVIOUS
    <3> QED
      BY <2>1, <2>2, <2>4, <2>6, <2>7, <3>1, IcmaCoupon
  <2>9. \A s \in Int : r # [start |-> s, end |-> b, frequency |-> n] \/ s > a
    <3> SUFFICES ASSUME NEW s \in Int, r = [start |-> s, end |-> b, frequency |-> n], s <= a
                 PROVE  FALSE
      OBVIOUS
    <3>1. r.start = s /\ r.end = b /\ r.frequency = n
      OBVIOUS
    <3>2. YearFraction(dc, a, v, r) = ActActIcma(a, v, r)
      BY <2>7 DEF YearFraction
    <3>3. ActActIcma(a, v, r).status = "OK"
      BY <2>5, <2>8, <3>1 DEF ActActIcma, ValidPeriod, Fraction
    <3> QED
      BY <2>5, <3>2, <3>3
  <2>10. periods[i].stub
    <3>1. ~periods[i].stub => r = [start |-> a, end |-> b, frequency |-> n]
      BY <2>2, <2>3, <2>4, <2>5, <2>8 DEF ReferencePeriod
    <3> QED
      BY <2>5, <2>9, <3>1
  <2>11. Paid(i)
    <3>1. SUFFICES ASSUME ~Paid(i)
                   PROVE  FALSE
      OBVIOUS
    <3>2. CouponAmount(i).status = "OK"
      <4>1. i \in 1..(index - 1)
        <5>1. index = Len(periods) + 1
          BY DEF CouponInv, Done
        <5> QED
          BY <2>1, <2>3, <5>1 DEF BuildInv, PaymentsInv
      <4> QED
        BY <2>1, <3>1, <4>1 DEF CouponInv
    <3>3. PICK s \in Int : s <= a /\ r = [start |-> s, end |-> b, frequency |-> n]
      BY <2>1, <2>2, <2>3, <2>4, <2>5, <2>7, <2>8, <3>2, IcmaCoupon
    <3> QED
      BY <2>5, <2>9, <3>3
  <2> QED
    BY <2>4, <2>7, <2>10, <2>11 DEF Paid
<1> QED
  BY <1>1, BuildInvariant, CouponInvariant, PTL

------------------------------------------------------------------------------
(* Which coupons ICMA refuses.                                              *)

\* Whole periods are those one step of the grid long.
RegularInv ==
  Built /\ spec.frequency # 0 =>
    /\ DatesChecked
    /\ \A i \in DOMAIN periods :
         periods[i].stub <=> Back(spec, periods[i].end) # periods[i].start

LEMMA RegularStep ==
  ASSUME TileInv, RegularInv, [Next]_vars
  PROVE  RegularInv'
<1>1. ASSUME ~Built'
      PROVE  RegularInv'
  BY <1>1 DEF RegularInv
<1>2. ASSUME UNCHANGED <<spec, periods>>, Built
      PROVE  RegularInv'
  BY <1>2 DEF RegularInv, DatesChecked, HasFirst, Back, Months
<1>3. CASE Build
  <2>1. CASE ZeroCoupon
    BY <2>1 DEF ZeroCoupon, RegularInv
  <2>2. CASE Emit
    <3> DEFINE n == Len(boundaries)
    <3>1. DatesChecked /\ n \in Nat /\ n >= 2
      BY <2>2 DEF Emit, TileInv, HandOverInv
    <3>2. spec' = spec /\ DOMAIN periods' = 1..(n - 1)
      BY <2>2 DEF Emit
    <3>3. \A i \in 1..(n - 1) :
            /\ periods'[i].start = boundaries[n + 1 - i]
            /\ periods'[i].end = boundaries[n - i]
            /\ periods'[i].stub = (Back(spec, boundaries[n - i]) # boundaries[n + 1 - i])
      BY <2>2 DEF Emit, PeriodOf
    <3>4. DatesChecked'
      BY <3>1, <3>2 DEF DatesChecked, HasFirst
    <3>5. \A b : Back(spec', b) = Back(spec, b)
      BY <3>2
    <3> QED
      BY <3>2, <3>3, <3>4, <3>5 DEF RegularInv
  <2>3. CASE Refuse \/ Start \/ StepBack \/ EndWalk
    BY <1>1, <2>3 DEF Refuse, Start, StepBack, EndWalk, Fail, Built
  <2> QED
    BY <1>3, <2>1, <2>2, <2>3 DEF Build
<1>4. CASE Flows
  <2>1. PICK i \in DOMAIN periods : SkipFlow(i) \/ AddFlow(i) \/ FlowFails(i)
    BY <1>4 DEF Flows
  <2> QED
    BY <1>1, <1>2, <2>1 DEF SkipFlow, AddFlow, FlowFails, Flowing, Fail, Built
<1>5. CASE NoFlows \/ Reject \/ Accept
  BY <1>1, <1>5 DEF NoFlows, Reject, Accept, Fail, Built
<1>6. CASE Finish
  BY <1>2, <1>6 DEF Finish, Built
<1>7. CASE UNCHANGED vars
  BY <1>1, <1>2, <1>7 DEF vars, Built
<1> QED
  BY <1>3, <1>4, <1>5, <1>6, <1>7 DEF Next

LEMMA RegularInvariant == Spec => []RegularInv
<1>1. Init => RegularInv
  BY DEF Init, RegularInv, Built
<1>2. BuildInv /\ RegularInv /\ [Next]_vars => RegularInv'
  BY RegularStep DEF BuildInv
<1> QED
  BY <1>1, <1>2, BuildInvariant, PTL DEF Spec

\* What a coupon is measured against always is a period, and ends when it does.
LEMMA ReferenceIs ==
  ASSUME BuildInv, RegularInv, Built, spec.frequency # 0,
         NEW i \in DOMAIN periods, NEW r, r = ReferencePeriod(i)
  PROVE  /\ ValidPeriod(r) /\ r.end = periods[i].end
         /\ ~periods[i].stub => r.start = periods[i].start
<1>1. DatesChecked
  BY DEF RegularInv
<1>2. PICK a \in Int, b \in Int : a = periods[i].start /\ b = periods[i].end
  BY DEF BuildInv, PaymentsInv
<1>3. PICK n \in Nat : n = spec.frequency /\ n > 0
  BY <1>1 DEF DatesChecked, Frequencies
<1>4. PICK s : /\ s = IF periods[i].stub THEN ShiftMonths(b, -Months(spec), TRUE) ELSE a
               /\ r = [start |-> s, end |-> b, frequency |-> n]
  BY <1>2, <1>3 DEF ReferencePeriod
<1>5. s \in Int /\ s < b
  <2>1. CASE periods[i].stub
    <3>1. Months(spec) \in {1, 3, 6, 12}
      BY <1>1 DEF DatesChecked, Frequencies, Months
    <3>2. PICK m \in Int : m = -Months(spec) /\ m < 0
      BY <3>1
    <3>3. s \in Int /\ MonthNo(s) = MonthNo(b) + m
      BY <1>4, <2>1, <3>2, ShiftMonthsIs
    <3>4. MonthNo(b) \in Int
      BY CivilValid
    <3>5. MonthNo(s) < MonthNo(b)
      BY <3>2, <3>3, <3>4, SMT
    <3> QED
      BY <3>3, <3>5, MonthsInOrder
  <2>2. CASE ~periods[i].stub
    <3>1. a = Back(spec, b)
      BY <1>2, <2>2 DEF RegularInv
    <3> QED
      BY <1>1, <1>4, <2>2, <3>1, BackIs
  <2> QED
    BY <2>1, <2>2
<1>6. r.start = s /\ r.end = b /\ r.frequency = n
  BY <1>4
<1>7. ~periods[i].stub => s = a
  BY <1>4
<1> QED
  BY <1>2, <1>3, <1>5, <1>6, <1>7, SMT DEF ValidPeriod

\* ICMA refuses exactly the stubs that start before their reference period.
RefusedStartEarly ==
  Built /\ def.daycount = "ACT_ACT_ICMA" /\ spec.frequency # 0 =>
    \A i \in DOMAIN periods :
      CouponAmount(i).status # "OK"
        <=> periods[i].stub /\ periods[i].start < ReferencePeriod(i).start

\* What is left of "a long stub yields a year fraction above 1/frequency": the
\* build refuses the coupon of a stub that starts before its reference period,
\* and no other.  Long stubs do, and so does a short one whose end is a month's
\* and whose bond does not roll on month ends: for every definition.
THEOREM OnlyEarlyStubsRefused == Spec => []RefusedStartEarly
<1>1. BuildInv /\ RegularInv => RefusedStartEarly
  <2> SUFFICES ASSUME BuildInv, RegularInv, Built,
                      def.daycount = "ACT_ACT_ICMA", spec.frequency # 0,
                      NEW i \in DOMAIN periods
               PROVE  CouponAmount(i).status # "OK"
                        <=> periods[i].stub /\ periods[i].start < ReferencePeriod(i).start
    BY DEF RefusedStartEarly
  <2>1. PICK r : r = ReferencePeriod(i)
    OBVIOUS
  <2>2. /\ ValidPeriod(r) /\ r.end = periods[i].end
        /\ ~periods[i].stub => r.start = periods[i].start
    BY <2>1, ReferenceIs
  <2>3. PICK a \in Int, b \in Int : a = periods[i].start /\ b = periods[i].end
    BY DEF BuildInv, PaymentsInv
  <2>4. CouponAmount(i) = ActActIcma(a, b, r)
    BY <2>1, <2>3 DEF CouponAmount, YearFraction
  <2>5. ActActIcma(a, b, r).status # "OK" <=> a < r.start
    BY <2>2, <2>3 DEF ActActIcma, Refused, Fraction
  <2> QED
    BY <2>1, <2>2, <2>3, <2>4, <2>5
<1> QED
  BY <1>1, BuildInvariant, RegularInvariant, PTL

------------------------------------------------------------------------------
(* Coupon dates do not leave the grid.                                      *)

MonthInv ==
  /\ pc = "back" =>
       \A i \in 1..Len(boundaries) : OnGrid(boundaries[i], i - 1)
  /\ pc = "emit" =>
       \A i \in 1..(Len(boundaries) - 1) :
         \/ OnGrid(boundaries[i], i - 1)
         \/ i = Len(boundaries) - 1 /\ HasFirst(spec)
  /\ CouponsOnGrid

LEMMA GridKept ==
  ASSUME NEW d, NEW k, OnGrid(d, k), UNCHANGED spec
  PROVE  OnGrid(d, k)'
BY DEF OnGrid, Months

\* One more step of the walk is one more step of the grid.
LEMMA GridGoesOn ==
  ASSUME DatesChecked, NEW k \in Nat, NEW d \in Int, OnGrid(d, k)
  PROVE  OnGrid(Back(spec, d), k + 1)
<1>1. PICK b : b = Back(spec, d)
  OBVIOUS
<1>2. PICK m : m = Months(spec)
  OBVIOUS
<1>3. /\ b \in Int /\ m \in Int
      /\ MonthNo(b) = MonthNo(d) - m
      /\ spec.eom /\ IsEndOfMonth(d) => IsEndOfMonth(b)
  BY <1>1, <1>2, BackIs
<1>4. MonthNo(b) = MonthNo(spec.maturity) - (k + 1) * m
  <2>1. PICK M \in Int : M = MonthNo(spec.maturity)
    BY CivilValid DEF DatesChecked
  <2>2. MonthNo(d) = M - k * m
    BY <1>2, <2>1 DEF OnGrid
  <2>3. (k + 1) * m = k * m + m /\ k * m \in Int
    BY <1>3, SMT
  <2> QED
    BY <1>3, <2>1, <2>2, <2>3, SMT
<1>5. ~spec.eom => Civil(b).day <= Civil(d).day
  <2> SUFFICES ASSUME ~spec.eom
               PROVE  Civil(b).day <= Civil(d).day
    OBVIOUS
  <2>1. PICK n \in Int : n = -m
    BY <1>3
  <2>2. b = AddMonths(d, n)
    BY <1>1, <1>2, <2>1 DEF Back, ShiftMonths
  <2>3. PICK len : Civil(b).day = IF Civil(d).day < len THEN Civil(d).day ELSE len
    BY <2>2, AddMonthsIs
  <2>4. Civil(d).day \in Nat /\ Civil(b).day \in Nat
    BY <1>3, CivilValid DEF IsCivil
  <2>5. Civil(b).day = Civil(d).day \/ (Civil(b).day = len /\ ~(Civil(d).day < len))
    BY <2>3
  <2> QED
    BY <2>4, <2>5, SMT
<1>6. ~spec.eom => Civil(b).day <= Civil(spec.maturity).day
  <2>1. Civil(d).day \in Int /\ Civil(b).day \in Int /\ Civil(spec.maturity).day \in Int
    BY <1>3, CivilValid DEF IsCivil, DatesChecked
  <2> QED
    BY <1>5, <2>1 DEF OnGrid
<1> QED
  BY <1>1, <1>2, <1>3, <1>4, <1>6 DEF OnGrid

LEMMA StepBackMonths ==
  ASSUME TileInv, MonthInv, StepBack
  PROVE  MonthInv'
<1> DEFINE n == Len(boundaries)
<1>1. /\ WalkInv /\ n \in Nat /\ n >= 1 /\ boundaries[n] = cursor /\ boundaries \in Seq(Int)
      /\ \A i \in 1..n : OnGrid(boundaries[i], i - 1)
  BY DEF StepBack, TileInv, WalkInv, MonthInv
<1>2. Back(spec, cursor) \in Int /\ cursor \in Int /\ DatesChecked
  BY <1>1, BackType DEF WalkInv
<1>3. /\ pc' = "back" /\ spec' = spec
      /\ boundaries' = Append(boundaries, Back(spec, cursor))
  BY DEF StepBack
<1>4. /\ Len(boundaries') = n + 1
      /\ \A i \in 1..n : boundaries'[i] = boundaries[i]
      /\ boundaries'[n + 1] = Back(spec, cursor)
  BY <1>1, <1>2, <1>3
<1>5. OnGrid(Back(spec, cursor), n)
  <2>1. OnGrid(cursor, n - 1) /\ n - 1 \in Nat /\ (n - 1) + 1 = n
    BY <1>1
  <2> QED
    BY <1>2, <2>1, GridGoesOn
<1>6. ASSUME NEW i \in 1..(n + 1)
      PROVE  OnGrid(boundaries'[i], i - 1)
  <2> HIDE DEF n
  <2>1. CASE i \in 1..n
    BY <1>1, <1>4, <2>1
  <2>2. CASE i = n + 1
    BY <1>1, <1>4, <1>5, <2>2
  <2> QED
    BY <1>1, <2>1, <2>2
<1>7. \A i \in 1..Len(boundaries') : OnGrid(boundaries'[i], i - 1)
  BY <1>4, <1>6
<1> QED
  BY <1>3, <1>7 DEF MonthInv, CouponsOnGrid, Built, OnGrid, Months

LEMMA EndWalkMonths ==
  ASSUME TileInv, MonthInv, EndWalk
  PROVE  MonthInv'
<1> DEFINE n == Len(boundaries)
           tail == IF HasFirst(spec) /\ spec.effective < Stop(spec)
                     THEN <<Stop(spec), spec.effective>> ELSE <<Stop(spec)>>
<1>1. CASE pc' = "failed"
  BY <1>1 DEF MonthInv, CouponsOnGrid, Built
<1>2. CASE boundaries' = boundaries \o tail /\ pc' = "emit" /\ spec' = spec
  <2>1. /\ WalkInv /\ n \in Nat /\ n >= 1
        /\ \A i \in 1..n : OnGrid(boundaries[i], i - 1)
    BY DEF EndWalk, TileInv, WalkInv, MonthInv
  <2>2. Stop(spec) \in Int /\ spec.effective \in Int
    BY <2>1 DEF WalkInv, DatesChecked, Stop
  <2>3. /\ \/ Len(boundaries') = n + 1
           \/ Len(boundaries') = n + 2 /\ HasFirst(spec)
        /\ \A i \in 1..n : boundaries'[i] = boundaries[i]
    BY <1>2, <2>1, <2>2 DEF WalkInv
  <2>4. ASSUME NEW i \in 1..(Len(boundaries') - 1)
        PROVE  \/ OnGrid(boundaries'[i], i - 1)
               \/ i = Len(boundaries') - 1 /\ HasFirst(spec)
    <3> HIDE DEF n
    <3>1. CASE i \in 1..n
      <4>1. boundaries'[i] = boundaries[i]
        BY <2>3, <3>1
      <4> QED
        BY <2>1, <3>1, <4>1
    <3>2. CASE i \notin 1..n
      BY <2>1, <2>3, <3>2
    <3> QED
      BY <3>1, <3>2
  <2> QED
    BY <1>2, <2>4 DEF MonthInv, CouponsOnGrid, Built, OnGrid, Months, HasFirst
<1> QED
  BY <1>1, <1>2 DEF EndWalk, Fail

LEMMA EmitMonths ==
  ASSUME TileInv, MonthInv, Emit
  PROVE  MonthInv'
<1> DEFINE n == Len(boundaries)
<1>1. HandOverInv /\ n \in Nat /\ n >= 2
  BY DEF Emit, TileInv, HandOverInv
<1>2. /\ pc' = "built" /\ spec' = spec
      /\ DOMAIN periods' = 1..(n - 1) /\ Len(periods') = n - 1
  BY <1>1 DEF Emit
<1>3. \A i \in 1..(n - 1) : periods'[i].end = boundaries[n - i]
  BY DEF Emit, PeriodOf
<1>4. ASSUME NEW i \in 1..(n - 1)
      PROVE  \/ OnGrid(periods'[i].end, (n - 1) - i)
             \/ i = 1 /\ HasFirst(spec)
  <2>1. n - i \in 1..(n - 1) /\ (n - i) - 1 = (n - 1) - i
    BY <1>1
  <2>2. \/ OnGrid(boundaries[n - i], (n - i) - 1)
        \/ n - i = n - 1 /\ HasFirst(spec)
    BY <2>1 DEF MonthInv, Emit
  <2>3. n - i = n - 1 => i = 1
    BY <1>1
  <2> QED
    BY <1>3, <2>1, <2>2, <2>3
<1>5. CouponsOnGrid'
  <2> HIDE DEF n
  <2> QED
    BY <1>2, <1>4 DEF CouponsOnGrid, OnGrid, Months, HasFirst
<1> QED
  BY <1>2, <1>5 DEF MonthInv

LEMMA MonthStep ==
  ASSUME TileInv, MonthInv, [Next]_vars
  PROVE  MonthInv'
<1>1. ASSUME pc' \in {"start", "failed"}
      PROVE  MonthInv'
  BY <1>1 DEF MonthInv, CouponsOnGrid, Built
<1>2. ASSUME UNCHANGED <<spec, periods>>, pc = "built", pc' \in {"built", "done"}
      PROVE  MonthInv'
  BY <1>2 DEF MonthInv, CouponsOnGrid, Built, OnGrid, Months, HasFirst
<1>3. CASE Build
  <2>1. CASE Refuse
    BY <1>1, <2>1 DEF Refuse, Fail
  <2>2. CASE ZeroCoupon
    BY <2>2 DEF ZeroCoupon, MonthInv, CouponsOnGrid
  <2>3. CASE Start
    <3>1. spec.maturity \in Int /\ MonthNo(spec.maturity) \in Int
      BY <2>3, CivilValid DEF Start, TileInv
    <3>2. Months(spec) \in Int
      BY <2>3 DEF Start, Frequencies, Months
    <3>3. Civil(spec.maturity).day \in Nat
      BY <3>1, CivilValid DEF IsCivil
    <3>4. OnGrid(spec.maturity, 0)
      <4>1. MonthNo(spec.maturity) = MonthNo(spec.maturity) - 0 * Months(spec)
        BY <3>1, <3>2, SMT
      <4> QED
        BY <3>1, <3>3, <4>1 DEF OnGrid
    <3>5. /\ boundaries' = <<spec.maturity>> /\ pc' = "back" /\ spec' = spec
      BY <2>3 DEF Start
    <3>6. \A i \in 1..Len(boundaries') : OnGrid(boundaries'[i], i - 1)
      BY <3>4, <3>5
    <3> QED
      BY <3>5, <3>6 DEF MonthInv, CouponsOnGrid, Built, OnGrid, Months
  <2> QED
    BY <1>3, <2>1, <2>2, <2>3, StepBackMonths, EndWalkMonths, EmitMonths DEF Build
<1>4. CASE Flows
  <2>1. PICK i \in DOMAIN periods : SkipFlow(i) \/ AddFlow(i) \/ FlowFails(i)
    BY <1>4 DEF Flows
  <2> QED
    BY <1>1, <1>2, <2>1 DEF SkipFlow, AddFlow, FlowFails, Flowing, Fail
<1>5. CASE UNCHANGED vars
  BY <1>5 DEF vars, MonthInv, CouponsOnGrid, Built, OnGrid, Months, HasFirst
<1> QED
  BY <1>1, <1>2, <1>3, <1>4, <1>5
  DEF Next, Reject, Accept, NoFlows, Finish, Fail

\* Counted back from maturity, every coupon falls a whole number of frequencies
\* earlier, never a month off; on month ends throughout if the bond rolls on
\* them and matures on one; and if it does not roll, never later in the month
\* than maturity.  (A bond that rolls but matures on the 30th does move to the
\* 31st, once its walk has been through a February.)
THEOREM CouponsKeepTheGrid == Spec => []CouponsOnGrid
<1>1. Init => MonthInv
  BY DEF Init, MonthInv, CouponsOnGrid, Built
<1>2. BuildInv /\ MonthInv /\ [Next]_vars => MonthInv'
  BY MonthStep DEF BuildInv
<1>3. MonthInv => CouponsOnGrid
  BY DEF MonthInv
<1> QED
  BY <1>1, <1>2, <1>3, BuildInvariant, PTL DEF Spec

------------------------------------------------------------------------------
(* A build ends.                                                            *)

\* What is still ahead: phases, and in the two phases that loop, the days the
\* walk has left and the periods the loop over flows has left.
Phase == CASE pc = "entry" -> 5
           [] pc = "start" -> 4
           [] pc = "back"  -> 3
           [] pc = "emit"  -> 2
           [] pc = "built" -> 1
           [] OTHER        -> 0
Left == IF pc = "back" THEN cursor - Stop(spec)
        ELSE IF pc = "built" THEN Len(periods) + 1 - index
        ELSE 0

\* Every step leaves less ahead, phase before days or periods, and there is
\* never less than nothing.
BuildRunsOut ==
  /\ [](Phase \in Nat /\ Left \in Nat)
  /\ [][Phase' < Phase \/ (Phase' = Phase /\ Left' < Left)]_vars

LEMMA PhaseIs ==
  /\ Phase \in 0..5
  /\ pc = "entry" => Phase = 5
  /\ pc = "start" => Phase = 4
  /\ pc = "back" => Phase = 3
  /\ pc = "emit" => Phase = 2
  /\ pc = "built" => Phase = 1
  /\ pc \in {"done", "failed"} => Phase = 0
BY DEF Phase

LEMMA LeftIs ==
  ASSUME BuildInv, CouponInv
  PROVE  Left \in Nat
<1>1. CASE pc = "back"
  <2>1. WalkInv
    BY <1>1 DEF BuildInv, TileInv
  <2>2. cursor \in Int /\ Stop(spec) \in Int /\ Stop(spec) <= cursor
    BY <2>1 DEF WalkInv, DatesChecked, Stop
  <2> QED
    BY <1>1, <2>2 DEF Left
<1>2. CASE pc = "built"
  <2>1. Len(periods) \in Nat /\ index \in 1..(Len(periods) + 1)
    BY <1>2 DEF BuildInv, PaymentsInv, CouponInv, Built
  <2> QED
    BY <1>2, <2>1 DEF Left
<1>3. CASE pc \notin {"back", "built"}
  BY <1>3 DEF Left
<1> QED
  BY <1>1, <1>2, <1>3

LEMMA BuildGoesOn ==
  ASSUME BuildInv, CouponInv, [Next]_vars, ~UNCHANGED vars
  PROVE  Phase' < Phase \/ (Phase' = Phase /\ Left' < Left)
<1> DEFINE P == /\ Phase \in 0..5
                /\ pc = "entry" => Phase = 5
                /\ pc = "start" => Phase = 4
                /\ pc = "back" => Phase = 3
                /\ pc = "emit" => Phase = 2
                /\ pc = "built" => Phase = 1
                /\ pc \in {"done", "failed"} => Phase = 0
<1>1. P /\ P'
  <2>1. P'
    BY DEF Phase
  <2> QED
    BY <2>1, PhaseIs
<1>2. ASSUME pc \in {"entry", "start", "back", "built"}, pc' = "failed"
      PROVE  Phase' < Phase
  BY <1>1, <1>2
<1>3. CASE Reject \/ NoFlows
  BY <1>2, <1>3 DEF Reject, NoFlows, Fail
<1>4. CASE Accept \/ Finish
  BY <1>1, <1>4 DEF Accept, Finish
<1>5. CASE Build
  <2>1. CASE Refuse
    BY <1>2, <2>1 DEF Refuse, Fail
  <2>2. CASE EndWalk
    BY <1>1, <1>2, <2>2 DEF EndWalk, Fail
  <2>3. CASE ZeroCoupon \/ Start \/ Emit
    <3>1. \/ pc = "start" /\ pc' \in {"built", "back"}
          \/ pc = "emit" /\ pc' = "built"
      BY <2>3 DEF ZeroCoupon, Start, Emit
    <3> QED
      BY <1>1, <3>1
  <2>4. CASE StepBack
    <3>1. pc = "back" /\ pc' = "back" /\ spec' = spec /\ cursor' < cursor
      BY <2>4 DEF StepBack
    <3>2. WalkInv
      BY <3>1 DEF BuildInv, TileInv
    <3>3. cursor \in Int /\ Stop(spec) \in Int
      BY <3>2 DEF WalkInv, DatesChecked, Stop
    <3>4. cursor' \in Int
      BY <2>4, <3>2, <3>3, BackType DEF StepBack, WalkInv
    <3>5. Left = cursor - Stop(spec) /\ Left' = cursor' - Stop(spec)
      BY <3>1 DEF Left
    <3> QED
      BY <1>1, <3>1, <3>3, <3>4, <3>5
  <2> QED
    BY <1>5, <2>1, <2>2, <2>3, <2>4 DEF Build
<1>6. CASE Flows
  <2>1. PICK i \in DOMAIN periods : SkipFlow(i) \/ AddFlow(i) \/ FlowFails(i)
    BY <1>6 DEF Flows
  <2>2. CASE FlowFails(i)
    BY <1>2, <2>2 DEF FlowFails, Flowing, Fail
  <2>3. CASE SkipFlow(i) \/ AddFlow(i)
    <3>1. /\ pc = "built" /\ pc' = "built" /\ periods' = periods
          /\ index = i /\ index' = i + 1
      BY <2>3 DEF SkipFlow, AddFlow, Flowing
    <3>2. Len(periods) \in Nat /\ i \in Int
      BY <3>1 DEF BuildInv, PaymentsInv, Built
    <3>3. Left = Len(periods) + 1 - i /\ Left' = Len(periods) + 1 - (i + 1)
      BY <3>1 DEF Left
    <3>4. Left' < Left
      <4> DEFINE n == Len(periods)
      <4>1. n \in Nat /\ Left = n + 1 - i /\ Left' = n + 1 - (i + 1)
        BY <3>2, <3>3
      <4> HIDE DEF n
      <4> QED
        BY <3>2, <4>1, SMT
    <3> QED
      BY <1>1, <3>1, <3>4
  <2> QED
    BY <2>1, <2>2, <2>3
<1>7. Reject \/ Accept \/ Build \/ Flows \/ NoFlows \/ Finish
  BY DEF Next
<1> HIDE DEF P
<1> QED
  BY <1>3, <1>4, <1>5, <1>6, <1>7, Zenon

\* fir_bond_new returns: no definition keeps the walk or the loop over the
\* flows going for ever.
THEOREM EveryBuildEnds == Spec => BuildRunsOut
<1>1. BuildInv /\ CouponInv => Phase \in Nat /\ Left \in Nat
  BY PhaseIs, LeftIs
<1>2. BuildInv /\ CouponInv /\ [Next]_vars
        => [Phase' < Phase \/ (Phase' = Phase /\ Left' < Left)]_vars
  BY BuildGoesOn
<1> QED
  BY <1>1, <1>2, BuildInvariant, CouponInvariant, PTL DEF Spec, BuildRunsOut
=============================================================================
