------------------------------ MODULE Schedule ------------------------------
(***************************************************************************)
(* Schedule::build: coupon periods are generated backward from maturity,   *)
(* one frequency at a time, until the effective date or the first coupon.  *)
(***************************************************************************)
EXTENDS BusinessDays, DayCount, Sequences

NoDay == 0   \* the serial that stands for "no first coupon date"

Frequencies == {0, 1, 2, 4, 12}
BDCs == Adjusting \cup {"NONE"}

VARIABLES
  spec,        \* what is being built: a ScheduleSpec, with its calendar
  pc,          \* "start", "back", "emit", then "built" or "failed"
  cursor,      \* the date the backward walk has reached
  boundaries,  \* the dates found, from maturity back
  periods,     \* the result
  status       \* the result's status

pcCursor == <<pc, cursor>>

Months(s)   == IF s.frequency > 0 THEN 12 \div s.frequency ELSE 0
HasFirst(s) == s.first # NoDay
Back(s, d)  == ShiftMonths(d, -Months(s), s.eom)

\* Where the walk stops.
Stop(s) == IF HasFirst(s) THEN s.first ELSE s.effective

\* Mutant of PeriodOf: the coupon is paid on the day it is due.
PeriodOfUnadjusted(s, start, end, stub) ==
  [start |-> start, end |-> end, payment |-> end, stub |-> stub]

\* Accrual dates are left as they are; only the payment moves.
PeriodOf(s, start, end, stub) ==
  [start   |-> start,
   end     |-> end,
   payment |-> Adjust(s.cal, end, s.bdc),
   stub    |-> stub]

Fail(st) ==
  /\ pc' = "failed"
  /\ status' = st
  /\ UNCHANGED <<spec, cursor, boundaries>>

Refuse ==
  /\ pc = "start"
  /\ \/ /\ spec.frequency \notin Frequencies
        /\ Fail("UNSUPPORTED")
     \/ /\ spec.frequency \in Frequencies
        /\ \/ spec.maturity <= spec.effective
           \/ /\ spec.frequency # 0 /\ HasFirst(spec)
              /\ spec.first <= spec.effective \/ spec.first > spec.maturity
        /\ Fail("BAD_SCHEDULE")
  /\ UNCHANGED periods

\* A zero-coupon bond has one period, and ignores its first coupon date.
ZeroCoupon ==
  /\ pc = "start"
  /\ spec.frequency = 0
  /\ spec.maturity > spec.effective
  /\ periods' = <<PeriodOf(spec, spec.effective, spec.maturity, FALSE)>>
  /\ pc' = "built"
  /\ UNCHANGED <<spec, cursor, boundaries, status>>

Start ==
  /\ pc = "start"
  /\ spec.frequency \in Frequencies \ {0}
  /\ spec.maturity > spec.effective
  /\ HasFirst(spec) => spec.first > spec.effective /\ spec.first <= spec.maturity
  /\ boundaries' = <<spec.maturity>>
  /\ cursor' = spec.maturity
  /\ pc' = "back"
  /\ UNCHANGED <<spec, periods, status>>

\* Mutant of StepBack: the grid date that is the stop itself is pushed too.
StepBackOnto ==
  /\ pc = "back"
  /\ LET prev == Back(spec, cursor)
     IN  /\ Stop(spec) <= prev /\ prev < cursor
         /\ boundaries' = Append(boundaries, prev)
         /\ cursor' = prev
  /\ UNCHANGED <<spec, pc, periods, status>>

StepBack ==
  /\ pc = "back"
  /\ LET prev == Back(spec, cursor)
     IN  /\ Stop(spec) < prev /\ prev < cursor
         /\ boundaries' = Append(boundaries, prev)
         /\ cursor' = prev
  /\ UNCHANGED <<spec, pc, periods, status>>

\* The walk is over: the stop closes the first regular period, and with a first
\* coupon date the accrual from the effective date comes on top.  A step that
\* does not move back is an error.
EndWalk ==
  /\ pc = "back"
  /\ LET prev == Back(spec, cursor)
     IN  /\ prev <= Stop(spec) \/ prev >= cursor
         /\ IF prev >= cursor
              THEN Fail("BAD_SCHEDULE")
              ELSE /\ boundaries' =
                        boundaries \o
                          (IF HasFirst(spec) /\ spec.effective < Stop(spec)
                             THEN <<Stop(spec), spec.effective>>
                             ELSE <<Stop(spec)>>)
                   /\ pc' = "emit"
                   /\ UNCHANGED <<spec, cursor, status>>
  /\ UNCHANGED periods

\* Mutant of Emit: a period is regular when one frequency on from its start is
\* its end.
EmitForward ==
  /\ pc = "emit"
  /\ LET n == Len(boundaries)
     IN  periods' = [i \in 1..(n - 1) |->
           PeriodOf(spec, boundaries[n + 1 - i], boundaries[n - i],
                    ShiftMonths(boundaries[n + 1 - i], Months(spec), spec.eom)
                      # boundaries[n - i])]
  /\ pc' = "built"
  /\ UNCHANGED <<spec, cursor, boundaries, status>>

\* The boundaries are reversed and paired off.  A period is regular when one
\* frequency back from its end is its start.
Emit ==
  /\ pc = "emit"
  /\ LET n == Len(boundaries)
     IN  periods' = [i \in 1..(n - 1) |->
           PeriodOf(spec, boundaries[n + 1 - i], boundaries[n - i],
                    Back(spec, boundaries[n - i]) # boundaries[n + 1 - i])]
  /\ pc' = "built"
  /\ UNCHANGED <<spec, cursor, boundaries, status>>

Build == Refuse \/ ZeroCoupon \/ Start \/ StepBack \/ EndWalk \/ Emit

------------------------------------------------------------------------------
(* Queries on a schedule that is built.                                     *)

\* Mutant of ReferencePeriod: the denominator is not annualised.
ReferencePeriodAnnual(i) ==
  IF i \notin DOMAIN periods \/ spec.frequency = 0 THEN NoPeriod
  ELSE [start |-> periods[i].start, end |-> periods[i].end, frequency |-> 1]

\* The period of the ICMA denominator: the period itself, or for a stub the
\* regular one that ends with it.  It rolls on month ends whether or not the
\* schedule does.
ReferencePeriod(i) ==
  IF i \notin DOMAIN periods \/ spec.frequency = 0 THEN NoPeriod
  ELSE LET p == periods[i]
       IN  [start     |-> IF p.stub THEN ShiftMonths(p.end, -Months(spec), TRUE)
                          ELSE p.start,
            end       |-> p.end,
            frequency |-> spec.frequency]

\* The period d falls in, the first one that does; none is past the end.
PeriodIndexFor(d) ==
  LET holds(i) == periods[i].start <= d /\ d < periods[i].end
  IN  IF \E i \in DOMAIN periods : holds(i)
        THEN CHOOSE i \in DOMAIN periods :
               holds(i) /\ \A j \in 1..(i - 1) : ~holds(j)
        ELSE Len(periods) + 1

------------------------------------------------------------------------------
Built == pc \in {"built", "done"}

\* The periods tile the life of the bond: they start on the effective date, end
\* on maturity, each begins where the one before ended, and none is empty,
\* except the last when the first coupon date is maturity itself.  The first
\* coupon date, if any, ends the first of them.
PeriodsTile ==
  Built =>
    LET n == Len(periods)
    IN  /\ n >= 1
        /\ periods[1].start = spec.effective
        /\ periods[n].end = spec.maturity
        /\ \A i \in 1..(n - 1) : periods[i].end = periods[i + 1].start
        /\ \A i \in 1..n :
             \/ periods[i].start < periods[i].end
             \/ i = n /\ spec.first = spec.maturity /\ periods[i].start = spec.maturity
        /\ spec.frequency # 0 /\ HasFirst(spec) => periods[1].end = spec.first

\* The backward walk always moves: each step lands one frequency of months
\* earlier, whatever the day of the month, and stays on month ends if the bond
\* rolls on them.  So it reaches its stop, and never fails for want of moving.
WalkMovesBack ==
  [][pc = "back" =>
       /\ pc' # "failed"
       /\ pc' = "back" =>
            LET from == Civil(cursor)  to == Civil(cursor')
            IN  /\ 12 * to.year + to.month = 12 * from.year + from.month - Months(spec)
                /\ cursor' < cursor
                /\ spec.eom /\ IsEndOfMonth(cursor) => IsEndOfMonth(cursor')]_pcCursor

\* d is k steps before maturity: k frequencies of months earlier, a month end
\* if the bond rolls on them and matures on one, and no later in its month than
\* maturity is in its own if the bond does not roll.
OnGrid(d, k) ==
  /\ d \in Int /\ MonthNo(d) = MonthNo(spec.maturity) - k * Months(spec)
  /\ spec.eom /\ IsEndOfMonth(spec.maturity) => IsEndOfMonth(d)
  /\ ~spec.eom => Civil(d).day <= Civil(spec.maturity).day

\* However many short months the walk has been through, its dates have not
\* drifted: counted back from maturity every coupon falls a whole number of
\* frequencies earlier, and where it must in its month.  Only a first coupon
\* date that was given need not.
CouponsOnGrid ==
  Built /\ spec.frequency # 0 =>
    \A i \in DOMAIN periods :
      \/ OnGrid(periods[i].end, Len(periods) - i)
      \/ i = 1 /\ HasFirst(spec)

\* Only what comes before the regular grid is a stub: the first period, and
\* the second one when a first coupon date off the grid divides the front.
StubsInFront ==
  Built =>
    \A i \in DOMAIN periods :
      periods[i].stub =>
        \/ i = 1
        \/ i = 2 /\ HasFirst(spec) /\ spec.first = periods[i].start

\* Every coupon is paid no earlier than the one before it, and its payment is
\* a business day of the bond's calendar unless the bond asks for none.
PaymentsOrdered ==
  Built =>
    /\ \A i \in 1..(Len(periods) - 1) : periods[i].payment <= periods[i + 1].payment
    /\ \A i \in DOMAIN periods :
         spec.bdc # "NONE" => IsBusinessDay(spec.cal, periods[i].payment)

------------------------------------------------------------------------------
(* Why the periods tile: what the walk keeps, and what it hands over.       *)

DatesChecked ==
  /\ spec.effective \in Int /\ spec.maturity \in Int /\ spec.first \in Int
  /\ spec.eom \in BOOLEAN
  /\ spec.frequency \in Frequencies \ {0}
  /\ spec.effective < spec.maturity
  /\ HasFirst(spec) => spec.effective < spec.first /\ spec.first <= spec.maturity

\* The boundaries found so far go strictly back from maturity to the cursor,
\* which has not reached the stop, unless it started there.
WalkInv ==
  /\ DatesChecked
  /\ boundaries \in Seq(Int) /\ Len(boundaries) >= 1
  /\ boundaries[1] = spec.maturity
  /\ cursor = boundaries[Len(boundaries)]
  /\ \A i \in 1..(Len(boundaries) - 1) : boundaries[i + 1] < boundaries[i]
  /\ \/ Stop(spec) < cursor
     \/ Len(boundaries) = 1 /\ Stop(spec) = cursor /\ HasFirst(spec)

\* Then they reach the effective date, by way of the first coupon date.
HandOverInv ==
  /\ DatesChecked
  /\ boundaries \in Seq(Int) /\ Len(boundaries) >= 2
  /\ boundaries[1] = spec.maturity
  /\ boundaries[Len(boundaries)] = spec.effective
  /\ \A i \in 1..(Len(boundaries) - 1) :
       \/ boundaries[i + 1] < boundaries[i]
       \/ i = 1 /\ spec.first = spec.maturity /\ boundaries[2] = spec.maturity
  /\ HasFirst(spec) => boundaries[Len(boundaries) - 1] = spec.first

TileInv ==
  /\ pc = "start" => {spec.effective, spec.maturity, spec.first} \subseteq Int
                      /\ spec.eom \in BOOLEAN
  /\ pc = "back" => WalkInv
  /\ pc = "emit" => HandOverInv
  /\ PeriodsTile
=============================================================================
