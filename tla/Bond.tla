-------------------------------- MODULE Bond --------------------------------
(***************************************************************************)
(* fir_bond_new: Bond::build checks the definition, builds the schedule and*)
(* turns its periods into cash flows, one after the other.  An amount is   *)
(* per unit of face times coupon rate: the year fraction of its coupon, and*)
(* whether the redemption is added to it.                                  *)
(***************************************************************************)
EXTENDS Schedule

CONSTANTS
  Defs,        \* the fir_bond_def_t the caller passes, as records
  Valuations,  \* the valuation dates contexts hold
  BadDate,     \* a date that is not a valid YYYYMMDD
  Unset,       \* a context without a valuation date
  NoCalendar   \* a null calendar in the definition

\* struct_size: no struct at all; too short or too long; without the calendar;
\* with it.
Sizes == {"null", "bad", "short", "full"}
Rates == {"small", "absurd", "nan"}

ASSUME DefsAssumption ==
  \A def \in Defs :
    /\ {def.issue, def.maturity, def.first} \ {BadDate} \subseteq Int
    /\ def.calendar # NoCalendar =>
         /\ def.calendar.weekend \subseteq Weekdays /\ def.calendar.weekend # Weekdays
         /\ IsFiniteSet(def.calendar.holidays)
    /\ def.frequency \in Int /\ def.eom \in BOOLEAN
    /\ def.size \in Sizes /\ def.rate \in Rates /\ def.facePositive \in BOOLEAN
ASSUME ValuationsAssumption == Valuations \ {Unset} \subseteq Int

VARIABLES
  def,        \* the definition
  valuation,  \* the valuation date of the context, then of the bond
  index,      \* the period build_cashflows has reached
  flows       \* the cash flows: [period, payment, coupon, redemption]

defVars == <<def, valuation>>
vars    == <<spec, pc, cursor, boundaries, periods, status, defVars, index, flows>>

------------------------------------------------------------------------------
(* Entry: the definition is checked in this order.                          *)

\* A rate that is no number passes both comparisons.
EntryStatus(d, val) ==
  IF d.size = "null" THEN "NULL_ARG"
  ELSE IF d.size = "bad" THEN "BAD_STRUCT_SIZE"
  ELSE IF val = Unset \/ BadDate \in {d.issue, d.maturity, d.first} THEN "BAD_DATE"
  ELSE IF ~d.facePositive \/ d.rate = "absurd" THEN "BAD_ARG"
  ELSE IF d.maturity <= val THEN "BAD_SCHEDULE"
  ELSE "OK"

Fallback == [weekend |-> {0, 6}, holidays |-> {}]
CalendarOf(d) == IF d.size = "full" /\ d.calendar # NoCalendar THEN d.calendar
                                                                ELSE Fallback

SpecOf(d) ==
  [effective |-> d.issue, maturity |-> d.maturity, first |-> d.first,
   frequency |-> d.frequency, bdc |-> d.bdc, eom |-> d.eom, cal |-> CalendarOf(d)]

Reject ==
  /\ pc = "entry"
  /\ EntryStatus(def, valuation) # "OK"
  /\ Fail(EntryStatus(def, valuation))
  /\ UNCHANGED <<periods, defVars, index, flows>>

Accept ==
  /\ pc = "entry"
  /\ EntryStatus(def, valuation) = "OK"
  /\ spec' = SpecOf(def)
  /\ pc' = "start"
  /\ UNCHANGED <<cursor, boundaries, periods, status, defVars, index, flows>>

------------------------------------------------------------------------------
(* build_cashflows.                                                         *)

\* Mutant of CouponAmount: a convention that cannot be applied pays nothing.
CouponAmountLenient(i) ==
  LET p == periods[i]
      q == YearFraction(def.daycount, p.start, p.end, ReferencePeriod(i))
  IN  IF spec.frequency = 0 \/ q.status # "OK" THEN Fraction(0, 1) ELSE q

CouponAmount(i) ==
  LET p == periods[i]
  IN  IF spec.frequency = 0 THEN Fraction(0, 1)
      ELSE YearFraction(def.daycount, p.start, p.end, ReferencePeriod(i))

Flowing(i) == pc = "built" /\ index = i /\ i \in DOMAIN periods

\* Mutant of Paid: a flow belongs to whoever holds the bond as it accrues.
PaidAccrued(i) == periods[i].end <= valuation

\* Paid on or before the valuation date: it went to the previous holder.
Paid(i) == periods[i].payment <= valuation

SkipFlow(i) ==
  /\ Flowing(i) /\ Paid(i)
  /\ index' = i + 1
  /\ UNCHANGED <<spec, pc, cursor, boundaries, periods, status, defVars, flows>>

AddFlow(i) ==
  /\ Flowing(i) /\ ~Paid(i)
  /\ CouponAmount(i).status = "OK"
  /\ flows' = Append(flows, [period     |-> i,
                             payment    |-> periods[i].payment,
                             coupon     |-> CouponAmount(i).yf,
                             redemption |-> i = Len(periods)])
  /\ index' = i + 1
  /\ UNCHANGED <<spec, pc, cursor, boundaries, periods, status, defVars>>

FlowFails(i) ==
  /\ Flowing(i) /\ ~Paid(i)
  /\ CouponAmount(i).status # "OK"
  /\ Fail(CouponAmount(i).status)
  /\ UNCHANGED <<periods, defVars, index, flows>>

\* Every flow is paid already: there is nothing to price.
NoFlows ==
  /\ pc = "built" /\ index = Len(periods) + 1
  /\ flows = <<>>
  /\ Fail("BAD_SCHEDULE")
  /\ UNCHANGED <<periods, defVars, index, flows>>

Finish ==
  /\ pc = "built" /\ index = Len(periods) + 1
  /\ flows # <<>>
  /\ pc' = "done"
  /\ UNCHANGED <<spec, cursor, boundaries, periods, status, defVars, index, flows>>

------------------------------------------------------------------------------
\* Mutant of Accrued: interest runs from the issue date.
AccruedFromIssue ==
  LET i == PeriodIndexFor(valuation)
  IN  IF spec.frequency = 0 \/ i > Len(periods) THEN Fraction(0, 1)
      ELSE YearFraction(def.daycount, spec.effective, valuation, ReferencePeriod(i))

\* Interest accrued at the valuation date: none outside every coupon period.
Accrued ==
  LET i == PeriodIndexFor(valuation)
  IN  IF spec.frequency = 0 \/ i > Len(periods) THEN Fraction(0, 1)
      ELSE YearFraction(def.daycount, periods[i].start, valuation,
                        ReferencePeriod(i))

NoSpec == [frequency |-> 0]

Init ==
  /\ def \in Defs
  /\ valuation \in Valuations
  /\ spec = NoSpec
  /\ pc = "entry"
  /\ cursor = NoDay
  /\ boundaries = <<>>
  /\ periods = <<>>
  /\ status = "OK"
  /\ index = 1
  /\ flows = <<>>

Flows == \E i \in DOMAIN periods : SkipFlow(i) \/ AddFlow(i) \/ FlowFails(i)

Next ==
  \/ Reject
  \/ Accept
  \/ Build /\ UNCHANGED <<defVars, index, flows>>
  \/ Flows
  \/ NoFlows
  \/ Finish

Spec == Init /\ [][Next]_vars

------------------------------------------------------------------------------
Done == pc = "done"

\* A bond that is built keeps exactly the flows paid after the valuation date,
\* consecutive up to maturity, and the redemption comes with the last of them,
\* once.
FlowsAreTheFuture ==
  Done =>
    LET n == Len(flows)
    IN  /\ {flows[k].period : k \in 1..n}
             = {i \in DOMAIN periods : periods[i].payment > valuation}
        /\ \A k \in 1..n : flows[k].period = Len(periods) - n + k
        /\ \A k \in 1..n : flows[k].redemption <=> k = n
        /\ \A k \in 1..(n - 1) : flows[k].payment <= flows[k + 1].payment

\* Under ICMA every whole coupon is the annual one over the frequency, whatever
\* its length in days, and no coupon the build accepts is larger.
CouponsWhole ==
  Done /\ def.daycount = "ACT_ACT_ICMA" /\ spec.frequency # 0 =>
    \A k \in DOMAIN flows :
      LET q == flows[k].coupon
      IN  /\ q[1] * spec.frequency <= q[2]
          /\ ~periods[flows[k].period].stub => q[1] * spec.frequency = q[2]

\* Accrued interest starts from nothing on a coupon date and never exceeds the
\* coupon it accrues towards, under any convention.
AccruedWithinCoupon ==
  LET i == PeriodIndexFor(valuation)
  IN  Done /\ i \in DOMAIN periods /\ Accrued.status = "OK" =>
        /\ Accrued.yf[1] >= 0
        /\ CouponAmount(i).status = "OK" => AtMost(Accrued.yf, CouponAmount(i).yf)
        /\ valuation = periods[i].start => Accrued.yf[1] = 0

\* A bond that was built can be priced: its accrued interest is an error only
\* under ICMA, in a front stub whose coupon was paid early.
BuiltIsPriceable ==
  LET i == PeriodIndexFor(valuation)
  IN  Done /\ Accrued.status # "OK" =>
        /\ def.daycount = "ACT_ACT_ICMA"
        /\ periods[i].stub
        /\ periods[i].payment <= valuation

\* "A long stub therefore yields a year fraction above 1/frequency, which is
\* the intended behaviour": so its coupon can be computed.
LongStubsAccepted ==
  Built /\ def.daycount = "ACT_ACT_ICMA" =>
    \A i \in DOMAIN periods : CouponAmount(i).status = "OK"
=============================================================================
