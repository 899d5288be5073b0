# libfirisk in TLA+

libfirisk computes prices and risk numbers of fixed-rate bonds behind a C
interface, with bindings for Python and Excel. This directory holds TLA+ models
of it, the TLC runs that check them on small instances, and TLAPS proofs of the
results that should hold for every instance. Paths below are relative to the
repository, which is mounted at `src/`; `PROJECT.json` maps every definition to
its source lines.

## The system

| part | state | operations | interacts with |
|---|---|---|---|
| curve risk (`core/risk/curve_risk.cpp`) | none of its own: the guard on the stack | effective duration and convexity, curve DV01, key-rate durations | bumps, prices on and resets the caller's curve |
| curve vtable, `DiscountSource` (`core/pricing/discount.hpp`, `include/firisk.h`) | the caller's curve, bumped in place | `discount`, `bump`, `bump_parallel`, `reset` callbacks | owned by C, Python or Excel code |
| pricing (`core/pricing/price.cpp`) | none | price from yield or curve, yield and z-spread from price | a bond's cash flows, a curve, the solvers |
| root finders (`core/pricing/solve.cpp`) | locals of a loop | `bracket_root`, `solve_newton`, `solve_brent` | call an objective that may have no value |
| dates (`core/time/date.hpp`) | none | serial and civil conversions, month shifts | everything below |
| day counts (`core/time/daycount.*`) | none | six year fractions | coupons, accrued interest |
| calendar (`core/time/calendar.*`) | weekend mask, holidays | two setters, business-day queries | bond construction |
| schedule (`core/time/schedule.*`) | periods, built once | `build`, `reference_period`, `period_index_for` | calendar, dates |
| bond (`core/instrument/bond.*`) | periods, cash flows, valuation date, built once | `build`, `coupon_amount`, `accrued` | schedule, day counts, context |
| context, errors, shim (`core/context.*`, `core/error.hpp`, `capi/`) | valuation date, bump size, solver settings, last status | setters, every entry point | clears and records the status of each call |
| Python (`bindings/python`) | curves as objects, mirrors of a context's settings | methods on bonds, curve callbacks into Python | releases and takes the interpreter lock |
| Excel (`bindings/excel/xll`) | one session and one result per cell call | worksheet functions, `xlAutoFree12` | a context and a bond of its own; Excel reads the result and gives it back |
| allocators (`capi/firisk_alloc.cpp`, `core/alloc.hpp`) | three process-wide function pointers | `fir_set_allocators`, `fir_malloc` and its kin | every heap object of the library |

What is hard here:

- A curve is shared mutable state that the library moves and must put back. It
  is moved once per target and side, priced through one callback per cash flow,
  and every callback may fail or let another thread in.
- A schedule is walked backward through months of different lengths, clamped to
  month ends, stopped at a date that need not be on the grid; payment dates are
  moved by a calendar, accrual dates are not. Cash flows, accrued interest and
  coupons must still agree.
- The date arithmetic is closed-form division by 1460, 36524 and 146096.
- A calendar's two setters do not commute.
- A context's settings are kept twice by Python, and a risk call runs Python code
  that may change them, or use the same context, before it returns.
- The root finders take steps nobody can predict, inside tests that must keep
  the root between the points they hold.
- A worksheet call may fail at any of its steps, with up to seven blocks from two
  allocators behind it, and its result outlives it until Excel is done with it.
- The Excel add-in has a date conversion of its own, over an epoch with a day
  that never was.

## The modules

| module | models | composes |
|---|---|---|
| `CurveRisk` | the risk entry points down to each curve callback, for concurrent callers | |
| `CurveRiskAbs` | what a risk call promises: answers of a private copy of the curve | |
| `CurveRiskImpl` | the refinement mapping from the first to the second | `CurveRisk`, `CurveRiskAbs` |
| `Dates` | `date.hpp`, as operators on serial days | |
| `DayCount` | `daycount.*`, on exact fractions | `Dates` |
| `BusinessDays` | a calendar's queries | `Dates` |
| `Calendar` | the mutable calendar behind the C interface | `BusinessDays` |
| `Schedule` | `Schedule::build`, one step per pass of each loop | `BusinessDays`, `DayCount` |
| `Bond` | `fir_bond_new` from the checks to the last cash flow | `Schedule` |
| `Marshal` | the add-in's reading of cells: dates exactly, other arguments by kind; its errors | `Dates` |
| `Time` | days going by, and a calendar in use on one of them | `Calendar`, `DayCount`, `Marshal` |
| `Heap` | the allocator table and who made which block | |
| `Excel` | worksheet functions from their cells to the result Excel frees, side by side | `Heap`, `Marshal` |
| `ZeroCurve` | the interpolation of the Python extension's curve | |
| `KeyRates` | key rates at times between pillars: the bumps a call saw, interpolated | `CurveRisk`, `ZeroCurve` |
| `Solver` | yield and z-spread searches, iteration by iteration | |
| `RootSearch` | what a root finder promises: a bracket that shrinks around a sign change | |
| `SolverImpl` | the refinement mapping from the first to the second | `Solver`, `RootSearch` |
| `Session` | contexts and bonds of a Python program, with risk calls inside risk calls | |
| `CurveRisk_proofs`, `CurveRiskImpl_proofs`, `Bond_proofs`, `Solver_proofs`, `Session_proofs`, `Excel_proofs` | theorems about the module of that name | |
| `Dates_proofs` | what `Dates`, `BusinessDays` and `DayCount` compute, as lemmas | used by the next two |
| `Calendar_proofs` | theorems about `Calendar` and `Time` | `Dates_proofs` |
| `MC*` | the instances that TLC checks | |

### CurveRisk

Each caller is a thread with its own context. `pc` says which callback or
computation comes next (`idle`, `price`, `bump`, `reset`), `side` which of the
three revaluations is under way, `bucket` which target. `bumps[cv][p]` is the
total bump at pillar `p` of curve `cv`. A price is not a number but what it was
computed from: the sequence of curve states its discount callbacks saw. That is
exactly what the properties tell apart, and it makes two prices equal only when
they were computed from the same curve.

A step is one callback with the code that follows up to the next one. `Armed` is
`BumpGuard`: armed after an accepted bump, until its reset. `PriceFails` is the
early return out of a bumped revaluation, whose guard resets the curve on the
way out (`ResetUnwinding`); `ResetAfterUp` and `ResetAfterDown` are the guard's
resets when all went well. On every path the guard drops the status of `reset`: a
curve that says it could not be restored is believed restored. `Refuse` holds the
null checks and the support tests in the order the code makes them.

`last` is the context's last status, `status` what a call returned. They are
written where the code writes them: an entry point clears the first
(`FIR_ENTRY`), a failing return sets it, a successful one does not touch it.

Which interleavings exist depends on the curve. A native curve
(`FlatCurve`, `ZeroCurve`) keeps the interpreter lock for the whole call, so
another caller waits (`holder`); a Python curve (`PyCurve`) runs Python in every
callback, where the interpreter may switch threads, so it is in `Yields` and
does not hold callers off. `Users` says who holds which, and in the runs each
yielding curve has one user. That is an assumption, and no document of the
repository makes it: `src/README.md:282-284` says only that contexts must not be
shared and that the library has no other shared mutable state, but a curve is one
that the library moves. Two calls on one yielding curve see each other's bumps, and
`OutExact` would fail; that the curve comes back all the same is proved
(`CurvesRestored`, below).

Callbacks misbehave at most `MaxFaults` times in a behaviour, in the ways listed
in `Faults`: a bad discount factor, a bump that refuses, a bump that moves the
curve and then fails (`bumpTorn`), a reset that fails.

### CurveRiskAbs, CurveRiskImpl

The abstract specification has no bump in it. A call is refused, or starts and
delivers its answers in order, each what a private copy of the curve gives; it
may fail between two answers; it returns OK only with all of them; the curve
never changes. The mapping shows the abstract curve as the one underneath: while
a guard is armed the curve is borrowed and counts as unbumped.

### Dates, DayCount

Operators on integers. `Truncated` and `Remainder` are C++ division and modulo,
which round towards zero where TLA+ rounds down. Year fractions are pairs of
integers, so equalities the code only has up to rounding are exact here.

### BusinessDays, Calendar

A calendar is a record of a weekend (a set of weekdays) and a set of holidays.
The sorted vector with binary search is the set it stands for. `given` is
history: the last list accepted from the caller, against which `HolidaysApplied`
and `HolidaysKept` compare.

### Marshal, Time

`SerialToYyyymmdd` is the add-in's second copy of the conversion in `date.hpp`,
with its own epoch and its own bounds. `DateOfCell` says what date a cell stands
for in each of its forms. Of the other arguments a cell is only missing, good,
odd (of the right type, not allowed) or unreadable, and `Reading` is the table of
what each reader makes of that: the value, its default, an error, or something
the library will refuse. (A `NaN` and the fraction of a serial are not told apart
from other numbers.)

`Time` lets the days go by, one per step, and asks of each what the properties
need. The calendar is one that nobody has touched, except on one day, where the
two setters may be called in any order.

### Schedule, Bond

`Schedule` is a state machine over the loop variables of `Schedule::build`:
`StepBack` is one turn of the backward walk, `EndWalk` the checks after it,
`Emit` one period of the forward pass. `Bond` runs it between the entry checks
of `fir_bond_new` and the loop of `build_cashflows`. Money is left out: an
amount is the fraction of a year that its coupon is worth, and the face is
positive or not; a rate is ordinary, absurd or not a number, which is all that
the code's comparisons see. A call without a context, which has nothing to build
from and nowhere to report to, is left out.

### Heap, Excel

A block is its owner and its name, and while it is live `heap` keeps the family
of functions that made it. `table` is `g_allocators`; a core allocation goes
through it, the add-in's own go to the C runtime. `misfreed` is history: blocks
given to a `free` that does not belong to them.

`SetAllocators` stands for the program that loads the library, which is the only
one that knows when nothing has been allocated yet. The header asks for the call
"before the first `fir_context_new`"; a calendar, or a buffer from `fir_malloc`,
is a block too, so what the code needs is a call before the first block of any
kind. The function itself does not look: `InstallFirst` is the host keeping its
side, and `FreedByMaker` is about hosts that do.

`Excel` has one program counter per worksheet call. `Begin` allocates the result,
which may fail (then every setter does nothing and Excel gets a null), and reads
the arguments. `OpenContext` to `BondRefused` are the session, `Answered` and
`NotAnswered` one library function each in the order of `Plan`, `Write` the
setters of `Result` with the block of an array or a text, which may fail too.
`Close` is the destructor that every early return runs. `ExcelReads` is Excel
copying the result and `AutoFree` its giving it back. What the library makes of
the arguments is left open among the statuses it can answer. A number is what it
was made from: the bond, known by its valuation date, and the library functions
that answered. The worksheet functions that differ in names only are one.

No function is registered as thread-safe, though comments speak of multithreaded
recalculation; the model lets calls interleave at every step, which includes both.

### ZeroCurve, KeyRates

The zero rate between pillars as an exact fraction. `KeyRates` puts it on top
of the bumps that a risk call has seen, so that key rates are about times and
not about pillars: `Grid` are the pillars in the order of their tenors, `Times`
the times cash flows may have.

### Solver

The points are integers in `Lo..Hi`; the objective is any function from there to
the integers or to `NaN`, where there is no price. The derivative that Newton
divides by and the formulas Brent interpolates with are left open: a step may
land anywhere the code's own acceptance tests allow, or half-way where they
reject. So a result holds whatever the slopes are. `WidenDown`, `WidenUp`,
`WidenBoth` are `bracket_root`; `Newton*` and `Brent*` the two solvers.
`Flip` and `Swap` are the two reorderings at the head of Brent's loop. `Tol`
serves for points and values, as in the code; `Slack` is Newton's tolerance for
a step, which grows with the point the step is made from.

Newton's routine returns a point either because it reprices the bond or because
the step to it was short, and a short step says nothing of the price. So
`AnswerTrusted` asks of such an answer what the code does guarantee: that it has
not left the last bracket, whose ends `a` and `b` still have opposite signs, and
that it lies within the slack of `x`, the point tried last, which is one of them.

Giving up is about the two ends of the range: if their signs agree, no yield is
looked for. Where the price falls with the yield that settles it (`Falls`). With
negative coupons, which `bond.cpp:48-50` admits, or a negative target, the price
may cross its target twice, and a yield that exists is given up on.

### RootSearch, SolverImpl

The abstract search knows one bracket, `left..right`. It begins with any two
points of the range between which the objective changes sign (or answers at once
from a root it was shown), narrows, and answers with a point inside a bracket that
lies in the current one; it may give up at any time. The mapping shows Newton's
`a` and `b`, and of Brent's three points the two that the next iteration is going
to use, which is why it asks the same question about signs as the head of the loop.

### Session

`native` and `mirror` are the two copies of a context's settings. `Assign` is
the property (`ctx.bump_size = ...`), `SetInherited` the inherited method
(`ctx.set_bump_size(...)`) that knows only of the native copy; `bypassed` is
history and remembers which of the two was last. `err` is the `ErrorState` of
each context, and a message is the call that wrote it with its status: who wrote
it is all that `DiagnosticIsOwn` asks.

A risk call on a `PyCurve` runs Python at every callback, and that code may do
whatever the program does elsewhere. `stack` holds the calls in progress; every
other action is possible while it is not empty, so each stands for the program
and for a callback alike. `StartRisk` reads the bump size, once; `Proceed` is the
return of a revaluation's callback; `Finish` and `Unwind` are the two ways out.
The inner calls work on curves of their own, since two calls on one curve are
what `CurveRisk` is about, and `Unwind` may follow any callback.

The inherited setters do not touch the Python copy, so `MirrorsTrue` speaks of
settings that were last changed through the properties. The docstrings do not:
`ctx.valuation_date` is the "Valuation date as YYYYMMDD" and `ctx.bump_size` the
"Bump size in basis points used by all curve risk"
(`bindings/python/firisk/__init__.py:162,173`), which a call of the inherited
methods makes false. `NumbersAtShownSize` is the second claim, without exemptions,
and `session_stale` refutes it; what does hold of every number is
`NumbersAtOneSize`.

## The runs

| run | instance | what it shows |
|---|---|---|
| `risk` | 2 callers, 1 fault; both on 1 native curve, 2 pillars, 2 cash flows; or 2 yielding curves, one per caller, beside a native one, one with a short struct, one without reset and a flat one, up to 3 pillars | `RiskInv`, the invariant behind the rest; no bump survives a call and numbers are exact under true interleaving; only curves that can be restored are bumped; key rates add up to the parallel move at every time; and the refinement of `CurveRiskAbs` |
| `risk_hostile` | 1 curve, 1 cash flow, all four faults, fairness | statuses and out-parameters agree, the context's last status is clear during a call and the call's after it, every call returns |
| `risk_torn` | 2 callers, 1 native curve, `bumpTorn` | **violation**: a bump that fails half-way is never reset |
| `risk_partial` | the same without faults | **violation**: a failed key-rate call has written results |
| `time` | 6 windows of 1460 days; on one day 34 lists and 7 masks in any order, 15 days around a month end | conversions, Excel's serials, month shifts and day counts on every day; walks end, adjusting keeps order, advancing counts, refused calls change nothing |
| `calendar_weekend` | the lists and masks alone | **violation**: a holiday given before the weekend changes is lost |
| `bond` | over a thousand definitions at 5 valuation dates | the walk moves, periods tile, coupons stay on the grid, stubs are in front, payments keep order, flows are what is still to be paid, coupons are whole, accrued interest stays within its coupon and can be computed |
| `bond_icma` | the same | **violation**: a long ICMA stub is refused |
| `solver` | some 580 objectives on 14 points, 4 iterations | the search stays inside, the sign change is kept, answers are what their routine may promise, giving up has a reason, and both solvers implement `RootSearch` |
| `session` | 1 context, 1 bond variable, 1 date, 2 bump sizes, calls nested 2 deep | properties show what the library holds, unless it was set behind their back; a number is made with one size; an exception carries its own call's message |
| `session_stale` | the same | **violation**: a number is made with a size that `ctx.bump_size` does not show |
| `excel` | 2 calls at 2 dates, one over every kind of every argument cell, a host with a second allocator family | nothing leaks, every block goes back to its maker, a cell shows its own call's answer or first error |

The violations are disagreements between the code and what its comments or
documents say; `PROJECT.json` quotes both under `findings`. Three more came up
that no run is spent on, because the model only repeats what the code shows:

- `marshal.hpp:35` describes `to_double_or` as reading a number "with a default
  when the argument is missing". It and its kin take the default for anything they
  cannot read as well, an error value or a text included. So a worksheet
  function that is given an unreadable face, business day convention, compounding
  or first coupon date prices another bond and does not say so
  (`firisk_xll.cpp:111-176`; the entries "unreadable" of `Reading`).
- `solve.hpp:25-28` says that no bracket in the range "means the price is
  unreachable, not that the solver was unlucky", `price.cpp:268-270` that "a bracket
  exists for any target the instrument can actually reach", and `CONCEPTS.md` that
  the price falls "always". With negative coupons the price need not fall, and
  `solve_newton` (line 96) gives up on targets that it crosses twice. This is the
  last case of `GivesUpHonestly`, and the objectives `Sagging` of the run are such.
- `curve_risk.cpp:12-14` says that the guard restores the curve "on every exit
  path"; if `reset` itself reports failure, nobody is told (line 22).

Why the bounds are enough. Two callers are the least that can disturb each
other, and no step looks at more than one other caller. Two pillars and two
targets let a leftover bump reach the next target; two cash flows let one
price see two curve states; one fault reaches every early return, and a second
one could only come after a call that the first has ended. The date windows hold
a leap century (2000), two common ones (1900 and 2100), day zero and both ends of
the four-digit years, each with a whole leap cycle. The calendar's pool has
holidays on both sides of a month end, next to weekends of every shape and one
that takes a month's last business day away. The bonds are short because the
walk repeats itself: what differs is where it starts and where it stops, and the
instances cover a first coupon on, before and after the grid. The solver's range
is wide enough that the widening clips at one end before the other, and
`MaxIter` is small so that running out happens; what is shown of the solvers is
also proved for every range.

In `time` the calendar changes on one day only, so that its states and the days
add up rather than multiply: no property relates the two, and the walk visits every
day with the calendar it starts with. In `excel` only one call reads bad cells: the other
is there to be disturbed, and calls share nothing but the heap. Two dates tell
whose bond a number is about, and a second family is enough to free a block with
the wrong one. Three pillars are the least with one that has neighbours on both
sides.

A session needs one context, because everything that calls share is of
one context, and nothing else relates two; two sizes, so that one can be changed to
another; and two nested calls, so that one can disturb the other. The proofs hold for
any number of each.

`CHECK_DEADLOCK FALSE` appears where the program ends: the walk through a window
of days, one `fir_bond_new`, one search.

Fairness is assumed in one run only (`risk_hostile`): weak fairness of each
caller's own steps. The library never blocks, loops only over the caller's
array, and the callbacks are assumed to return; nothing is assumed of the
callers' making calls. A curve's holder finishes its call because its steps
stay enabled until it does.

## The proofs

All for arbitrary constants under the named assumptions of the modules, and under
the hypotheses that a theorem states.

`CurveRisk_proofs`
: `TypeCorrect`. Then, from `HonestCurves` (no fault but refused bumps and bad
  discounts) and `SoleUsers` (a yielding curve has one user), `RiskInvariant`:
  `RiskInv` is inductive. `CurveRestored` and `OutExact` are not inductive by
  themselves. That a result is exact rests on every discount callback having
  seen the bump of the current side (`SeenInv`), which rests on the curve
  carrying exactly the bump of the armed guard (`BumpInv`), which no other caller
  can change because it is either kept out or not a user (`LockInv`).
  `ResultsExact` follows. `CurvesRestored` needs less: a curve carries exactly the
  bumps of the guards armed on it, however many callers share it, so
  `HonestCurves` is enough; and so it is for `ExitsRestore`, the claim that
  `risk_torn` refutes when a bump fails half-way. What a call reports needs neither
  hypothesis: `StatusInvariant` says which results are written at each point of
  the loop and that the request passed the checks it should have, whatever
  callbacks do, and gives `OutMatches`, `LastStatusIsFresh`,
  `BumpsAreRestorable` and `ParallelWritesOnSuccess`, which is what is left of the
  claim that `risk_partial` refutes.

  Three theorems carry the safety half of `EveryCallReturns`. `ProgressInvariant`
  says who holds the interpreter lock. `NoCallBlocksAll`: while calls are in
  flight, one of them may take its next step. `CallsRunOut`: the callbacks a call
  still has to make are a natural number, which every step of its own lowers and
  no step of another call changes. With weak fairness of each caller's steps, calls
  return; that last conclusion is about ENABLED and stays on paper and with TLC.

`CurveRiskImpl_proofs`
: `Implementation`, under the same two hypotheses: the initial states map to
  initial states, and in states with `RiskInv` and `StatusInv` each step maps to
  a step of `CurveRiskAbs` or to none. The abstract curve never moves because a
  bump is on the curve exactly while its guard is armed. `KeyRatesTile`, for every
  grid of increasing tenors and every time: a bump at one pillar is a spike up to
  its neighbours, and at any time at most two spikes, of neighbours, are not
  zero, which add up to the whole bump. Only that needs the interpolation; which
  bumps were seen comes from `OutExact`.

`Dates_proofs`
: The closed formulas of `date.hpp`, for every integer. A serial is an era of
  400 years, a year in it that starts in March, a month and a day, in one way only;
  the divisions by 1460, 36524 and 146096 recover the year because the days
  before a year lie between two multiples, and the month is the inverse of
  `(153 * mp + 2) \div 5`. `ConversionReturns` and `DatesReturn` are the two round
  trips. On them rests that dates are ordered as their months and days are,
  which is all that later proofs need of dates. Then, about business days: the
  weekend leaves a weekday free, of which there are more within reach than
  holidays; the recursive walks of `following`, `preceding` and `advance` get the
  first such day, by way of the least number of a set, since the induction
  theorems of the library cannot be used. And about day counts: an ACT/ACT ISDA
  fraction is the difference of two positions on one scale on which every year
  is equally long, and a 30/360 one is made from month numbers.

`Calendar_proofs`
: The properties of `time`, for every calendar, window, shift and span:
  `CalendarTypeCorrect`, `EveryWalkEnds`, `AdvancingCounts`, `ListsDecide`;
  `DaysMarch`, `ShiftsLandRight`, `IsdaSplits`, `FractionsNeverShrink`. Two have
  a hypothesis. `AdjustmentKeepsOrder` needs `NeverShutForLong`: the code tells
  whether adjusting left the month by comparing month numbers alone, so on a
  calendar that is shut for about a year the business day found may be in the
  same month of another year, and order is lost. `DigitsNameDays` and
  `ExcelAgreesOnDates` need `InterfaceDays`: windows within the four-digit years.
  `HolidaysSurvive` is how far the comment goes that `calendar_weekend` refutes:
  dropping a holiday on a weekend changes no answer as long as, once there are
  holidays, the weekend only grows.
  The add-in's conversion is proved equal to the library's, formula by formula.

`Bond_proofs`
: `PeriodsAlwaysTile`: for every definition the periods of a finished schedule
  run from issue to maturity without gap or overlap. The invariant says that the
  boundaries found so far descend from maturity and that the cursor is
  the next one; nothing about month lengths is needed, because the code itself
  stops at the first date that is not past the stop. `WalksMoveBack` says that
  it never has to give up for that, and does need the dates. `StubsOnlyInFront`
  adds the grid: each boundary is one frequency from the one before, but for the
  last one or two. `PaymentsKeepOrder` and `FutureFlowsOnly` need `OrdinaryDefs`,
  that no calendar which modified following is asked of is shut for 300 days in
  a row, for the reason above: flows are skipped one by one, and an unordered
  payment would leave a hole. `WholeCouponsArePaid`, `AccruedStaysWithin` and
  `BuiltBondsArePriced` need nothing of the kind: the invariant is that each coupon
  the loop has passed was either paid before or could be computed.

  `OnlyEarlyStubsRefused` says how far the comment fails that `bond_icma` refutes:
  ICMA refuses a stub exactly if it starts before its reference period. Long front
  stubs do; but since the reference period follows the month-end rule of its own
  end date, some short ones do too (issued on 29 August 2024, maturing on 28
  February 2025, semi-annual, not rolling on month ends: the reference period
  starts on 31 August). `CouponsKeepTheGrid` says where coupon dates are: a whole
  number of frequencies before maturity, on month ends for a bond that rolls on
  them and matures on one, and no later in the month than maturity for one that
  does not roll. Nothing holds of a bond that rolls but matures on another day:
  maturing on 30 August, it passes 28 February and pays on the 31st before that.
  `EveryBuildEnds`: what a build has ahead, by phase and then by days or periods,
  falls with every step, so that `fir_bond_new` returns.

`Solver_proofs`
: `SearchStaysInside`, `RootStaysTrapped`, `AnswersCanBeTrusted`,
  `BracketsShrink`. The invariant is the conjunction of the first three with types.
  For Newton the ends keep their signs and the next point lies strictly between
  them, because a landing that is not near an end is inside. For Brent an iteration
  starts from a bracket with opposite signs, moves less than its width, and the
  new point faces one of its two ends; a move is shorter than the width
  because both the interpolation test and half the width are below three
  quarters of it. `GivingUpHasAReason` needs `WidensEnough`: the cap on the
  number of widenings lets the bracket reach both ends of the range. That a falling
  price which keeps to one side of its target at both ends does so everywhere is a
  lemma of its own; for others nothing is claimed of the points between.
  `SolverImplementsSearch` is the refinement of `RootSearch`, for both routes. It
  adds to `BracketsShrink` that each bracket lies in the one before and still
  holds a sign change, and that an answer comes from inside it: Brent's two points
  after a move are the far end and either the old or the new best point, all
  within the old bracket, and an exact root counts as a sign change on its own.
  `EverySearchEnds` bounds a search by `MaxWiden + MaxIter + 3` steps.

`Session_proofs`
: `SessionInvariant`, `MirrorsStayTrue`, `NumbersAreAtOneSize`,
  `DiagnosticsAreOwn`, from nothing but the types of the constants. The
  strengthening is `FramesTrue`: every call in progress, at whatever depth, has
  used one size only, the one its context held when it began. It survives the
  setters in between because the size in a frame is a copy. Messages need no invariant: a call records its own status in the step that
  ends it.

`Excel_proofs`
: `CallsInvariant`, with `EveryCallCleansUp`, `BlocksReturnToTheirMaker` and
  `CellsShowTheirOwn`. `NothingLeaks` is nearly
  inductive: what a call owns is what its pointers reach. `HeapInv` adds that the
  table is of one family, and that blocks made through it have that family, because
  the table is replaced only while there are none; the other blocks are the C
  runtime's. The rest is about each call by itself, since calls touch only their own
  components.
  `EveryWorksheetCallEnds` adds that a call asks the library for the answers of
  its plan in order, so that it lacks fewer with each, and is over within fifteen
  steps after its cells were read, freeing of its result included.

Only model-checked: `EveryCallReturns`, which is liveness. The five violations are
runs that TLC finds; for each a theorem above states how much of the claim is true.
Not proved anywhere is that the numbers
behind the abstractions (prices, slopes, fractions as doubles) are close to what
they stand for.

## What is not modelled

- Floating point: cancellation in central differences, convergence speed,
  `pow` and `exp`. The formulas of `analytic.cpp` and the closed-form price are
  stateless arithmetic, and so are the read-only getters.
- Excel: the registration of functions, whose results the code ignores, the
  add-in manager's entry points and `xlAutoClose`; readers and setters no
  function uses (`to_doubles`, `set_bool`); the layout of an `OPER`.
- Memory: the over-aligned path, which no object of the library takes; `panic`,
  which ends the process when there is no memory; vectors that live and die within
  one call; the calendar a bond falls back on.
- Python: array ownership, the `Calendar` wrapper, reprs and data frames.
- Message texts, `fir_strerror`, version numbers, symbols, the build.

## Plan

All parts of the system that keep state are modelled, and what is said of them is
proved, except as listed above. What remains worth doing:

1. The array and record returns of the Python extension, which own memory of
   two runtimes, over `Heap`.
2. The closed-form price against a sum over cash flows, on exact fractions, for
   the conventions in which the discount factor is rational.
