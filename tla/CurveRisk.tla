------------------------------ MODULE CurveRisk ------------------------------
(***************************************************************************)
(* Bump-and-revalue risk: fir_bond_effective_duration, its two siblings    *)
(* and fir_bond_key_rate_durations, from the C entry point down to the     *)
(* callbacks of the caller's curve.                                        *)
(*                                                                         *)
(* The curve is shared mutable state the library does not own: it is bumped*)
(* in place, repriced one discount callback per cash flow, and reset.  Every*)
(* callback is a step of its own, because every callback is a point where  *)
(* another caller may run, or where the curve's owner may fail.            *)
(*                                                                         *)
(* A curve's state is the bump in force at each of its pillars.  A price is*)
(* what it is computed from: the curve state each discount callback saw.   *)
(***************************************************************************)
EXTENDS Integers, Sequences

CONSTANTS
  Callers,     \* threads, each with a context of its own
  Curves,      \* the fir_curve_t objects
  Pillars,     \* pillar tenors, the same for every curve
  OffGrid,     \* a positive finite tenor that is nobody's pillar
  Invalid,     \* a tenor that is not positive, or not finite
  All,         \* the target of a parallel bump
  Vtable,      \* what each fir_curve_t offers: see VtableType
  Users,       \* which callers hold each curve
  Yields,      \* curves whose callbacks let another caller run
  Requests,    \* the calls the callers make: see RequestType
  BumpSize,    \* each context's bump size, in units of a basis point
  NFlows,      \* cash flows of the bond
  Faults,      \* the ways a callback may misbehave
  MaxFaults,   \* bound: misbehaving callbacks in a behaviour
  NoCaller, Untouched

Sides    == {"base", "up", "down"}
Bonds    == {"good", "worthless", "unaccruable"}
Statuses == {"OK", "NULL_ARG", "BAD_STRUCT_SIZE", "NO_BUMP_SUPPORT",
             "BAD_ARG", "BAD_SCHEDULE"}
FaultKinds == {"discount", "bumpRefused", "bumpTorn", "resetFails"}
NullArgs   == {"none", "ctx", "bond", "curve", "tenors", "out"}
Tenors     == Pillars \cup {OffGrid, Invalid}
Targets    == Tenors \cup {All}

\* The members of fir_curve_t in order; size counts the leading members the
\* caller's struct_size covers.
FieldCount == 8
\* flat is the curve's own: a curve with one level, whatever the tenor.
VtableType == [size : Nat, discount : BOOLEAN, bump : BOOLEAN,
               parallel : BOOLEAN, reset : BOOLEAN, flat : BOOLEAN]
RequestType == [op : {"parallel", "keyrate"}, curve : Curves, bond : Bonds,
                nul : NullArgs, targets : Seq(Targets)]

\* A parallel call moves every pillar once; a key-rate call names tenors.
WellFormed(r) == IF r.op = "parallel" THEN r.targets = <<All>>
                 ELSE \A i \in DOMAIN r.targets : r.targets[i] # All

ASSUME PillarsAssumption ==
  /\ Pillars # {}
  /\ OffGrid \notin Pillars \cup {Invalid, All}
  /\ Invalid \notin Pillars \cup {All}
  /\ All \notin Pillars
ASSUME CurvesAssumption ==
  /\ Curves # {}
  /\ Vtable \in [Curves -> VtableType]
  /\ Users \in [Curves -> SUBSET Callers]
  /\ Yields \subseteq Curves
ASSUME CallersAssumption ==
  /\ NoCaller \notin Callers
  /\ BumpSize \in [Callers -> Nat \ {0}]
  /\ Requests \subseteq RequestType
  /\ \A r \in Requests : WellFormed(r)
ASSUME BoundsAssumption ==
  /\ NFlows \in Nat \ {0}
  /\ Faults \subseteq FaultKinds
  /\ MaxFaults \in Nat

BumpVectors == [Pillars -> Int]
Prices      == Seq(BumpVectors)

\* A result that was written can be told from one that was not.
ASSUME UntouchedAssumption == Untouched \notin [Sides -> Prices]

VARIABLES
  bumps,    \* the bump in force at each pillar of each curve
  req,      \* the arguments of each caller's current or latest call
  pc,       \* "idle", or the next callback the library makes
  side,     \* the revaluation under way
  bucket,   \* the target under way, an index of req.targets
  seen,     \* what the discount callbacks of this revaluation returned
  price,    \* the completed revaluations of this bucket
  pending,  \* the status the bump guard is unwinding with
  out,      \* the caller's out-parameters
  status,   \* the status the latest call returned
  last,     \* the context's last_status
  holder,   \* the caller that keeps every other one from running
  faults    \* misbehaving callbacks so far

curveVars == <<bumps, faults>>
callVars  == <<req, pc, side, bucket, seen, price, pending>>
seenVars  == <<out, status, last>>
vars      == <<curveVars, callVars, seenVars, holder>>

------------------------------------------------------------------------------
(* DiscountSource: which members of the caller's struct may be read.        *)

StructSizeOk(cv) == Vtable[cv].size \in 4..FieldCount
\* Mutant of HasReset: the member is there, whether it is set or not.
HasResetMember(cv) == Vtable[cv].size >= 6

HasReset(cv)     == Vtable[cv].size >= 6 /\ Vtable[cv].reset
SupportsBump(cv) == Vtable[cv].bump /\ HasReset(cv)
SupportsParallel(cv) ==
  Vtable[cv].size >= 5 /\ Vtable[cv].parallel /\ HasReset(cv)

Validate(cv) == IF ~StructSizeOk(cv) THEN "BAD_STRUCT_SIZE"
                ELSE IF ~Vtable[cv].discount THEN "NULL_ARG"
                ELSE "OK"

Supports(r) == IF r.op = "parallel" THEN SupportsParallel(r.curve)
                                    ELSE SupportsBump(r.curve)

NullCheck(r) ==
  \/ r.nul \in {"ctx", "bond", "curve"}
  \/ r.nul = "out" /\ r.targets # <<>>
  \/ r.nul = "tenors" /\ r.op = "keyrate" /\ r.targets # <<>>

\* The status of a call before it prices anything; "OK" lets it go on.
EntryStatus(r) ==
  IF NullCheck(r) THEN "NULL_ARG"
  ELSE IF Validate(r.curve) # "OK" THEN Validate(r.curve)
  ELSE IF r.targets # <<>> /\ ~Supports(r) THEN "NO_BUMP_SUPPORT"
  ELSE "OK"

------------------------------------------------------------------------------
(* The curve's own side of the callbacks.                                   *)

Unbumped == [p \in Pillars |-> 0]

\* The pillars a bump of this curve at this target moves; none: it is refused.
Moved(cv, target) == {p \in Pillars : Vtable[cv].flat \/ target \in {p, All}}

\* A bump adds to whatever is in force; only reset goes back to zero.
Bumped(b, moved, k) ==
  [p \in Pillars |-> IF p \in moved THEN b[p] + k ELSE b[p]]

CurveOf(c) == req[c].curve
Aim(c)     == Moved(CurveOf(c), req[c].targets[bucket[c]])
Signed(s, k) == IF s = "up" THEN k ELSE IF s = "down" THEN -k ELSE 0
Amount(c)  == Signed(side[c], BumpSize[c])

\* The guard is armed from an accepted bump to its reset.
Armed(c) == pc[c] = "reset" \/ (pc[c] = "price" /\ side[c] # "base")

------------------------------------------------------------------------------
(* Who may run.  A caller keeps the others out for as long as its callbacks *)
(* do not yield: Python's lock around a native curve.                       *)

MayRun(c) == holder \in {NoCaller, c}

\* Mutant of Continue: every callback lets another caller in.
ContinueUnlocked(c) == holder' = NoCaller

Continue(c) ==
  holder' = IF CurveOf(c) \in Yields THEN NoCaller ELSE c

\* The tail of every call: a failing return sets the context's error, success
\* leaves it as the entry cleared it.
Return(c, st) ==
  /\ pc' = [pc EXCEPT ![c] = "idle"]
  /\ status' = [status EXCEPT ![c] = st]
  /\ last' = IF st = "OK" THEN last ELSE [last EXCEPT ![c] = st]
  /\ holder' = NoCaller

------------------------------------------------------------------------------
(* Entry.                                                                   *)

CanCall(c, r) ==
  /\ pc[c] = "idle"
  /\ MayRun(c)
  /\ c \in Users[r.curve]

Fresh(r) == [i \in DOMAIN r.targets |-> Untouched]

\* The call returns without a callback: rejected, or nothing to do.  Nobody
\* can look between the clear on entry and the error set on the way out.
Refuse(c, r) ==
  /\ CanCall(c, r)
  /\ EntryStatus(r) # "OK" \/ r.targets = <<>>
  /\ req' = [req EXCEPT ![c] = r]
  /\ out' = [out EXCEPT ![c] = Fresh(r)]
  /\ status' = [status EXCEPT ![c] = EntryStatus(r)]
  /\ last' = IF r.nul = "ctx" THEN last
             ELSE [last EXCEPT ![c] = EntryStatus(r)]
  /\ holder' = NoCaller
  /\ UNCHANGED <<curveVars, pc, side, bucket, seen, price, pending>>

\* Mutant of Start: the loop index counts from zero.
StartFromZero(c, r) ==
  /\ CanCall(c, r)
  /\ EntryStatus(r) = "OK" /\ r.targets # <<>>
  /\ req' = [req EXCEPT ![c] = r]
  /\ pc' = [pc EXCEPT ![c] = "price"]
  /\ side' = [side EXCEPT ![c] = "base"]
  /\ bucket' = [bucket EXCEPT ![c] = 0]
  /\ seen' = [seen EXCEPT ![c] = <<>>]
  /\ price' = [price EXCEPT ![c] = [s \in Sides |-> <<>>]]
  /\ pending' = [pending EXCEPT ![c] = "OK"]
  /\ out' = [out EXCEPT ![c] = Fresh(r)]
  /\ last' = [last EXCEPT ![c] = "OK"]
  /\ holder' = IF r.curve \in Yields THEN NoCaller ELSE c
  /\ UNCHANGED <<curveVars, status>>

\* Mutant of Start: the entry does not clear the previous call's error.
StartUncleared(c, r) ==
  /\ CanCall(c, r)
  /\ EntryStatus(r) = "OK" /\ r.targets # <<>>
  /\ req' = [req EXCEPT ![c] = r]
  /\ pc' = [pc EXCEPT ![c] = "price"]
  /\ side' = [side EXCEPT ![c] = "base"]
  /\ bucket' = [bucket EXCEPT ![c] = 1]
  /\ seen' = [seen EXCEPT ![c] = <<>>]
  /\ price' = [price EXCEPT ![c] = [s \in Sides |-> <<>>]]
  /\ pending' = [pending EXCEPT ![c] = "OK"]
  /\ out' = [out EXCEPT ![c] = Fresh(r)]
  /\ holder' = IF r.curve \in Yields THEN NoCaller ELSE c
  /\ UNCHANGED <<curveVars, status, last>>

\* FIR_ENTRY clears the previous error, then the base price starts.
Start(c, r) ==
  /\ CanCall(c, r)
  /\ EntryStatus(r) = "OK" /\ r.targets # <<>>
  /\ req' = [req EXCEPT ![c] = r]
  /\ pc' = [pc EXCEPT ![c] = "price"]
  /\ side' = [side EXCEPT ![c] = "base"]
  /\ bucket' = [bucket EXCEPT ![c] = 1]
  /\ seen' = [seen EXCEPT ![c] = <<>>]
  /\ price' = [price EXCEPT ![c] = [s \in Sides |-> <<>>]]
  /\ pending' = [pending EXCEPT ![c] = "OK"]
  /\ out' = [out EXCEPT ![c] = Fresh(r)]
  /\ last' = [last EXCEPT ![c] = "OK"]
  /\ holder' = IF r.curve \in Yields THEN NoCaller ELSE c
  /\ UNCHANGED <<curveVars, status>>

------------------------------------------------------------------------------
(* price_from_curve: one discount callback per cash flow.                   *)

\* Mutant of EnterBucket: the loop stops one target early.
EnterBucketShort(c, i) ==
  IF i >= Len(req[c].targets) THEN Return(c, "OK") /\ UNCHANGED <<side, bucket>>
  ELSE IF req[c].targets[i] = Invalid
    THEN Return(c, "BAD_ARG") /\ UNCHANGED <<side, bucket>>
  ELSE /\ pc' = [pc EXCEPT ![c] = "bump"]
       /\ side' = [side EXCEPT ![c] = "up"]
       /\ bucket' = [bucket EXCEPT ![c] = i]
       /\ Continue(c)
       /\ UNCHANGED <<status, last>>

\* The head of the loop of key_rate_durations for target i, and its exit.
EnterBucket(c, i) ==
  IF i > Len(req[c].targets) THEN Return(c, "OK") /\ UNCHANGED <<side, bucket>>
  ELSE IF req[c].targets[i] = Invalid
    THEN Return(c, "BAD_ARG") /\ UNCHANGED <<side, bucket>>
  ELSE /\ pc' = [pc EXCEPT ![c] = "bump"]
       /\ side' = [side EXCEPT ![c] = "up"]
       /\ bucket' = [bucket EXCEPT ![c] = i]
       /\ Continue(c)
       /\ UNCHANGED <<status, last>>

\* Mutant of PriceFails: an early return that the guard does not cover.
PriceFailsUnguarded(c, st) == Return(c, st) /\ UNCHANGED pending

\* A failed price unwinds through the guard, if there is one.
PriceFails(c, st) ==
  IF side[c] = "base"
    THEN Return(c, st) /\ UNCHANGED pending
    ELSE /\ pc' = [pc EXCEPT ![c] = "reset"]
         /\ pending' = [pending EXCEPT ![c] = st]
         /\ Continue(c)
         /\ UNCHANGED <<status, last>>

Discounting(c) == MayRun(c) /\ pc[c] = "price"
Observed(c)    == Append(seen[c], bumps[CurveOf(c)])

\* A discount callback for a cash flow that is not the last one.
Discount(c) ==
  /\ Discounting(c)
  /\ Len(seen[c]) + 1 < NFlows
  /\ seen' = [seen EXCEPT ![c] = Observed(c)]
  /\ Continue(c)
  /\ UNCHANGED <<curveVars, seenVars, req, pc, side, bucket, price, pending>>

\* The callback returns a factor that is not finite, or not positive.
DiscountFails(c) ==
  /\ Discounting(c)
  /\ "discount" \in Faults /\ faults < MaxFaults
  /\ faults' = faults + 1
  /\ seen' = [seen EXCEPT ![c] = <<>>]
  /\ PriceFails(c, "BAD_ARG")
  /\ UNCHANGED <<bumps, req, side, bucket, price, out>>

\* The last callback of a price whose accrued interest cannot be computed.
AccruedFails(c) ==
  /\ Discounting(c)
  /\ Len(seen[c]) + 1 = NFlows
  /\ req[c].bond = "unaccruable"
  /\ seen' = [seen EXCEPT ![c] = <<>>]
  /\ PriceFails(c, "BAD_SCHEDULE")
  /\ UNCHANGED <<curveVars, req, side, bucket, price, out>>

\* The last callback of the base price, and the check that it is positive.
BasePriced(c) ==
  /\ Discounting(c) /\ side[c] = "base"
  /\ Len(seen[c]) + 1 = NFlows
  /\ req[c].bond # "unaccruable"
  /\ price' = [price EXCEPT ![c]["base"] = Observed(c)]
  /\ seen' = [seen EXCEPT ![c] = <<>>]
  /\ IF req[c].bond = "worthless"
       THEN Return(c, "BAD_ARG") /\ UNCHANGED <<side, bucket>>
       ELSE EnterBucket(c, 1)
  /\ UNCHANGED <<curveVars, req, pending, out>>

\* The last callback of a bumped price: the guard goes out of scope.
BumpedPriced(c) ==
  /\ Discounting(c) /\ side[c] # "base"
  /\ Len(seen[c]) + 1 = NFlows
  /\ req[c].bond # "unaccruable"
  /\ price' = [price EXCEPT ![c][side[c]] = Observed(c)]
  /\ seen' = [seen EXCEPT ![c] = <<>>]
  /\ pc' = [pc EXCEPT ![c] = "reset"]
  /\ pending' = [pending EXCEPT ![c] = "OK"]
  /\ Continue(c)
  /\ UNCHANGED <<curveVars, seenVars, req, side, bucket>>

------------------------------------------------------------------------------
(* priced_at_pillar_bump and priced_at_parallel_bump.                       *)

Bumping(c) == MayRun(c) /\ pc[c] = "bump"

BumpAccepted(c) ==
  /\ Bumping(c)
  /\ Aim(c) # {}
  /\ bumps' = [bumps EXCEPT ![CurveOf(c)] = Bumped(@, Aim(c), Amount(c))]
  /\ pc' = [pc EXCEPT ![c] = "price"]
  /\ Continue(c)
  /\ UNCHANGED <<faults, seenVars, req, side, bucket, seen, price, pending>>

\* No pillar at this tenor, or the callback declines: nothing is armed.
BumpRefused(c) ==
  /\ Bumping(c)
  /\ \/ Aim(c) = {} /\ UNCHANGED faults
     \/ /\ "bumpRefused" \in Faults /\ faults < MaxFaults
        /\ faults' = faults + 1
  /\ Return(c, "BAD_ARG")
  /\ UNCHANGED <<bumps, req, side, bucket, seen, price, pending, out>>

\* The callback moves some pillars, then fails: the guard was never armed.
BumpTorn(c) ==
  /\ Bumping(c)
  /\ "bumpTorn" \in Faults /\ faults < MaxFaults
  /\ faults' = faults + 1
  /\ \E moved \in SUBSET Aim(c) \ {{}} :
       bumps' = [bumps EXCEPT ![CurveOf(c)] = Bumped(@, moved, Amount(c))]
  /\ Return(c, "BAD_ARG")
  /\ UNCHANGED <<req, side, bucket, seen, price, pending, out>>

\* The curve's answer to reset; the guard does not look at the status.
ResetCallback(c) ==
  \/ /\ bumps' = [bumps EXCEPT ![CurveOf(c)] = Unbumped]
     /\ UNCHANGED faults
  \/ /\ "resetFails" \in Faults /\ faults < MaxFaults
     /\ faults' = faults + 1
     /\ UNCHANGED bumps

Resetting(c) == MayRun(c) /\ pc[c] = "reset"

\* Mutant of ResetUnwinding: the price's status is lost on the way out.
ResetUnwindingSilent(c) ==
  /\ Resetting(c) /\ pending[c] # "OK"
  /\ ResetCallback(c)
  /\ Return(c, "OK")
  /\ UNCHANGED <<req, side, bucket, seen, price, pending, out>>

\* The guard's destructor while a failed price unwinds.
ResetUnwinding(c) ==
  /\ Resetting(c) /\ pending[c] # "OK"
  /\ ResetCallback(c)
  /\ Return(c, pending[c])
  /\ UNCHANGED <<req, side, bucket, seen, price, pending, out>>

\* Mutants of ResetAfterUp: the down bump comes on top of the up bump; the
\* sign is not flipped, so the up price is computed for ever.
ResetAfterUpLate(c) ==
  /\ Resetting(c) /\ pending[c] = "OK" /\ side[c] = "up"
  /\ pc' = [pc EXCEPT ![c] = "bump"]
  /\ side' = [side EXCEPT ![c] = "down"]
  /\ Continue(c)
  /\ UNCHANGED <<curveVars, seenVars, req, bucket, seen, price, pending>>
ResetAfterUpAgain(c) ==
  /\ Resetting(c) /\ pending[c] = "OK" /\ side[c] = "up"
  /\ ResetCallback(c)
  /\ pc' = [pc EXCEPT ![c] = "bump"]
  /\ Continue(c)
  /\ UNCHANGED <<seenVars, req, side, bucket, seen, price, pending>>

\* The up price is done: bump the other way.
ResetAfterUp(c) ==
  /\ Resetting(c) /\ pending[c] = "OK" /\ side[c] = "up"
  /\ ResetCallback(c)
  /\ pc' = [pc EXCEPT ![c] = "bump"]
  /\ side' = [side EXCEPT ![c] = "down"]
  /\ Continue(c)
  /\ UNCHANGED <<seenVars, req, bucket, seen, price, pending>>

\* The down price is done: write the result and go to the next target.
ResetAfterDown(c) ==
  /\ Resetting(c) /\ pending[c] = "OK" /\ side[c] = "down"
  /\ ResetCallback(c)
  /\ out' = [out EXCEPT ![c][bucket[c]] = price[c]]
  /\ EnterBucket(c, bucket[c] + 1)
  /\ UNCHANGED <<req, seen, price, pending>>

------------------------------------------------------------------------------
\* Every request has the same shape whichever caller made it last.
NoRequest == [op |-> "keyrate", curve |-> CHOOSE cv \in Curves : TRUE,
              bond |-> "good", nul |-> "none", targets |-> <<>>]

Init ==
  /\ bumps = [cv \in Curves |-> Unbumped]
  /\ req = [c \in Callers |-> NoRequest]
  /\ pc = [c \in Callers |-> "idle"]
  /\ side = [c \in Callers |-> "base"]
  /\ bucket = [c \in Callers |-> 1]
  /\ seen = [c \in Callers |-> <<>>]
  /\ price = [c \in Callers |-> [s \in Sides |-> <<>>]]
  /\ pending = [c \in Callers |-> "OK"]
  /\ out = [c \in Callers |-> <<>>]
  /\ status = [c \in Callers |-> "OK"]
  /\ last = [c \in Callers |-> "OK"]
  /\ holder = NoCaller
  /\ faults = 0

Step(c) ==
  \/ Discount(c)
  \/ DiscountFails(c)
  \/ AccruedFails(c)
  \/ BasePriced(c)
  \/ BumpedPriced(c)
  \/ BumpAccepted(c)
  \/ BumpRefused(c)
  \/ BumpTorn(c)
  \/ ResetUnwinding(c)
  \/ ResetAfterUp(c)
  \/ ResetAfterDown(c)

Call(c) == \E r \in Requests : Refuse(c, r) \/ Start(c, r)

Next == \E c \in Callers : Call(c) \/ Step(c)

\* The library never blocks and every callback returns.
Fairness == \A c \in Callers : WF_vars(Step(c))

Spec == Init /\ [][Next]_vars
FairSpec == Spec /\ Fairness

------------------------------------------------------------------------------
(* Correctness.                                                             *)

TypeOK ==
  /\ bumps \in [Curves -> BumpVectors]
  /\ req \in [Callers -> Requests \cup {NoRequest}]
  /\ pc \in [Callers -> {"idle", "price", "bump", "reset"}]
  /\ side \in [Callers -> Sides]
  /\ bucket \in [Callers -> Nat \ {0}]
  /\ seen \in [Callers -> Prices]
  /\ price \in [Callers -> [Sides -> Prices]]
  /\ pending \in [Callers -> Statuses]
  /\ out \in [Callers -> Seq([Sides -> Prices] \cup {Untouched})]
  /\ status \in [Callers -> Statuses]
  /\ last \in [Callers -> Statuses]
  /\ holder \in Callers \cup {NoCaller}
  /\ faults \in Nat

\* What a curve owner and its users must keep to for the numbers to be right:
\* a callback that fails changes nothing, reset does not fail, and a curve
\* whose callbacks let other callers run is held by one caller only.
HonestCurves == Faults \subseteq {"discount", "bumpRefused"}
SoleUsers    == \A cv \in Yields : \A a, b \in Users[cv] : a = b

\* The revaluations a caller would get from a private copy of its curve.
Exact(c, r, i) ==
  [s \in Sides |->
     [f \in 1..NFlows |->
        Bumped(Unbumped, Moved(r.curve, r.targets[i]), Signed(s, BumpSize[c]))]]

\* A curve carries a bump only while some call's guard is armed on it, however
\* the calls before ended (BumpGuard, on every exit path).
CurveRestored ==
  \A cv \in Curves :
    bumps[cv] # Unbumped => \E c \in Callers : Armed(c) /\ CurveOf(c) = cv

\* Every result written is computed from the unbumped curve and from the two
\* opposite bumps of its own target, at every cash flow: no other call's bump,
\* and none left over from an earlier target, got into it.
OutExact ==
  \A c \in Callers : \A i \in DOMAIN out[c] :
    out[c][i] # Untouched => out[c][i] = Exact(c, req[c], i)

\* A call that returned FIR_OK wrote every out-parameter; results are written
\* in order; a parallel measure that failed wrote nothing.
OutMatchesStatus ==
  \A c \in Callers :
    /\ \A i, j \in DOMAIN out[c] :
         i < j /\ out[c][j] # Untouched => out[c][i] # Untouched
    /\ pc[c] = "idle" =>
         /\ status[c] = "OK" => \A i \in DOMAIN out[c] : out[c][i] # Untouched
         /\ status[c] # "OK" /\ out[c] # <<>> => out[c][Len(out[c])] = Untouched

\* Between calls the context's last status is what the latest call returned,
\* though a call writes it twice, on entry and where it fails, and a success
\* writes nothing on its way out; while a call runs, its callbacks read OK.
LastStatusFresh ==
  \A c \in Callers :
    req[c].nul # "ctx" =>
      last[c] = IF pc[c] = "idle" THEN status[c] ELSE "OK"

\* The library never bumps a curve that it has no way to restore, nor reads a
\* callback beyond the struct_size the caller declared.
OnlyBumpsRestorable ==
  [][\A cv \in Curves :
       bumps'[cv] # bumps[cv] => Vtable[cv].size \in 6..FieldCount /\ Vtable[cv].reset]_vars

\* Every call returns, whatever its curve's callbacks answer.
EveryCallReturns == \A c \in Callers : (pc[c] # "idle") ~> (pc[c] = "idle")

------------------------------------------------------------------------------
(* Why they hold: the inductive invariant.                                  *)

Active(c) == pc[c] # "idle"
View(c)   == Bumped(Unbumped, Aim(c), Amount(c))

\* A caller in flight uses a curve it holds, and a curve that does not yield
\* keeps every other caller out until its call returns.
LockInv(c) == /\ c \in Users[CurveOf(c)]
              /\ CurveOf(c) \notin Yields => holder = c

\* The loop index and the out-parameters stay within the request.
LoopInv(c) == /\ req[c] \in Requests
              /\ bucket[c] \in 1..Len(req[c].targets)
              /\ Len(out[c]) = Len(req[c].targets)

\* A curve under an armed guard carries exactly that guard's bump.
BumpInv(c) == Armed(c) => bumps[CurveOf(c)] = View(c)

\* Every discount callback of a revaluation saw the same curve: the one it is
\* meant to price on.
SeenInv(c) == /\ pc[c] # "price" => seen[c] = <<>>
              /\ Len(seen[c]) < NFlows
              /\ \A f \in 1..Len(seen[c]) : seen[c][f] = View(c)

\* The revaluations of this target that are complete.
Done(c) ==
  (IF side[c] # "base" THEN {"base"} ELSE {})
  \cup (IF side[c] = "down" THEN {"up"} ELSE {})
  \cup (IF pc[c] = "reset" /\ pending[c] = "OK" THEN {side[c]} ELSE {})

PriceInv(c) ==
  /\ pc[c] \in {"bump", "reset"} => side[c] # "base"
  /\ \A s \in Done(c) : price[c][s] = Exact(c, req[c], bucket[c])[s]

CallerInv(c) == LockInv(c) /\ LoopInv(c) /\ BumpInv(c) /\ SeenInv(c) /\ PriceInv(c)

RiskInv == /\ TypeOK
           /\ \A c \in Callers : Active(c) => CallerInv(c)
           /\ CurveRestored
           /\ OutExact

------------------------------------------------------------------------------
(* What the documentation says beyond that.                                 *)

\* "Restores the curve on every exit path": with no call in flight, no bump.
RestoredOnEveryExit ==
  (\A c \in Callers : pc[c] = "idle") => \A cv \in Curves : bumps[cv] = Unbumped

\* "Out-parameters are written only on success."
OutOnlyOnSuccess ==
  \A c \in Callers :
    pc[c] = "idle" /\ status[c] # "OK" =>
      \A i \in DOMAIN out[c] : out[c][i] = Untouched
=============================================================================
