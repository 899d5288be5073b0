-------------------------- MODULE CurveRisk_proofs --------------------------
(***************************************************************************)
(* The revaluations of curve risk are exact and leave no bump behind, for  *)
(* any callers, curves, pillars, requests and number of cash flows; and    *)
(* what a call tells its caller is true.                                   *)
(***************************************************************************)
EXTENDS CurveRisk, SequenceTheorems, TLAPS

------------------------------------------------------------------------------
(* The operators the actions are built from.                                *)

\* An unbumped curve is a bump vector, and bumping one gives another.
LEMMA UnbumpedType == Unbumped \in BumpVectors
BY DEF Unbumped, BumpVectors

LEMMA BumpedType ==
  ASSUME NEW b \in BumpVectors, NEW moved, NEW k \in Int
  PROVE  Bumped(b, moved, k) \in BumpVectors
BY DEF Bumped, BumpVectors

\* Writing one result leaves a sequence of results of the same length.
LEMMA SeqExcept ==
  ASSUME NEW S, NEW q \in Seq(S), NEW i, NEW v \in S
  PROVE  /\ [q EXCEPT ![i] = v] \in Seq(S)
         /\ Len([q EXCEPT ![i] = v]) = Len(q)
         /\ DOMAIN [q EXCEPT ![i] = v] = DOMAIN q
<1>1. CASE i \in 1..Len(q)
  BY <1>1, ExceptSeq
<1>2. CASE i \notin 1..Len(q)
  <2>1. DOMAIN q = 1..Len(q) /\ q = [j \in 1..Len(q) |-> q[j]]
    OBVIOUS
  <2>2. [q EXCEPT ![i] = v] = q
    BY <1>2, <2>1
  <2>3. QED
    BY <2>2
<1>3. QED
  BY <1>1, <1>2

\* A base price bumps by nothing, so it is meant to see the unbumped curve.
LEMMA NoBump == \A moved : Bumped(Unbumped, moved, 0) = Unbumped
BY DEF Unbumped, Bumped

\* The out-parameters of a fresh call: as many as its targets.
LEMMA FreshType ==
  ASSUME NEW r \in Requests \cup {NoRequest}
  PROVE  /\ r.targets \in Seq(Targets)
         /\ Fresh(r) \in Seq([Sides -> Prices] \cup {Untouched})
         /\ Len(Fresh(r)) = Len(r.targets)
         /\ \A i \in DOMAIN Fresh(r) : Fresh(r)[i] = Untouched
<1>1. r.targets \in Seq(Targets)
  <2>1. CASE r \in Requests
    BY <2>1, CallersAssumption DEF RequestType
  <2>2. CASE r = NoRequest
    BY <2>2 DEF NoRequest
  <2>3. QED
    BY <2>1, <2>2
<1>2. QED
  BY <1>1 DEF Fresh

LEMMA EntryStatusType == \A r : EntryStatus(r) \in Statuses
BY DEF EntryStatus, Validate, Statuses

\* The amount of a bump is an integer, and none for the base price.
LEMMA AmountType ==
  ASSUME TypeOK, NEW c \in Callers
  PROVE  Amount(c) \in Int
<1>1. BumpSize[c] \in Nat /\ side[c] \in Sides
  BY CallersAssumption DEF TypeOK
<1>2. QED
  BY <1>1 DEF Amount, Signed, Sides

------------------------------------------------------------------------------
(* Type correctness.                                                        *)

\* The two exits every loop iteration and every failed price go through.
LEMMA EnterBucketType ==
  ASSUME TypeOK, NEW c \in Callers, NEW i \in Nat \ {0}, EnterBucket(c, i)
  PROVE  /\ pc' \in [Callers -> {"idle", "price", "bump", "reset"}]
         /\ side' \in [Callers -> Sides]
         /\ bucket' \in [Callers -> Nat \ {0}]
         /\ status' \in [Callers -> Statuses]
         /\ last' \in [Callers -> Statuses]
         /\ holder' \in Callers \cup {NoCaller}
<1> DEFINE PCs == {"idle", "price", "bump", "reset"}
<1>1. /\ pc \in [Callers -> PCs] /\ side \in [Callers -> Sides]
      /\ bucket \in [Callers -> Nat \ {0}]
      /\ status \in [Callers -> Statuses] /\ last \in [Callers -> Statuses]
  BY DEF TypeOK
<1>2. ASSUME NEW st \in {"OK", "BAD_ARG"}, Return(c, st), UNCHANGED <<side, bucket>>
      PROVE  /\ pc' \in [Callers -> PCs] /\ side' \in [Callers -> Sides]
             /\ bucket' \in [Callers -> Nat \ {0}]
             /\ status' \in [Callers -> Statuses] /\ last' \in [Callers -> Statuses]
             /\ holder' \in Callers \cup {NoCaller}
  BY <1>1, <1>2 DEF Return, Statuses
<1>3. CASE i > Len(req[c].targets) \/ req[c].targets[i] = Invalid
  BY <1>2, <1>3 DEF EnterBucket
<1>4. CASE ~(i > Len(req[c].targets) \/ req[c].targets[i] = Invalid)
  BY <1>1, <1>4 DEF EnterBucket, Continue, Sides
<1>5. QED
  BY <1>3, <1>4

LEMMA PriceFailsType ==
  ASSUME TypeOK, NEW c \in Callers, NEW st \in Statuses, PriceFails(c, st)
  PROVE  /\ pc' \in [Callers -> {"idle", "price", "bump", "reset"}]
         /\ pending' \in [Callers -> Statuses]
         /\ status' \in [Callers -> Statuses]
         /\ last' \in [Callers -> Statuses]
         /\ holder' \in Callers \cup {NoCaller}
<1>1. CASE side[c] = "base"
  <2>1. Return(c, st)
    BY <1>1 DEF PriceFails
  <2>2. last' \in [Callers -> Statuses]
    BY <2>1 DEF TypeOK, Return
  <2>3. QED
    BY <1>1, <2>1, <2>2 DEF TypeOK, PriceFails, Return
<1>2. CASE side[c] # "base"
  BY <1>2 DEF TypeOK, PriceFails, Continue
<1>3. QED
  BY <1>1, <1>2

LEMMA ObservedType ==
  ASSUME TypeOK, NEW c \in Callers, CurveOf(c) \in Curves
  PROVE  Observed(c) \in Prices
BY DEF TypeOK, Observed, Prices

LEMMA CurveOfType ==
  ASSUME TypeOK, NEW c \in Callers
  PROVE  CurveOf(c) \in Curves
<1>1. req[c] \in Requests \cup {NoRequest}
  BY DEF TypeOK
<1>2. CASE req[c] \in Requests
  BY <1>2, CallersAssumption DEF RequestType, CurveOf
<1>3. CASE req[c] = NoRequest
  BY <1>3, CurvesAssumption DEF NoRequest, CurveOf
<1>4. QED
  BY <1>1, <1>2, <1>3

\* A reset puts the curve back, or fails and leaves it as it is.
LEMMA ResetType ==
  ASSUME TypeOK, NEW c \in Callers, ResetCallback(c)
  PROVE  bumps' \in [Curves -> BumpVectors] /\ faults' \in Nat
<1>1. bumps \in [Curves -> BumpVectors] /\ faults \in Nat
  BY DEF TypeOK
<1>2. Unbumped \in BumpVectors
  BY UnbumpedType
<1>3. QED
  BY <1>1, <1>2 DEF ResetCallback

\* A bump, whole or torn, leaves a bump vector in force.
LEMMA BumpType ==
  ASSUME TypeOK, NEW c \in Callers, NEW moved,
         bumps' = [bumps EXCEPT ![CurveOf(c)] = Bumped(@, moved, Amount(c))]
  PROVE  bumps' \in [Curves -> BumpVectors]
<1>1. bumps \in [Curves -> BumpVectors]
  BY DEF TypeOK
<1>2. CurveOf(c) \in Curves /\ Amount(c) \in Int
  BY CurveOfType, AmountType
<1> DEFINE b == bumps[CurveOf(c)]
           k == Amount(c)
<1>3. b \in BumpVectors /\ k \in Int
  BY <1>1, <1>2
<1> HIDE DEF b, k
<1>3a. Bumped(b, moved, k) \in BumpVectors
  BY <1>3, BumpedType
<1>4. QED
  BY <1>1, <1>3a DEF b, k

\* A step of a call in flight keeps every variable within its type.
LEMMA StepType ==
  ASSUME TypeOK, NEW c \in Callers, Step(c)
  PROVE  TypeOK'
<1> DEFINE PCs == {"idle", "price", "bump", "reset"}
           Results == [Sides -> Prices]
<1>1. /\ bumps \in [Curves -> BumpVectors] /\ faults \in Nat
      /\ req \in [Callers -> Requests \cup {NoRequest}]
      /\ pc \in [Callers -> PCs] /\ side \in [Callers -> Sides]
      /\ bucket \in [Callers -> Nat \ {0}]
      /\ seen \in [Callers -> Prices] /\ price \in [Callers -> Results]
      /\ pending \in [Callers -> Statuses]
      /\ out \in [Callers -> Seq(Results \cup {Untouched})]
      /\ status \in [Callers -> Statuses] /\ last \in [Callers -> Statuses]
      /\ holder \in Callers \cup {NoCaller}
  BY DEF TypeOK
<1>2. Observed(c) \in Prices /\ <<>> \in Prices
  BY CurveOfType, ObservedType DEF Prices
<1>3. {"OK", "BAD_ARG", "BAD_SCHEDULE"} \subseteq Statuses /\ pending[c] \in Statuses
  BY <1>1 DEF Statuses
<1>4. {"base", "up", "down"} = Sides /\ side[c] \in Sides
  BY <1>1 DEF Sides
<1>5. CASE Discount(c)
  BY <1>5, <1>1, <1>2 DEF Discount, Discounting, Continue, TypeOK, curveVars, seenVars
<1>6. CASE DiscountFails(c)
  BY <1>6, <1>1, <1>2, <1>3, PriceFailsType DEF DiscountFails, TypeOK
<1>7. CASE AccruedFails(c)
  BY <1>7, <1>1, <1>2, <1>3, PriceFailsType DEF AccruedFails, TypeOK, curveVars
<1>8. CASE BasePriced(c)
  <2>1. price' \in [Callers -> Results] /\ seen' \in [Callers -> Prices]
    BY <1>8, <1>1, <1>2 DEF BasePriced
  <2>2. /\ pc' \in [Callers -> PCs] /\ side' \in [Callers -> Sides]
        /\ bucket' \in [Callers -> Nat \ {0}]
        /\ status' \in [Callers -> Statuses] /\ last' \in [Callers -> Statuses]
        /\ holder' \in Callers \cup {NoCaller}
    <3>1. CASE req[c].bond = "worthless"
      <4>1. Return(c, "BAD_ARG") /\ UNCHANGED <<side, bucket>>
        BY <1>8, <3>1 DEF BasePriced
      <4>2. QED
        BY <4>1, <1>1, <1>3 DEF Return
    <3>2. CASE req[c].bond # "worthless"
      BY <1>8, <3>2, EnterBucketType DEF BasePriced
    <3>3. QED
      BY <3>1, <3>2
  <2>3. QED
    BY <1>8, <1>1, <2>1, <2>2 DEF BasePriced, TypeOK, curveVars
<1>9. CASE BumpedPriced(c)
  BY <1>9, <1>1, <1>2, <1>3, <1>4
  DEF BumpedPriced, Continue, TypeOK, curveVars, seenVars
<1>10. CASE BumpAccepted(c)
  BY <1>10, <1>1, BumpType DEF BumpAccepted, Continue, TypeOK, seenVars
<1>11. CASE BumpRefused(c)
  BY <1>11, <1>1, <1>3 DEF BumpRefused, Return, TypeOK
<1>12. CASE BumpTorn(c)
  <2>1. PICK moved : bumps' = [bumps EXCEPT ![CurveOf(c)] =
                                 Bumped(@, moved, Amount(c))]
    BY <1>12 DEF BumpTorn
  <2>2. bumps' \in [Curves -> BumpVectors]
    BY <2>1, BumpType
  <2>3. QED
    BY <1>12, <1>1, <1>3, <2>2 DEF BumpTorn, Return, TypeOK
<1>13. CASE ResetUnwinding(c)
  BY <1>13, <1>1, <1>3, ResetType DEF ResetUnwinding, Return, TypeOK
<1>14. CASE ResetAfterUp(c)
  BY <1>14, <1>1, <1>4, ResetType DEF ResetAfterUp, Continue, TypeOK, seenVars
<1>15. CASE ResetAfterDown(c)
  <2>1. bucket[c] + 1 \in Nat \ {0} /\ price[c] \in Results
    BY <1>1
  <2>2. out' \in [Callers -> Seq(Results \cup {Untouched})]
    <3>1. [out[c] EXCEPT ![bucket[c]] = price[c]] \in Seq(Results \cup {Untouched})
      BY <1>1, <2>1, SeqExcept
    <3>2. out' = [out EXCEPT ![c] = [out[c] EXCEPT ![bucket[c]] = price[c]]]
      BY <1>15 DEF ResetAfterDown
    <3>3. QED
      BY <1>1, <3>1, <3>2
  <2>3. QED
    BY <1>15, <1>1, <2>1, <2>2, ResetType, EnterBucketType DEF ResetAfterDown, TypeOK
<1>16. QED
  BY <1>5, <1>6, <1>7, <1>8, <1>9, <1>10, <1>11, <1>12, <1>13, <1>14, <1>15, Step(c)
  DEF Step

\* A new call, refused or started, is one of the callers' requests.
LEMMA CallType ==
  ASSUME TypeOK, NEW c \in Callers, NEW r \in Requests, Refuse(c, r) \/ Start(c, r)
  PROVE  TypeOK'
<1>1. Fresh(r) \in Seq([Sides -> Prices] \cup {Untouched})
  BY FreshType
<1>2. EntryStatus(r) \in Statuses /\ "OK" \in Statuses
  BY EntryStatusType DEF Statuses
<1>3. CASE Refuse(c, r)
  BY <1>1, <1>2, <1>3 DEF Refuse, TypeOK, curveVars
<1>4. CASE Start(c, r)
  <2>1. <<>> \in Prices /\ [s \in Sides |-> <<>>] \in [Sides -> Prices]
        /\ "base" \in Sides
    BY DEF Prices, Sides
  <2>2. QED
    BY <1>1, <1>2, <1>4, <2>1 DEF Start, TypeOK, curveVars
<1>5. QED
  BY <1>3, <1>4

\* Every variable keeps its type, whatever the callbacks do.
THEOREM TypeCorrect == Spec => []TypeOK
<1>1. Init => TypeOK
  BY UnbumpedType DEF Init, TypeOK, Prices, Sides, Statuses
<1>2. TypeOK /\ [Next]_vars => TypeOK'
  <2>1. ASSUME TypeOK, NEW c \in Callers, Call(c) \/ Step(c)
        PROVE  TypeOK'
    BY <2>1, StepType, CallType DEF Call
  <2>2. ASSUME TypeOK, UNCHANGED vars
        PROVE  TypeOK'
    BY <2>2 DEF TypeOK, vars, curveVars, callVars, seenVars
  <2>3. QED
    BY <2>1, <2>2 DEF Next
<1>3. QED
  BY <1>1, <1>2, PTL DEF Spec

------------------------------------------------------------------------------
(* One caller to a curve.                                                   *)

\* Two calls in flight are never on the same curve.
LEMMA Exclusive ==
  ASSUME RiskInv, SoleUsers, NEW c \in Callers, NEW d \in Callers, c # d,
         Active(c), Active(d)
  PROVE  CurveOf(c) # CurveOf(d)
<1>1. LockInv(c) /\ LockInv(d)
  BY DEF RiskInv, CallerInv
<1>2. CurveOf(c) \in Curves
  BY CurveOfType DEF RiskInv
<1>3. QED
  BY <1>1, <1>2, CurvesAssumption DEF LockInv, SoleUsers

\* A step of one caller leaves alone what belongs to another.
LEMMA Frame ==
  ASSUME TypeOK, NEW c \in Callers, Step(c)
  PROVE  /\ req' = req
         /\ \A d \in Callers \ {c} :
              /\ pc'[d] = pc[d] /\ side'[d] = side[d] /\ bucket'[d] = bucket[d]
              /\ seen'[d] = seen[d] /\ price'[d] = price[d]
              /\ pending'[d] = pending[d] /\ out'[d] = out[d]
         /\ \A cv \in Curves \ {CurveOf(c)} : bumps'[cv] = bumps[cv]
         /\ Active(c) /\ MayRun(c)
<1> USE DEF TypeOK, curveVars, seenVars, Return, PriceFails, Active,
            Discounting, Bumping, Resetting
<1>1. CASE Discount(c)
  BY <1>1 DEF Discount
<1>2. CASE DiscountFails(c)
  BY <1>2 DEF DiscountFails
<1>3. CASE AccruedFails(c)
  BY <1>3 DEF AccruedFails
<1>4. CASE BasePriced(c)
  BY <1>4 DEF BasePriced, EnterBucket
<1>5. CASE BumpedPriced(c)
  BY <1>5 DEF BumpedPriced
<1>6. CASE BumpAccepted(c)
  BY <1>6 DEF BumpAccepted
<1>7. CASE BumpRefused(c)
  BY <1>7 DEF BumpRefused
<1>8. CASE BumpTorn(c)
  BY <1>8 DEF BumpTorn
<1>9. CASE ResetUnwinding(c)
  BY <1>9 DEF ResetUnwinding, ResetCallback
<1>10. CASE ResetAfterUp(c)
  BY <1>10 DEF ResetAfterUp, ResetCallback
<1>11. CASE ResetAfterDown(c)
  BY <1>11 DEF ResetAfterDown, ResetCallback, EnterBucket
<1>12. QED
  BY <1>1, <1>2, <1>3, <1>4, <1>5, <1>6, <1>7, <1>8, <1>9, <1>10, <1>11, Step(c)
  DEF Step

\* A curve that nobody's guard is armed on is unbumped: in particular when its
\* caller is between a reset and a bump, or computes the base price.
LEMMA Unarmed ==
  ASSUME RiskInv, SoleUsers, NEW c \in Callers, Active(c), ~Armed(c)
  PROVE  bumps[CurveOf(c)] = Unbumped
<1>1. CurveOf(c) \in Curves
  BY CurveOfType DEF RiskInv
<1>2. ASSUME NEW d \in Callers, Armed(d) PROVE CurveOf(d) # CurveOf(c)
  BY <1>2, Exclusive DEF Armed, Active
<1>3. QED
  BY <1>1, <1>2 DEF RiskInv, CurveRestored

\* What a discount callback sees is what its revaluation is meant to price on.
LEMMA SeesView ==
  ASSUME RiskInv, SoleUsers, NEW c \in Callers, pc[c] = "price"
  PROVE  bumps[CurveOf(c)] = View(c)
<1>1. CASE side[c] = "base"
  <2>1. bumps[CurveOf(c)] = Unbumped
    BY <1>1, Unarmed DEF Armed, Active
  <2>2. View(c) = Unbumped
    BY <1>1, NoBump DEF View, Amount, Signed
  <2>3. QED
    BY <2>1, <2>2
<1>2. CASE side[c] # "base"
  BY <1>2 DEF Armed, Active, RiskInv, CallerInv, BumpInv
<1>3. QED
  BY <1>1, <1>2

\* So a completed price is the exact one of its side.
LEMMA ObservedExact ==
  ASSUME RiskInv, SoleUsers, NEW c \in Callers, pc[c] = "price",
         Len(seen[c]) + 1 = NFlows
  PROVE  Observed(c) = Exact(c, req[c], bucket[c])[side[c]]
<1>1. seen[c] \in Prices /\ side[c] \in Sides
  BY DEF RiskInv, TypeOK
<1>2. \A f \in 1..Len(seen[c]) : seen[c][f] = View(c)
  BY DEF Active, RiskInv, CallerInv, SeenInv
<1>3. bumps[CurveOf(c)] = View(c)
  BY SeesView
<1>4. Observed(c) = [f \in 1..NFlows |-> View(c)]
  BY <1>1, <1>2, <1>3 DEF Observed, Prices
<1>5. Exact(c, req[c], bucket[c])[side[c]] = [f \in 1..NFlows |-> View(c)]
  BY <1>1 DEF Exact, View, Aim, Amount, CurveOf
<1>6. QED
  BY <1>4, <1>5

------------------------------------------------------------------------------
(* What a caller's own step establishes for it.                             *)

Settled(c) == Armed(c) \/ bumps[CurveOf(c)] = Unbumped

\* The caller's side of the invariant, which only its own steps can disturb.
Kept(c) == /\ Active(c) => CallerInv(c)
           /\ Settled(c)
           /\ \A i \in DOMAIN out[c] :
                out[c][i] # Untouched => out[c][i] = Exact(c, req[c], i)

LEMMA KeptNow ==
  ASSUME RiskInv, SoleUsers, NEW c \in Callers, Active(c)
  PROVE  /\ LockInv(c) /\ LoopInv(c) /\ BumpInv(c) /\ SeenInv(c) /\ PriceInv(c)
         /\ Kept(c)
BY Unarmed DEF RiskInv, CallerInv, Settled, OutExact, Kept

\* Ending the call off the guard, or entering the loop for the next target.
LEMMA EndKept ==
  ASSUME RiskInv, SoleUsers, NEW c \in Callers, NEW st, Return(c, st),
         req' = req, bumps'[CurveOf(c)] = Unbumped,
         \A i \in DOMAIN out'[c] :
           out'[c][i] # Untouched => out'[c][i] = Exact(c, req[c], i)
  PROVE  Kept(c)'
<1>1. ~Active(c)'
  BY DEF RiskInv, TypeOK, Return, Active
<1>2. QED
  BY <1>1 DEF Kept, Settled, CurveOf, Exact

LEMMA BucketKept ==
  ASSUME RiskInv, SoleUsers, NEW c \in Callers, NEW i \in Nat \ {0},
         Active(c), EnterBucket(c, i), req' = req,
         bumps'[CurveOf(c)] = Unbumped, seen'[c] = <<>>,
         price'[c]["base"] = [f \in 1..NFlows |-> Unbumped],
         Len(out'[c]) = Len(out[c]),
         \A j \in DOMAIN out'[c] :
           out'[c][j] # Untouched => out'[c][j] = Exact(c, req[c], j)
  PROVE  Kept(c)'
<1>1. CASE i > Len(req[c].targets) \/ req[c].targets[i] = Invalid
  BY <1>1, EndKept DEF EnterBucket
<1>2. CASE ~(i > Len(req[c].targets) \/ req[c].targets[i] = Invalid)
  <2>1. /\ pc'[c] = "bump" /\ side'[c] = "up" /\ bucket'[c] = i /\ Continue(c)
    BY <1>2 DEF EnterBucket, RiskInv, TypeOK
  <2>2. LockInv(c)'
    BY <2>1, KeptNow DEF LockInv, Continue, CurveOf
  <2>3. LoopInv(c)'
    <3>1. req[c].targets \in Seq(Targets)
      BY FreshType DEF RiskInv, TypeOK
    <3>2. i \in 1..Len(req[c].targets)
      BY <1>2, <3>1
    <3>3. QED
      BY <2>1, <3>2, KeptNow DEF LoopInv
  <2>4. BumpInv(c)' /\ ~Armed(c)'
    BY <2>1 DEF BumpInv, Armed
  <2>5. SeenInv(c)'
    BY BoundsAssumption DEF SeenInv
  <2>6. PriceInv(c)'
    <3>1. Done(c)' = {"base"}
      BY <2>1 DEF Done
    <3>2. Exact(c, req'[c], bucket'[c])["base"] = [f \in 1..NFlows |-> Unbumped]
      BY NoBump DEF Exact, Sides, Signed
    <3>3. QED
      BY <2>1, <3>1, <3>2 DEF PriceInv
  <2>7. Settled(c)'
    BY DEF Settled, CurveOf
  <2>8. QED
    BY <2>2, <2>3, <2>4, <2>5, <2>6, <2>7 DEF Kept, CallerInv
<1>3. QED
  BY <1>1, <1>2

LEMMA DiscountKept ==
  ASSUME RiskInv, SoleUsers, NEW c \in Callers, Discount(c)
  PROVE  Kept(c)'
<1>1. Active(c) /\ ~(pc[c] # "price")
  BY DEF Discount, Discounting, Active
<1>2. seen[c] \in Prices /\ bumps[CurveOf(c)] = View(c)
  BY <1>1, SeesView DEF RiskInv, TypeOK
<1>3. /\ UNCHANGED <<bumps, req, pc, side, bucket, price, pending, out>>
      /\ seen'[c] = Append(seen[c], View(c)) /\ Continue(c)
  BY <1>2 DEF Discount, curveVars, seenVars, Observed, RiskInv, TypeOK
<1>4. View(c)' = View(c) /\ CurveOf(c)' = CurveOf(c) /\ Armed(c)' = Armed(c)
  BY <1>3 DEF View, CurveOf, Armed, Aim, Amount
<1>5. SeenInv(c)'
  <2>1. Len(seen'[c]) = Len(seen[c]) + 1
        /\ \A f \in 1..Len(seen'[c]) : seen'[c][f] = View(c)
    BY <1>1, <1>2, <1>3, KeptNow DEF Prices, SeenInv
  <2>2. QED
    BY <1>1, <1>3, <1>4, <2>1, BoundsAssumption DEF SeenInv, Discount, RiskInv, TypeOK, Prices
<1>6. LockInv(c)' /\ LoopInv(c)' /\ BumpInv(c)' /\ PriceInv(c)'
  <2>1. LockInv(c)'
    BY <1>1, <1>3, <1>4, KeptNow DEF LockInv, Continue
  <2>2. LoopInv(c)' /\ BumpInv(c)'
    BY <1>1, <1>3, <1>4, KeptNow DEF LoopInv, BumpInv
  <2>3. PriceInv(c)'
    BY <1>1, <1>3, KeptNow DEF PriceInv, Done
  <2>4. QED
    BY <2>1, <2>2, <2>3
<1>7. Settled(c)' /\ \A i \in DOMAIN out'[c] :
        out'[c][i] # Untouched => out'[c][i] = Exact(c, req'[c], i)
  BY <1>1, <1>3, <1>4, KeptNow DEF Kept, Settled
<1>8. QED
  BY <1>5, <1>6, <1>7 DEF Kept, CallerInv

\* A failed price ends the call, or goes through the guard with its status.
LEMMA PriceFailsKept ==
  ASSUME RiskInv, SoleUsers, NEW c \in Callers, NEW st, st # "OK",
         pc[c] = "price", PriceFails(c, st), seen'[c] = <<>>,
         UNCHANGED <<bumps, req, side, bucket, price, out>>
  PROVE  Kept(c)'
<1>1. Active(c)
  BY DEF Active
<1>2. CASE side[c] = "base"
  <2>1. Return(c, st) /\ bumps'[CurveOf(c)] = Unbumped
    BY <1>1, <1>2, Unarmed DEF PriceFails, Armed
  <2>2. QED
    BY <1>1, <2>1, EndKept, KeptNow DEF Kept
<1>3. CASE side[c] # "base"
  <2>1. pc'[c] = "reset" /\ pending'[c] = st /\ Continue(c)
    BY <1>3 DEF PriceFails, RiskInv, TypeOK
  <2>2. Armed(c) /\ Armed(c)' /\ View(c)' = View(c) /\ CurveOf(c)' = CurveOf(c)
    BY <1>3, <2>1 DEF Armed, View, CurveOf, Aim, Amount
  <2>3. Done(c)' = Done(c)
    BY <1>3, <2>1 DEF Done
  <2>4. LockInv(c)' /\ LoopInv(c)' /\ BumpInv(c)' /\ PriceInv(c)'
    <3>1. LockInv(c)'
      BY <1>1, <2>1, <2>2, KeptNow DEF LockInv, Continue
    <3>2. LoopInv(c)' /\ BumpInv(c)'
      BY <1>1, <2>1, <2>2, KeptNow DEF LoopInv, BumpInv
    <3>3. PriceInv(c)'
      BY <1>1, <1>3, <2>1, <2>3, KeptNow DEF PriceInv
    <3>4. QED
      BY <3>1, <3>2, <3>3
  <2>5. SeenInv(c)'
    BY <1>1, KeptNow, BoundsAssumption DEF SeenInv
  <2>6. QED
    BY <1>1, <2>2, <2>4, <2>5, KeptNow DEF Kept, CallerInv, Settled
<1>4. QED
  BY <1>2, <1>3

LEMMA BasePricedKept ==
  ASSUME RiskInv, SoleUsers, NEW c \in Callers, BasePriced(c)
  PROVE  Kept(c)'
<1>1. Active(c) /\ pc[c] = "price" /\ side[c] = "base" /\ ~Armed(c)
  BY DEF BasePriced, Discounting, Active, Armed
<1>2. bumps'[CurveOf(c)] = Unbumped /\ UNCHANGED <<req, out>> /\ seen'[c] = <<>>
  BY <1>1, Unarmed DEF BasePriced, curveVars, RiskInv, TypeOK
<1>3. price'[c]["base"] = [f \in 1..NFlows |-> Unbumped]
  <2>1. Observed(c) = Exact(c, req[c], bucket[c])["base"]
    BY <1>1, ObservedExact DEF BasePriced
  <2>2. Exact(c, req[c], bucket[c])["base"] = [f \in 1..NFlows |-> Unbumped]
    BY NoBump DEF Exact, Sides, Signed
  <2>3. price'[c]["base"] = Observed(c)
    BY DEF BasePriced, RiskInv, TypeOK, Sides
  <2>4. QED
    BY <2>1, <2>2, <2>3
<1>4. \A i \in DOMAIN out'[c] :
        out'[c][i] # Untouched => out'[c][i] = Exact(c, req[c], i)
  BY <1>1, <1>2, KeptNow DEF Kept
<1>5. CASE req[c].bond = "worthless"
  <2>1. Return(c, "BAD_ARG")
    BY <1>5 DEF BasePriced
  <2>2. QED
    BY <1>2, <1>4, <2>1, EndKept
<1>6. CASE req[c].bond # "worthless"
  <2>1. EnterBucket(c, 1)
    BY <1>6 DEF BasePriced
  <2>2. Len(out'[c]) = Len(out[c]) /\ 1 \in Nat \ {0} /\ req' = req
    BY <1>2
  <2>3. QED
    BY <1>1, <1>2, <1>3, <1>4, <2>1, <2>2, BucketKept
<1>7. QED
  BY <1>5, <1>6

LEMMA BumpedPricedKept ==
  ASSUME RiskInv, SoleUsers, NEW c \in Callers, BumpedPriced(c)
  PROVE  Kept(c)'
<1>1. Active(c) /\ pc[c] = "price" /\ side[c] # "base"
  BY DEF BumpedPriced, Discounting, Active
<1>2. /\ UNCHANGED <<bumps, req, side, bucket, out>> /\ Continue(c)
      /\ pc'[c] = "reset" /\ pending'[c] = "OK" /\ seen'[c] = <<>>
  BY DEF BumpedPriced, curveVars, seenVars, RiskInv, TypeOK
<1>3. View(c)' = View(c) /\ CurveOf(c)' = CurveOf(c) /\ Armed(c) /\ Armed(c)'
  BY <1>1, <1>2 DEF View, CurveOf, Armed, Aim, Amount
<1>4. LockInv(c)'
  BY <1>1, <1>2, <1>3, KeptNow DEF LockInv, Continue
<1>5. LoopInv(c)' /\ BumpInv(c)'
  BY <1>1, <1>2, <1>3, KeptNow DEF LoopInv, BumpInv
<1>6. SeenInv(c)'
  BY <1>2, BoundsAssumption DEF SeenInv
<1>7. PriceInv(c)'
  <2>1. price'[c] = [price[c] EXCEPT ![side[c]] = Observed(c)]
    BY DEF BumpedPriced, RiskInv, TypeOK
  <2>2. side[c] \in Sides /\ price[c] \in [Sides -> Prices]
    BY DEF RiskInv, TypeOK
  <2>3. price'[c][side[c]] = Exact(c, req[c], bucket[c])[side[c]]
    BY <1>1, <2>1, <2>2, ObservedExact DEF BumpedPriced
  <2>4. Done(c)' = Done(c) \cup {side[c]} /\ side[c] \notin Done(c)
    BY <1>1, <1>2, <2>2 DEF Done, Sides
  <2>5. \A s \in Done(c) : price'[c][s] = Exact(c, req[c], bucket[c])[s]
    BY <1>1, <2>1, <2>2, <2>4, KeptNow DEF PriceInv, Done, Sides
  <2>6. QED
    BY <1>1, <1>2, <2>3, <2>4, <2>5 DEF PriceInv
<1>8. QED
  BY <1>1, <1>2, <1>3, <1>4, <1>5, <1>6, <1>7, KeptNow DEF Kept, CallerInv, Settled

LEMMA BumpAcceptedKept ==
  ASSUME RiskInv, SoleUsers, NEW c \in Callers, BumpAccepted(c)
  PROVE  Kept(c)'
<1>1. Active(c) /\ pc[c] = "bump" /\ ~Armed(c)
  BY DEF BumpAccepted, Bumping, Active, Armed
<1>2. /\ UNCHANGED <<req, side, bucket, seen, price, pending, out>>
      /\ Continue(c) /\ pc'[c] = "price" /\ side[c] # "base" /\ seen[c] = <<>>
  BY <1>1, KeptNow DEF BumpAccepted, seenVars, RiskInv, TypeOK, SeenInv, PriceInv
<1>3. bumps'[CurveOf(c)] = View(c)
  <2>1. CurveOf(c) \in Curves /\ bumps[CurveOf(c)] = Unbumped
    BY <1>1, Unarmed, CurveOfType DEF RiskInv
  <2>2. QED
    BY <2>1 DEF BumpAccepted, View, RiskInv, TypeOK
<1>4. View(c)' = View(c) /\ CurveOf(c)' = CurveOf(c) /\ Armed(c)'
  BY <1>2 DEF View, CurveOf, Armed, Aim, Amount
<1>5. LockInv(c)'
  BY <1>1, <1>2, <1>4, KeptNow DEF LockInv, Continue
<1>6. LoopInv(c)' /\ BumpInv(c)'
  BY <1>1, <1>2, <1>3, <1>4, KeptNow DEF LoopInv, BumpInv
<1>7. SeenInv(c)'
  BY <1>2, BoundsAssumption DEF SeenInv
<1>8. PriceInv(c)'
  <2>1. Done(c)' = Done(c)
    BY <1>1, <1>2 DEF Done
  <2>2. QED
    BY <1>1, <1>2, <2>1, KeptNow DEF PriceInv
<1>9. QED
  BY <1>1, <1>2, <1>4, <1>5, <1>6, <1>7, <1>8, KeptNow DEF Kept, CallerInv, Settled

LEMMA BumpRefusedKept ==
  ASSUME RiskInv, SoleUsers, NEW c \in Callers, BumpRefused(c)
  PROVE  Kept(c)'
<1>1. Active(c) /\ ~Armed(c)
  BY DEF BumpRefused, Bumping, Active, Armed
<1>2. Return(c, "BAD_ARG") /\ UNCHANGED <<bumps, req, out>>
  BY DEF BumpRefused
<1>3. bumps[CurveOf(c)] = Unbumped
  BY <1>1, Unarmed
<1>4. QED
  BY <1>1, <1>2, <1>3, EndKept, KeptNow DEF Kept

\* A reset that does not fail restores the curve.
LEMMA HonestReset ==
  ASSUME TypeOK, HonestCurves, NEW c \in Callers, ResetCallback(c)
  PROVE  bumps'[CurveOf(c)] = Unbumped
<1>1. "resetFails" \notin Faults
  BY DEF HonestCurves
<1>2. QED
  BY <1>1, CurveOfType DEF ResetCallback, TypeOK

LEMMA ResetUnwindingKept ==
  ASSUME RiskInv, HonestCurves, SoleUsers, NEW c \in Callers, ResetUnwinding(c)
  PROVE  Kept(c)'
<1>1. Active(c)
  BY DEF ResetUnwinding, Resetting, Active
<1>2. Return(c, pending[c]) /\ UNCHANGED <<req, out>>
  BY DEF ResetUnwinding
<1>3. bumps'[CurveOf(c)] = Unbumped
  BY HonestReset DEF ResetUnwinding, RiskInv
<1>4. QED
  BY <1>1, <1>2, <1>3, EndKept, KeptNow DEF Kept

LEMMA ResetAfterUpKept ==
  ASSUME RiskInv, HonestCurves, SoleUsers, NEW c \in Callers, ResetAfterUp(c)
  PROVE  Kept(c)'
<1>1. Active(c) /\ pc[c] = "reset" /\ pending[c] = "OK" /\ side[c] = "up"
  BY DEF ResetAfterUp, Resetting, Active
<1>2. /\ UNCHANGED <<req, bucket, seen, price, pending, out>> /\ Continue(c)
      /\ pc'[c] = "bump" /\ side'[c] = "down"
  BY DEF ResetAfterUp, seenVars, RiskInv, TypeOK
<1>3. bumps'[CurveOf(c)] = Unbumped
  BY HonestReset DEF ResetAfterUp, RiskInv
<1>4. CurveOf(c)' = CurveOf(c) /\ ~Armed(c)'
  BY <1>2 DEF CurveOf, Armed
<1>5. LockInv(c)'
  BY <1>1, <1>2, <1>4, KeptNow DEF LockInv, Continue
<1>6. LoopInv(c)' /\ BumpInv(c)'
  BY <1>1, <1>2, <1>4, KeptNow DEF LoopInv, BumpInv
<1>7. SeenInv(c)'
  BY <1>1, <1>2, KeptNow, BoundsAssumption DEF SeenInv
<1>8. PriceInv(c)'
  <2>1. Done(c)' = Done(c)
    BY <1>1, <1>2 DEF Done
  <2>2. QED
    BY <1>1, <1>2, <2>1, KeptNow DEF PriceInv
<1>9. QED
  BY <1>1, <1>2, <1>3, <1>4, <1>5, <1>6, <1>7, <1>8, KeptNow
  DEF Kept, CallerInv, Settled

LEMMA ResetAfterDownKept ==
  ASSUME RiskInv, HonestCurves, SoleUsers, NEW c \in Callers, ResetAfterDown(c)
  PROVE  Kept(c)'
<1>1. Active(c) /\ pc[c] = "reset" /\ pending[c] = "OK" /\ side[c] = "down"
  BY DEF ResetAfterDown, Resetting, Active
<1>2. /\ req' = req /\ seen' = seen /\ price' = price
      /\ out'[c] = [out[c] EXCEPT ![bucket[c]] = price[c]]
      /\ EnterBucket(c, bucket[c] + 1)
      /\ bucket[c] \in Nat \ {0} /\ out[c] \in Seq([Sides -> Prices] \cup {Untouched})
      /\ price[c] \in [Sides -> Prices]
  BY DEF ResetAfterDown, RiskInv, TypeOK
<1>3. bumps'[CurveOf(c)] = Unbumped
  BY HonestReset DEF ResetAfterDown, RiskInv
<1>4. price[c] = Exact(c, req[c], bucket[c])
  <2>1. Done(c) = Sides
    BY <1>1 DEF Done, Sides
  <2>2. \A s \in Sides : price[c][s] = Exact(c, req[c], bucket[c])[s]
    BY <1>1, <2>1, KeptNow DEF PriceInv
  <2>3. QED
    BY <1>2, <2>2 DEF Exact
<1>5. seen'[c] = <<>>
  BY <1>1, <1>2, KeptNow DEF SeenInv
<1>6. price'[c]["base"] = [f \in 1..NFlows |-> Unbumped]
  BY <1>2, <1>4, NoBump DEF Exact, Sides, Signed
<1>7. Len(out'[c]) = Len(out[c]) /\ DOMAIN out'[c] = DOMAIN out[c]
  <2>1. price[c] \in [Sides -> Prices] \cup {Untouched}
    BY <1>2
  <2>2. QED
    BY <1>2, <2>1, SeqExcept
<1>8. \A j \in DOMAIN out'[c] :
        out'[c][j] # Untouched => out'[c][j] = Exact(c, req[c], j)
  BY <1>1, <1>2, <1>4, <1>7, KeptNow DEF Kept
<1> DEFINE next == bucket[c] + 1
<1>9. next \in Nat \ {0} /\ EnterBucket(c, next)
  BY <1>2
<1> HIDE DEF next
<1>10. QED
  BY <1>1, <1>2, <1>3, <1>5, <1>6, <1>7, <1>8, <1>9, BucketKept

\* No step of a call in flight, on honest curves, breaks its own invariant.
LEMMA StepKept ==
  ASSUME RiskInv, HonestCurves, SoleUsers, NEW c \in Callers, Step(c)
  PROVE  Kept(c)'
<1>1. CASE Discount(c)
  BY <1>1, DiscountKept
<1>2. CASE DiscountFails(c)
  <2>1. pc[c] = "price" /\ seen'[c] = <<>>
    BY <1>2 DEF DiscountFails, Discounting, RiskInv, TypeOK
  <2>2. QED
    BY <1>2, <2>1, PriceFailsKept DEF DiscountFails
<1>3. CASE AccruedFails(c)
  <2>1. pc[c] = "price" /\ seen'[c] = <<>>
    BY <1>3 DEF AccruedFails, Discounting, RiskInv, TypeOK
  <2>2. QED
    BY <1>3, <2>1, PriceFailsKept DEF AccruedFails, curveVars
<1>4. CASE BumpTorn(c)
  BY <1>4 DEF BumpTorn, HonestCurves
<1>5. QED
  BY <1>1, <1>2, <1>3, <1>4, BasePricedKept, BumpedPricedKept, BumpAcceptedKept,
     BumpRefusedKept, ResetUnwindingKept, ResetAfterUpKept, ResetAfterDownKept,
     Step(c) DEF Step

------------------------------------------------------------------------------
(* The other callers, and the invariant.                                    *)

\* A step of one caller disturbs nobody else's invariant: the others in flight
\* are on other curves, and none of them holds the lock.
LEMMA OthersKept ==
  ASSUME RiskInv, SoleUsers, NEW c \in Callers, Step(c),
         NEW d \in Callers, d # c, Active(d)
  PROVE  CallerInv(d)' /\ Armed(d)' = Armed(d) /\ CurveOf(d)' = CurveOf(d)
<1>1. /\ req' = req /\ pc'[d] = pc[d] /\ side'[d] = side[d]
      /\ bucket'[d] = bucket[d] /\ seen'[d] = seen[d] /\ price'[d] = price[d]
      /\ pending'[d] = pending[d] /\ out'[d] = out[d]
      /\ Active(c) /\ MayRun(c)
  BY Frame DEF RiskInv
<1>2. bumps'[CurveOf(d)] = bumps[CurveOf(d)]
  BY <1>1, Frame, Exclusive, CurveOfType DEF RiskInv
<1>3. View(d)' = View(d) /\ CurveOf(d)' = CurveOf(d) /\ Armed(d)' = Armed(d)
      /\ Done(d)' = Done(d)
  BY <1>1 DEF View, CurveOf, Armed, Aim, Amount, Done
<1>4. CurveOf(d) \in Yields
  BY <1>1, KeptNow, CallersAssumption DEF LockInv, MayRun
<1>5. LockInv(d)'
  BY <1>3, <1>4, KeptNow DEF LockInv
<1>6. LoopInv(d)' /\ BumpInv(d)'
  BY <1>1, <1>2, <1>3, KeptNow DEF LoopInv, BumpInv
<1>7. SeenInv(d)'
  BY <1>1, <1>3, KeptNow DEF SeenInv
<1>8. PriceInv(d)'
  BY <1>1, <1>3, KeptNow DEF PriceInv
<1>9. QED
  BY <1>3, <1>5, <1>6, <1>7, <1>8 DEF CallerInv

LEMMA StepInv ==
  ASSUME RiskInv, HonestCurves, SoleUsers, NEW c \in Callers, Step(c)
  PROVE  RiskInv'
<1>1. TypeOK' /\ Kept(c)' /\ CurveOf(c)' = CurveOf(c) /\ CurveOf(c) \in Curves
  BY StepType, StepKept, Frame, CurveOfType DEF RiskInv, CurveOf
<1>2. ASSUME NEW d \in Callers, Active(d)'
      PROVE  CallerInv(d)'
  <2>1. CASE d = c
    BY <1>1, <1>2, <2>1 DEF Kept
  <2>2. CASE d # c
    BY <1>2, <2>2, OthersKept, Frame DEF Active, RiskInv
  <2>3. QED
    BY <2>1, <2>2
<1>3. CurveRestored'
  <2> SUFFICES ASSUME NEW cv \in Curves, bumps'[cv] # Unbumped
               PROVE  \E d \in Callers : Armed(d)' /\ CurveOf(d)' = cv
    BY DEF CurveRestored, Unbumped
  <2>1. CASE cv = CurveOf(c)
    BY <1>1, <2>1 DEF Kept, Settled
  <2>2. CASE cv # CurveOf(c)
    <3>1. bumps[cv] # Unbumped
      BY <2>2, Frame DEF RiskInv
    <3>2. PICK d \in Callers : Armed(d) /\ CurveOf(d) = cv
      BY <3>1 DEF RiskInv, CurveRestored
    <3>3. d # c /\ Active(d)
      BY <2>2, <3>2 DEF Armed, Active
    <3>4. QED
      BY <3>2, <3>3, OthersKept
  <2>3. QED
    BY <2>1, <2>2
<1>4. OutExact'
  <2> SUFFICES ASSUME NEW d \in Callers
               PROVE  \A i \in DOMAIN out'[d] : out'[d][i] # Untouched =>
                        out'[d][i] = Exact(d, req'[d], i)
    BY DEF OutExact, Exact
  <2>1. CASE d = c
    BY <1>1, <2>1 DEF Kept, Exact
  <2>2. CASE d # c
    BY <2>2, Frame DEF RiskInv, OutExact
  <2>3. QED
    BY <2>1, <2>2
<1>5. QED
  BY <1>1, <1>2, <1>3, <1>4 DEF RiskInv

LEMMA CallInv ==
  ASSUME RiskInv, NEW c \in Callers, NEW r \in Requests, Refuse(c, r) \/ Start(c, r)
  PROVE  RiskInv'
<1>1. /\ TypeOK' /\ ~Active(c) /\ MayRun(c) /\ c \in Users[r.curve]
      /\ bumps' = bumps /\ req' = [req EXCEPT ![c] = r]
      /\ out' = [out EXCEPT ![c] = Fresh(r)]
  BY CallType DEF Refuse, Start, CanCall, Active, RiskInv, curveVars
<1>2. \A d \in Callers \ {c} :
        /\ req'[d] = req[d] /\ pc'[d] = pc[d] /\ side'[d] = side[d]
        /\ bucket'[d] = bucket[d] /\ seen'[d] = seen[d] /\ price'[d] = price[d]
        /\ pending'[d] = pending[d] /\ out'[d] = out[d]
  BY DEF Refuse, Start, RiskInv, TypeOK
<1>3. req'[c] = r /\ out'[c] = Fresh(r)
  BY <1>1 DEF RiskInv, TypeOK
<1>4. ASSUME NEW d \in Callers, d # c, Active(d)
      PROVE  CallerInv(d)' /\ Armed(d)' = Armed(d) /\ CurveOf(d)' = CurveOf(d)
  <2>1. View(d)' = View(d) /\ CurveOf(d)' = CurveOf(d) /\ Armed(d)' = Armed(d)
        /\ Done(d)' = Done(d)
    BY <1>2, <1>4 DEF View, CurveOf, Armed, Aim, Amount, Done
  <2>2. LockInv(d) /\ LoopInv(d) /\ BumpInv(d) /\ SeenInv(d) /\ PriceInv(d)
    BY <1>4 DEF RiskInv, CallerInv
  <2>3. CurveOf(d) \in Yields
    BY <1>1, <1>4, <2>2, CallersAssumption DEF LockInv, MayRun
  <2>4. LockInv(d)'
    BY <2>1, <2>2, <2>3 DEF LockInv
  <2>5. LoopInv(d)' /\ BumpInv(d)'
    BY <1>1, <1>2, <1>4, <2>1, <2>2 DEF LoopInv, BumpInv
  <2>6. SeenInv(d)'
    BY <1>2, <1>4, <2>1, <2>2 DEF SeenInv
  <2>7. PriceInv(d)'
    BY <1>2, <1>4, <2>1, <2>2 DEF PriceInv
  <2>8. QED
    BY <2>1, <2>4, <2>5, <2>6, <2>7 DEF CallerInv
<1>5. ASSUME Active(c)' PROVE CallerInv(c)'
  <2>1. Start(c, r)
    BY <1>1, <1>5 DEF Refuse, Active
  <2>2. /\ pc'[c] = "price" /\ side'[c] = "base" /\ bucket'[c] = 1
        /\ seen'[c] = <<>> /\ pending'[c] = "OK" /\ r.targets # <<>>
        /\ holder' = IF r.curve \in Yields THEN NoCaller ELSE c
    BY <2>1 DEF Start, RiskInv, TypeOK
  <2>3. LockInv(c)' /\ BumpInv(c)'
    BY <1>1, <1>3, <2>2 DEF LockInv, BumpInv, CurveOf, Armed
  <2>4. LoopInv(c)'
    BY <1>3, <2>2, FreshType DEF LoopInv
  <2>5. SeenInv(c)'
    BY <2>2, BoundsAssumption DEF SeenInv
  <2>6. PriceInv(c)'
    BY <2>2 DEF PriceInv, Done
  <2>7. QED
    BY <2>3, <2>4, <2>5, <2>6 DEF CallerInv
<1>6. CurveRestored'
  <2> SUFFICES ASSUME NEW cv \in Curves, bumps'[cv] # Unbumped
               PROVE  \E d \in Callers : Armed(d)' /\ CurveOf(d)' = cv
    BY DEF CurveRestored, Unbumped
  <2>1. PICK d \in Callers : Armed(d) /\ CurveOf(d) = cv
    BY <1>1 DEF RiskInv, CurveRestored
  <2>2. d # c /\ Active(d)
    BY <1>1, <2>1 DEF Armed, Active
  <2>3. QED
    BY <1>4, <2>1, <2>2
<1>7. OutExact'
  <2> SUFFICES ASSUME NEW d \in Callers
               PROVE  \A i \in DOMAIN out'[d] : out'[d][i] # Untouched =>
                        out'[d][i] = Exact(d, req'[d], i)
    BY DEF OutExact, Exact
  <2>1. CASE d = c
    BY <1>3, <2>1, FreshType
  <2>2. CASE d # c
    BY <1>2, <2>2 DEF RiskInv, OutExact
  <2>3. QED
    BY <2>1, <2>2
<1>8. QED
  BY <1>1, <1>2, <1>4, <1>5, <1>6, <1>7 DEF RiskInv, Active

\* On honest curves, each yielding one held by one caller only, the inductive
\* invariant holds of every behaviour: for any callers, curves and requests.
THEOREM RiskInvariant == HonestCurves /\ SoleUsers /\ Spec => []RiskInv
<1> SUFFICES ASSUME HonestCurves, SoleUsers PROVE Spec => []RiskInv
  BY DEF HonestCurves, SoleUsers
<1>1. Init => RiskInv
  <2>1. Init => TypeOK
    BY UnbumpedType DEF Init, TypeOK, Prices, Sides, Statuses
  <2>2. QED
    BY <2>1 DEF Init, RiskInv, Active, CurveRestored, OutExact
<1>2. RiskInv /\ [Next]_vars => RiskInv'
  <2>1. ASSUME RiskInv, NEW c \in Callers, Call(c) \/ Step(c)
        PROVE  RiskInv'
    BY <2>1, StepInv, CallInv DEF Call
  <2>2. ASSUME RiskInv, UNCHANGED vars
        PROVE  RiskInv'
    BY <2>2 DEF RiskInv, vars, curveVars, callVars, seenVars, TypeOK, Active,
       CallerInv, LockInv, LoopInv, BumpInv, SeenInv, PriceInv, Done, Armed, View,
       Aim, Amount, CurveOf, CurveRestored, OutExact
  <2>3. QED
    BY <2>1, <2>2 DEF Next
<1>3. QED
  BY <1>1, <1>2, PTL DEF Spec

\* Every number written is the one a private copy of the curve would give.
THEOREM ResultsExact == HonestCurves /\ SoleUsers /\ Spec => []OutExact
<1>1. RiskInv => OutExact
  BY DEF RiskInv
<1>2. QED
  BY <1>1, RiskInvariant, PTL
------------------------------------------------------------------------------
(* What a call tells its caller is true, and only curves that can be put    *)
(* back are bumped: whether curves are shared or not, and however their     *)
(* callbacks fail.                                                          *)

\* A call in flight has passed its entry checks.
Admitted(c) ==
  pc[c] # "idle" => /\ req[c] \in Requests
                    /\ EntryStatus(req[c]) = "OK"
                    /\ req[c].targets # <<>>

\* Its out-parameters are written up to the target under way, and not beyond.
WrittenSoFar(c) ==
  /\ Len(out[c]) = Len(req[c].targets)
  /\ pc[c] # "idle" =>
       /\ bucket[c] \in 1..Len(out[c])
       /\ side[c] = "base" => bucket[c] = 1
       /\ \A i \in DOMAIN out[c] : out[c][i] # Untouched <=> i < bucket[c]

\* A call that is over has told what it did.
ToldRight(c) ==
  /\ \A i, j \in DOMAIN out[c] :
       i < j /\ out[c][j] # Untouched => out[c][i] # Untouched
  /\ pc[c] = "idle" =>
       /\ status[c] = "OK" => \A i \in DOMAIN out[c] : out[c][i] # Untouched
       /\ status[c] # "OK" /\ out[c] # <<>> => out[c][Len(out[c])] = Untouched
       /\ req[c].nul # "ctx" => last[c] = status[c]
  /\ pc[c] # "idle" => last[c] = "OK"

StatusInv == /\ TypeOK
             /\ \A c \in Callers : Admitted(c) /\ WrittenSoFar(c) /\ ToldRight(c)

------------------------------------------------------------------------------
(* How a call ends.                                                         *)

\* A call that fails leaves the target under way unwritten.
LEMMA FailureTold ==
  ASSUME StatusInv, NEW c \in Callers, NEW st, st # "OK", pc[c] # "idle",
         Return(c, st), req' = req, out' = out
  PROVE  Admitted(c)' /\ WrittenSoFar(c)' /\ ToldRight(c)'
<1>1. /\ pc'[c] = "idle" /\ status'[c] = st /\ last'[c] = st
  BY DEF StatusInv, TypeOK, Return
<1>2. /\ DOMAIN out[c] = 1..Len(out[c]) /\ Len(out[c]) \in Nat
      /\ bucket[c] \in 1..Len(out[c])
      /\ \A i \in DOMAIN out[c] : out[c][i] # Untouched <=> i < bucket[c]
  BY DEF StatusInv, TypeOK, WrittenSoFar
<1>3. out[c][Len(out[c])] = Untouched
  BY <1>2
<1>4. QED
  BY <1>1, <1>3 DEF StatusInv, Admitted, WrittenSoFar, ToldRight

\* A call that goes on, with nothing written and the same target under way.
LEMMA GoesOn ==
  ASSUME StatusInv, NEW c \in Callers, pc[c] # "idle", pc'[c] # "idle",
         req' = req, out' = out, last' = last, bucket'[c] = bucket[c],
         side'[c] = "base" => side[c] = "base"
  PROVE  Admitted(c)' /\ WrittenSoFar(c)' /\ ToldRight(c)'
BY DEF StatusInv, Admitted, WrittenSoFar, ToldRight

\* The head of the loop, with the results of all earlier targets written.
LEMMA NextTarget ==
  ASSUME StatusInv, NEW c \in Callers, NEW i \in Nat \ {0}, pc[c] # "idle",
         EnterBucket(c, i), req' = req,
         Len(out'[c]) = Len(out[c]), DOMAIN out'[c] = DOMAIN out[c],
         \A j \in DOMAIN out'[c] : out'[c][j] # Untouched <=> j < i
  PROVE  Admitted(c)' /\ WrittenSoFar(c)' /\ ToldRight(c)'
<1> DEFINE n == Len(req[c].targets)
<1>1. out[c] \in Seq([Sides -> Prices] \cup {Untouched})
      /\ req[c].targets \in Seq(Targets) /\ req[c].targets # <<>>
  BY FreshType DEF StatusInv, TypeOK, Admitted
<1>2. n \in Nat \ {0} /\ DOMAIN out'[c] = 1..n /\ Len(out'[c]) = n
  BY <1>1 DEF StatusInv, WrittenSoFar
<1>3. \A j, k \in DOMAIN out'[c] :
        j < k /\ out'[c][k] # Untouched => out'[c][j] # Untouched
  BY <1>2
<1>4. CASE i > n
  <2>0. last[c] = "OK"
    BY DEF StatusInv, ToldRight
  <2>1. pc'[c] = "idle" /\ status'[c] = "OK" /\ last'[c] = "OK"
    BY <1>4, <2>0 DEF EnterBucket, Return, StatusInv, TypeOK
  <2>2. \A j \in DOMAIN out'[c] : out'[c][j] # Untouched
    BY <1>2, <1>4
  <2>3. QED
    BY <1>2, <1>3, <2>1, <2>2 DEF Admitted, WrittenSoFar, ToldRight
<1>5. CASE i <= n /\ req[c].targets[i] = Invalid
  <2>1. pc'[c] = "idle" /\ status'[c] = "BAD_ARG" /\ last'[c] = "BAD_ARG"
    BY <1>2, <1>5 DEF EnterBucket, Return, StatusInv, TypeOK
  <2>2. out'[c][n] = Untouched
    BY <1>2, <1>5
  <2>3. QED
    BY <1>2, <1>3, <2>1, <2>2 DEF Admitted, WrittenSoFar, ToldRight
<1>6. CASE i <= n /\ req[c].targets[i] # Invalid
  <2>1. /\ pc'[c] = "bump" /\ side'[c] = "up" /\ bucket'[c] = i
        /\ last'[c] = "OK"
    BY <1>2, <1>6 DEF EnterBucket, StatusInv, ToldRight, TypeOK
  <2>2. Admitted(c)'
    BY DEF Admitted, StatusInv
  <2>3. QED
    BY <1>2, <1>3, <1>6, <2>1, <2>2 DEF WrittenSoFar, ToldRight
<1>7. QED
  BY <1>2, <1>4, <1>5, <1>6

------------------------------------------------------------------------------
(* Its own steps.                                                           *)

LEMMA PriceFailsTold ==
  ASSUME StatusInv, NEW c \in Callers, NEW st, st # "OK", pc[c] = "price",
         PriceFails(c, st), UNCHANGED <<req, side, bucket, out>>
  PROVE  Admitted(c)' /\ WrittenSoFar(c)' /\ ToldRight(c)'
<1>1. CASE side[c] = "base"
  BY <1>1, FailureTold DEF PriceFails
<1>2. CASE side[c] # "base"
  <2>1. pc'[c] = "reset" /\ last' = last
    BY <1>2 DEF PriceFails, StatusInv, TypeOK
  <2>2. QED
    BY <2>1, GoesOn
<1>3. QED
  BY <1>1, <1>2

\* The base price comes before the first target, when nothing is written.
LEMMA BasePricedTold ==
  ASSUME StatusInv, NEW c \in Callers, BasePriced(c)
  PROVE  Admitted(c)' /\ WrittenSoFar(c)' /\ ToldRight(c)'
<1>1. pc[c] = "price" /\ bucket[c] = 1 /\ req' = req /\ out' = out
  BY DEF BasePriced, Discounting, StatusInv, WrittenSoFar
<1>2. CASE req[c].bond = "worthless"
  BY <1>1, <1>2, FailureTold DEF BasePriced
<1>3. CASE req[c].bond # "worthless"
  <2>1. EnterBucket(c, 1)
    BY <1>3 DEF BasePriced
  <2>2. \A j \in DOMAIN out'[c] : out'[c][j] # Untouched <=> j < 1
    BY <1>1 DEF StatusInv, WrittenSoFar
  <2>3. QED
    BY <1>1, <2>1, <2>2, NextTarget
<1>4. QED
  BY <1>2, <1>3

\* The down price of a target is in: its result is written, then the next.
LEMMA ResetAfterDownTold ==
  ASSUME StatusInv, NEW c \in Callers, ResetAfterDown(c)
  PROVE  Admitted(c)' /\ WrittenSoFar(c)' /\ ToldRight(c)'
<1> DEFINE b == bucket[c]
           next == b + 1
<1>1. /\ pc[c] # "idle" /\ req' = req /\ EnterBucket(c, next)
      /\ out'[c] = [out[c] EXCEPT ![b] = price[c]]
  BY DEF ResetAfterDown, Resetting, StatusInv, TypeOK
<1>2. /\ out[c] \in Seq([Sides -> Prices] \cup {Untouched})
      /\ price[c] \in [Sides -> Prices] /\ price[c] # Untouched
  BY UntouchedAssumption DEF StatusInv, TypeOK
<1>3. /\ b \in 1..Len(out[c]) /\ b \in Nat \ {0} /\ next \in Nat \ {0}
      /\ \A i \in DOMAIN out[c] : out[c][i] # Untouched <=> i < b
  BY <1>1, <1>2 DEF StatusInv, WrittenSoFar
<1>4. Len(out'[c]) = Len(out[c]) /\ DOMAIN out'[c] = DOMAIN out[c]
  BY <1>1, <1>2, SeqExcept
<1>5. \A j \in DOMAIN out'[c] : out'[c][j] # Untouched <=> j < next
  BY <1>1, <1>2, <1>3, <1>4
<1> HIDE DEF next
<1>6. QED
  BY <1>1, <1>3, <1>4, <1>5, NextTarget

LEMMA StepTold ==
  ASSUME StatusInv, NEW c \in Callers, Step(c)
  PROVE  Admitted(c)' /\ WrittenSoFar(c)' /\ ToldRight(c)'
<1> USE DEF curveVars, seenVars
<1>0. TypeOK
  BY DEF StatusInv
<1>1. CASE Discount(c)
  BY <1>0, <1>1, GoesOn DEF Discount, Discounting
<1>2. CASE DiscountFails(c)
  BY <1>2, PriceFailsTold DEF DiscountFails, Discounting
<1>3. CASE AccruedFails(c)
  BY <1>3, PriceFailsTold DEF AccruedFails, Discounting
<1>4. CASE BumpedPriced(c)
  <2>1. pc[c] # "idle" /\ pc'[c] = "reset"
    BY <1>0, <1>4 DEF BumpedPriced, Discounting, TypeOK
  <2>2. QED
    BY <1>4, <2>1, GoesOn DEF BumpedPriced
<1>5. CASE BumpAccepted(c)
  <2>1. pc[c] # "idle" /\ pc'[c] = "price"
    BY <1>0, <1>5 DEF BumpAccepted, Bumping, TypeOK
  <2>2. QED
    BY <1>5, <2>1, GoesOn DEF BumpAccepted
<1>6. CASE BumpRefused(c)
  BY <1>6, FailureTold DEF BumpRefused, Bumping
<1>7. CASE BumpTorn(c)
  BY <1>7, FailureTold DEF BumpTorn, Bumping
<1>8. CASE ResetUnwinding(c)
  BY <1>8, FailureTold DEF ResetUnwinding, Resetting
<1>9. CASE ResetAfterUp(c)
  <2>1. pc[c] # "idle" /\ pc'[c] = "bump" /\ side'[c] = "down"
    BY <1>0, <1>9 DEF ResetAfterUp, Resetting, TypeOK
  <2>2. QED
    BY <1>9, <2>1, GoesOn DEF ResetAfterUp
<1>10. QED
  BY <1>1, <1>2, <1>3, <1>4, <1>5, <1>6, <1>7, <1>8, <1>9, BasePricedTold,
     ResetAfterDownTold, Step(c) DEF Step

\* A new call has everything still to tell, unless it is over at once.
LEMMA CallTold ==
  ASSUME StatusInv, NEW c \in Callers, NEW r \in Requests,
         Refuse(c, r) \/ Start(c, r)
  PROVE  Admitted(c)' /\ WrittenSoFar(c)' /\ ToldRight(c)'
<1>1. /\ r.targets \in Seq(Targets)
      /\ Fresh(r) \in Seq([Sides -> Prices] \cup {Untouched})
      /\ Len(Fresh(r)) = Len(r.targets)
      /\ \A i \in DOMAIN Fresh(r) : Fresh(r)[i] = Untouched
  BY FreshType
<1>2. pc[c] = "idle" /\ req'[c] = r /\ out'[c] = Fresh(r)
  BY DEF Refuse, Start, CanCall, StatusInv, TypeOK
<1>3. CASE Refuse(c, r)
  <2>1. /\ pc'[c] = "idle" /\ status'[c] = EntryStatus(r)
        /\ r.nul # "ctx" => last'[c] = EntryStatus(r)
        /\ EntryStatus(r) # "OK" \/ r.targets = <<>>
    BY <1>2, <1>3 DEF Refuse, StatusInv, TypeOK
  <2>2. status'[c] = "OK" => DOMAIN out'[c] = {}
    BY <1>1, <1>2, <2>1
  <2>3. status'[c] # "OK" /\ out'[c] # <<>> => out'[c][Len(out'[c])] = Untouched
    BY <1>1, <1>2
  <2>4. QED
    BY <1>1, <1>2, <2>1, <2>2, <2>3 DEF Admitted, WrittenSoFar, ToldRight
<1>4. CASE Start(c, r)
  <2>1. /\ pc'[c] = "price" /\ bucket'[c] = 1 /\ last'[c] = "OK"
        /\ EntryStatus(r) = "OK" /\ r.targets # <<>>
    BY <1>4 DEF Start, StatusInv, TypeOK
  <2>2. 1 \in 1..Len(out'[c]) /\ \A i \in DOMAIN out'[c] : ~(i < 1)
    BY <1>1, <1>2, <2>1
  <2>3. QED
    BY <1>1, <1>2, <2>1, <2>2 DEF Admitted, WrittenSoFar, ToldRight
<1>5. QED
  BY <1>3, <1>4

------------------------------------------------------------------------------
(* The invariant: a caller's steps touch nothing it has told the others.    *)

LEMMA Private ==
  ASSUME StatusInv, NEW c \in Callers, Call(c) \/ Step(c),
         NEW d \in Callers, d # c
  PROVE  /\ req'[d] = req[d] /\ pc'[d] = pc[d] /\ side'[d] = side[d]
         /\ bucket'[d] = bucket[d] /\ out'[d] = out[d]
         /\ status'[d] = status[d] /\ last'[d] = last[d]
<1> USE DEF TypeOK, curveVars, seenVars, Return, PriceFails
<1>0. TypeOK
  BY DEF StatusInv
<1>1. CASE Call(c)
  BY <1>0, <1>1 DEF Call, Refuse, Start
<1>2. CASE Discount(c) \/ DiscountFails(c) \/ AccruedFails(c) \/ BumpedPriced(c)
  BY <1>0, <1>2 DEF Discount, DiscountFails, AccruedFails, BumpedPriced
<1>3. CASE BasePriced(c)
  BY <1>0, <1>3 DEF BasePriced, EnterBucket
<1>4. CASE BumpAccepted(c) \/ BumpRefused(c) \/ BumpTorn(c)
  BY <1>0, <1>4 DEF BumpAccepted, BumpRefused, BumpTorn
<1>5. CASE ResetUnwinding(c) \/ ResetAfterUp(c)
  BY <1>0, <1>5 DEF ResetUnwinding, ResetAfterUp
<1>6. CASE ResetAfterDown(c)
  BY <1>0, <1>6 DEF ResetAfterDown, EnterBucket
<1>7. QED
  BY <1>1, <1>2, <1>3, <1>4, <1>5, <1>6 DEF Step

\* Whatever callbacks do, calls in flight are admitted ones, and what a call
\* has written and returned goes together.
THEOREM StatusInvariant == Spec => []StatusInv
<1>1. Init => StatusInv
  <2>1. Init => TypeOK
    BY UnbumpedType DEF Init, TypeOK, Prices, Sides, Statuses
  <2>2. QED
    BY <2>1 DEF Init, StatusInv, Admitted, WrittenSoFar, ToldRight, NoRequest
<1>2. StatusInv /\ [Next]_vars => StatusInv'
  <2>1. ASSUME StatusInv, NEW c \in Callers, Call(c) \/ Step(c)
        PROVE  StatusInv'
    <3>1. TypeOK'
      BY <2>1, StepType, CallType DEF Call, StatusInv
    <3>2. Admitted(c)' /\ WrittenSoFar(c)' /\ ToldRight(c)'
      BY <2>1, StepTold, CallTold DEF Call
    <3>3. ASSUME NEW d \in Callers, d # c
          PROVE  Admitted(d)' /\ WrittenSoFar(d)' /\ ToldRight(d)'
      BY <2>1, <3>3, Private DEF StatusInv, Admitted, WrittenSoFar, ToldRight
    <3>4. QED
      BY <3>1, <3>2, <3>3 DEF StatusInv
  <2>2. ASSUME StatusInv, UNCHANGED vars
        PROVE  StatusInv'
    BY <2>2 DEF StatusInv, vars, curveVars, callVars, seenVars, TypeOK, Admitted,
       WrittenSoFar, ToldRight
  <2>3. QED
    BY <2>1, <2>2 DEF Next
<1>3. QED
  BY <1>1, <1>2, PTL DEF Spec

\* A call that returned FIR_OK wrote every result; one that failed did not.
THEOREM OutMatches == Spec => []OutMatchesStatus
<1>1. StatusInv => OutMatchesStatus
  BY DEF StatusInv, ToldRight, OutMatchesStatus
<1>2. QED
  BY <1>1, StatusInvariant, PTL

\* A context's last status is what the call on it returned, once it is over, and
\* clear while it runs: cleared on entry, set by a failure, left alone by a success.
THEOREM LastStatusIsFresh == Spec => []LastStatusFresh
<1>1. StatusInv => LastStatusFresh
  BY DEF StatusInv, ToldRight, LastStatusFresh
<1>2. QED
  BY <1>1, StatusInvariant, PTL

------------------------------------------------------------------------------
(* Bumps.                                                                   *)

\* An admitted call with a target has a curve that can be put back.
LEMMA AdmittedRestores ==
  ASSUME NEW r \in Requests, EntryStatus(r) = "OK", r.targets # <<>>
  PROVE  Vtable[r.curve].size \in 6..FieldCount /\ Vtable[r.curve].reset
<1>1. StructSizeOk(r.curve) /\ Supports(r)
  BY DEF EntryStatus, Validate
<1>2. Vtable[r.curve].size \in Nat
  BY CallersAssumption, CurvesAssumption DEF RequestType, VtableType
<1>3. HasReset(r.curve)
  BY <1>1 DEF Supports, SupportsParallel, SupportsBump
<1>4. QED
  BY <1>1, <1>2, <1>3 DEF StructSizeOk, HasReset, FieldCount

\* No curve is ever moved that its vtable gives no way to restore.
THEOREM BumpsAreRestorable == Spec => OnlyBumpsRestorable
<1> DEFINE Restorable ==
      \A cv \in Curves :
        bumps'[cv] # bumps[cv] => Vtable[cv].size \in 6..FieldCount /\ Vtable[cv].reset
<1>1. StatusInv /\ [Next]_vars => [Restorable]_vars
  <2>1. ASSUME StatusInv, NEW c \in Callers, Step(c) PROVE Restorable
    <3> SUFFICES ASSUME NEW cv \in Curves, bumps'[cv] # bumps[cv]
                 PROVE  Vtable[cv].size \in 6..FieldCount /\ Vtable[cv].reset
      OBVIOUS
    <3>1. Active(c) /\ cv = CurveOf(c)
      BY <2>1, Frame DEF StatusInv
    <3>2. req[c] \in Requests /\ EntryStatus(req[c]) = "OK" /\ req[c].targets # <<>>
      BY <2>1, <3>1 DEF Active, StatusInv, Admitted
    <3>3. QED
      BY <3>1, <3>2, AdmittedRestores DEF CurveOf
  <2>2. ASSUME NEW c \in Callers, Call(c) PROVE Restorable
    BY <2>2 DEF Call, Refuse, Start, curveVars
  <2>3. QED
    BY <2>1, <2>2 DEF Next
<1>2. QED
  BY <1>1, StatusInvariant, PTL DEF Spec, OnlyBumpsRestorable

------------------------------------------------------------------------------
(* Calls end.  What a call still has to do only shrinks, whatever its       *)
(* callbacks answer, and the lock is held by a call in flight or by nobody. *)

\* One revaluation: a bump, a discount per cash flow, a reset.
Round == NFlows + 2

\* The callbacks of the revaluation under way that are still to come.
ThisSide(c) ==
  IF pc[c] = "bump" THEN Round
  ELSE IF pc[c] = "reset" THEN 1
  ELSE NFlows - Len(seen[c]) + (IF side[c] = "base" THEN 0 ELSE 1)

\* The revaluations after it: two per target, up before down.
SidesAfter(c) ==
  IF side[c] = "base" THEN 2 * Len(req[c].targets)
  ELSE 2 * (Len(req[c].targets) - bucket[c]) + (IF side[c] = "up" THEN 1 ELSE 0)

\* The callbacks a call makes before it returns, if none of them fails.
CallbacksLeft(c) == IF pc[c] = "idle" THEN 0 ELSE ThisSide(c) + Round * SidesAfter(c)

\* Discounts are counted within one revaluation, and only the base price is
\* made without a bump.
Phased(c) ==
  pc[c] # "idle" =>
    /\ Len(seen[c]) < NFlows
    /\ pc[c] # "price" => side[c] # "base" /\ seen[c] = <<>>

\* The lock is with the call in flight on a curve that does not yield.
LockTrue ==
  \A c \in Callers : holder = c <=> pc[c] # "idle" /\ CurveOf(c) \notin Yields

ProgressInv == StatusInv /\ LockTrue /\ \A c \in Callers : Phased(c)

LEMMA RoundType ==
  /\ Round \in Nat /\ Round >= 3
  /\ \A m \in Nat : Round * m \in Nat /\ Round * (m + 1) = Round * m + Round
<1>1. Round \in Nat /\ Round >= 3
  BY BoundsAssumption DEF Round
<1>2. ASSUME NEW m \in Nat
      PROVE  Round * m \in Nat /\ Round * (m + 1) = Round * m + Round
  BY <1>1, SMT
<1> QED
  BY <1>1, <1>2

\* What is left to do is a number, and none is left when the call is over.
LEMMA LeftType ==
  ASSUME StatusInv, NEW c \in Callers, Phased(c), pc[c] # "idle"
  PROVE  /\ Len(req[c].targets) \in Nat \ {0}
         /\ bucket[c] \in 1..Len(req[c].targets)
         /\ seen[c] \in Prices /\ Len(seen[c]) \in 0..(NFlows - 1)
         /\ ThisSide(c) \in 1..Round /\ SidesAfter(c) \in Nat
         /\ pc[c] = "price" /\ side[c] # "base" => 1 < ThisSide(c)
         /\ CallbacksLeft(c) = ThisSide(c) + Round * SidesAfter(c)
         /\ CallbacksLeft(c) \in Nat \ {0}
<1>1. req[c].targets \in Seq(Targets) /\ req[c].targets # <<>>
  BY FreshType DEF StatusInv, Admitted
<1>2. Len(req[c].targets) \in Nat \ {0} /\ bucket[c] \in 1..Len(req[c].targets)
  BY <1>1 DEF StatusInv, WrittenSoFar
<1>3. seen[c] \in Prices /\ Len(seen[c]) \in 0..(NFlows - 1)
  BY BoundsAssumption DEF StatusInv, TypeOK, Phased, Prices
<1>4. side[c] \in Sides
  BY DEF StatusInv, TypeOK
<1>5. ThisSide(c) \in 1..Round /\ (pc[c] = "price" /\ side[c] # "base" => 1 < ThisSide(c))
  <2>1. NFlows \in Nat \ {0}
    BY BoundsAssumption
  <2> DEFINE m == Len(seen[c])
  <2>2. m \in 0..(NFlows - 1)
    BY <1>3
  <2>3. ThisSide(c) \in {NFlows + 2, 1, NFlows - m + 0, NFlows - m + 1}
    BY DEF ThisSide, Round
  <2>4. pc[c] = "price" /\ side[c] # "base" => ThisSide(c) = NFlows - m + 1
    BY DEF ThisSide
  <2> HIDE DEF m
  <2> QED
    BY <2>1, <2>2, <2>3, <2>4 DEF Round
<1>6. SidesAfter(c) \in Nat
  BY <1>2 DEF SidesAfter
<1>7. CallbacksLeft(c) = ThisSide(c) + Round * SidesAfter(c)
  BY DEF CallbacksLeft
<1>8. Round * SidesAfter(c) \in Nat
  BY <1>6, RoundType
<1> HIDE DEF CallbacksLeft
<1> QED
  BY <1>2, <1>3, <1>5, <1>6, <1>7, <1>8

\* The three ways a step brings the end nearer: it is the end, the revaluation
\* goes on, or the next one starts.
LEMMA EndIsNear ==
  ASSUME StatusInv, NEW c \in Callers, Phased(c), pc[c] # "idle", pc'[c] = "idle"
  PROVE  Phased(c)' /\ CallbacksLeft(c)' < CallbacksLeft(c)
<1>1. CallbacksLeft(c)' = 0
  BY DEF CallbacksLeft
<1> QED
  BY <1>1, LeftType DEF Phased

LEMMA SideGoesOn ==
  ASSUME StatusInv, NEW c \in Callers, Phased(c), pc[c] # "idle", pc'[c] # "idle",
         SidesAfter(c)' = SidesAfter(c), ThisSide(c)' \in Int, ThisSide(c)' < ThisSide(c)
  PROVE  CallbacksLeft(c)' < CallbacksLeft(c)
<1> DEFINE rest == Round * SidesAfter(c)
<1>1. CallbacksLeft(c)' = ThisSide(c)' + rest
  BY DEF CallbacksLeft, Round
<1>2. CallbacksLeft(c) = ThisSide(c) + rest /\ ThisSide(c) \in Int /\ rest \in Int
  BY LeftType, RoundType
<1> HIDE DEF rest
<1> QED
  BY <1>1, <1>2

LEMMA SideStarts ==
  ASSUME StatusInv, NEW c \in Callers, Phased(c), pc[c] # "idle", pc'[c] = "bump",
         SidesAfter(c)' \in Nat, SidesAfter(c) = SidesAfter(c)' + 1
  PROVE  CallbacksLeft(c)' < CallbacksLeft(c)
<1>1. CallbacksLeft(c)' = Round + Round * SidesAfter(c)'
  BY DEF CallbacksLeft, ThisSide, Round
<1>2. CallbacksLeft(c) = ThisSide(c) + Round * (SidesAfter(c)' + 1) /\ ThisSide(c) \in Nat \ {0}
  BY LeftType
<1>3. Round * (SidesAfter(c)' + 1) = Round * SidesAfter(c)' + Round
  BY RoundType
<1>4. Round \in Nat /\ Round * SidesAfter(c)' \in Nat
  BY RoundType
<1> QED
  BY <1>1, <1>2, <1>3, <1>4

\* The head of the loop, on the way to target i.
LEMMA LoopCounts ==
  ASSUME StatusInv, NEW c \in Callers, Phased(c), pc[c] # "idle", NEW i \in Nat \ {0},
         EnterBucket(c, i), req' = req, seen' = [seen EXCEPT ![c] = <<>>],
         i <= Len(req[c].targets) => SidesAfter(c) = 2 * (Len(req[c].targets) - i) + 2
  PROVE  Phased(c)' /\ CallbacksLeft(c)' < CallbacksLeft(c)
<1> DEFINE n == Len(req[c].targets)
<1>1. CASE i > n \/ req[c].targets[i] = Invalid
  <2>1. pc'[c] = "idle"
    BY <1>1 DEF EnterBucket, Return, StatusInv, TypeOK
  <2> QED
    BY <2>1, EndIsNear
<1>2. CASE ~ (i > n) /\ req[c].targets[i] # Invalid
  <2>1. pc'[c] = "bump" /\ side'[c] = "up" /\ bucket'[c] = i /\ seen'[c] = <<>>
    BY <1>2 DEF EnterBucket, StatusInv, TypeOK
  <2>2. Phased(c)'
    BY <2>1, BoundsAssumption DEF Phased
  <2>3. n \in Nat /\ i <= n
    BY <1>2, LeftType
  <2>4. SidesAfter(c)' = 2 * (n - i) + 1
    BY <2>1 DEF SidesAfter
  <2> HIDE DEF n
  <2>5. SidesAfter(c)' \in Nat /\ SidesAfter(c) = SidesAfter(c)' + 1
    BY <2>3, <2>4 DEF n
  <2> QED
    BY <2>1, <2>2, <2>5, SideStarts
<1> QED
  BY <1>1, <1>2

LEMMA PriceFailsCounts ==
  ASSUME StatusInv, NEW c \in Callers, Phased(c), pc[c] = "price", NEW st,
         PriceFails(c, st), seen' = [seen EXCEPT ![c] = <<>>],
         UNCHANGED <<req, side, bucket>>
  PROVE  Phased(c)' /\ CallbacksLeft(c)' < CallbacksLeft(c)
<1>1. CASE side[c] = "base"
  <2>1. pc'[c] = "idle"
    BY <1>1 DEF PriceFails, Return, StatusInv, TypeOK
  <2> QED
    BY <2>1, EndIsNear
<1>2. CASE side[c] # "base"
  <2>1. pc'[c] = "reset" /\ seen'[c] = <<>>
    BY <1>2 DEF PriceFails, StatusInv, TypeOK
  <2>2. Phased(c)'
    BY <1>2, <2>1, BoundsAssumption DEF Phased
  <2>3. SidesAfter(c)' = SidesAfter(c)
    BY DEF SidesAfter
  <2>4. ThisSide(c)' = 1
    BY <2>1 DEF ThisSide
  <2>5. 1 < ThisSide(c)
    BY <1>2, LeftType
  <2> QED
    BY <2>1, <2>2, <2>3, <2>4, <2>5, SideGoesOn
<1> QED
  BY <1>1, <1>2

LEMMA ResetAfterDownCounts ==
  ASSUME StatusInv, NEW c \in Callers, Phased(c), ResetAfterDown(c)
  PROVE  Phased(c)' /\ CallbacksLeft(c)' < CallbacksLeft(c)
<1> DEFINE next == bucket[c] + 1
           n == Len(req[c].targets)
<1>1. pc[c] = "reset" /\ side[c] = "down" /\ req' = req /\ EnterBucket(c, next)
  BY DEF ResetAfterDown, Resetting
<1>2. seen' = seen /\ seen[c] = <<>>
  BY <1>1 DEF ResetAfterDown, Phased
<1>3. seen' = [seen EXCEPT ![c] = <<>>]
  BY <1>2 DEF StatusInv, TypeOK
<1>4. n \in Nat \ {0} /\ bucket[c] \in 1..n
  BY <1>1, LeftType
<1>5. next \in Nat \ {0}
  BY <1>4
<1>6. SidesAfter(c) = 2 * (n - bucket[c]) + 0
  BY <1>1 DEF SidesAfter
<1>7. SidesAfter(c) = 2 * (n - next) + 2
  BY <1>4, <1>6
<1> HIDE DEF next
<1> QED
  BY <1>1, <1>3, <1>5, <1>7, LoopCounts

LEMMA StepCounts ==
  ASSUME StatusInv, NEW c \in Callers, Phased(c), Step(c)
  PROVE  Phased(c)' /\ CallbacksLeft(c)' < CallbacksLeft(c)
<1> USE DEF curveVars, seenVars
<1>0. TypeOK /\ NFlows \in Nat \ {0} /\ Round = NFlows + 2
  BY BoundsAssumption DEF StatusInv, Round
<1>1. CASE Discount(c)
  <2>1. /\ pc[c] = "price" /\ pc' = pc /\ side' = side /\ req' = req /\ bucket' = bucket
        /\ seen'[c] = Observed(c) /\ Len(seen[c]) + 1 < NFlows
    BY <1>0, <1>1 DEF Discount, Discounting, TypeOK
  <2>2. Len(seen'[c]) = Len(seen[c]) + 1 /\ Len(seen[c]) \in Nat
    BY <1>0, <2>1, LeftType, CurveOfType DEF Observed, Prices, TypeOK
  <2>3. Phased(c)'
    BY <2>1, <2>2 DEF Phased
  <2>4. SidesAfter(c)' = SidesAfter(c)
    BY <2>1 DEF SidesAfter
  <2>5. ThisSide(c)' = ThisSide(c) - 1
    BY <1>0, <2>1, <2>2 DEF ThisSide
  <2>6. ThisSide(c) \in Int
    <3>1. ThisSide(c) \in 1..Round
      BY <2>1, LeftType
    <3> QED
      BY <3>1
  <2>7. ThisSide(c)' \in Int /\ ThisSide(c)' < ThisSide(c)
    BY <2>5, <2>6
  <2> QED
    BY <2>1, <2>3, <2>4, <2>7, SideGoesOn
<1>2. CASE DiscountFails(c) \/ AccruedFails(c)
  BY <1>2, PriceFailsCounts DEF DiscountFails, AccruedFails, Discounting
<1>3. CASE BasePriced(c)
  <2>1. /\ pc[c] = "price" /\ side[c] = "base" /\ req' = req
        /\ seen' = [seen EXCEPT ![c] = <<>>]
    BY <1>3 DEF BasePriced, Discounting
  <2>2. CASE req[c].bond = "worthless"
    <3>1. pc'[c] = "idle"
      BY <1>0, <1>3, <2>2 DEF BasePriced, Return, TypeOK
    <3> QED
      BY <2>1, <3>1, EndIsNear
  <2>3. CASE req[c].bond # "worthless"
    <3>1. EnterBucket(c, 1)
      BY <1>3, <2>3 DEF BasePriced
    <3>2. Len(req[c].targets) \in Nat /\ pc[c] # "idle"
      BY <2>1, LeftType
    <3>3. SidesAfter(c) = 2 * Len(req[c].targets)
      BY <2>1 DEF SidesAfter
    <3>4. SidesAfter(c) = 2 * (Len(req[c].targets) - 1) + 2
      BY <3>2, <3>3
    <3>5. 1 \in Nat \ {0}
      OBVIOUS
    <3> QED
      BY <2>1, <3>1, <3>2, <3>4, <3>5, LoopCounts, Zenon
  <2> QED
    BY <2>2, <2>3
<1>4. CASE BumpedPriced(c)
  <2>1. /\ pc[c] = "price" /\ side[c] # "base" /\ pc'[c] = "reset" /\ seen'[c] = <<>>
        /\ side' = side /\ req' = req /\ bucket' = bucket
    BY <1>0, <1>4 DEF BumpedPriced, Discounting, TypeOK
  <2>2. Phased(c)'
    BY <1>0, <2>1 DEF Phased
  <2>3. SidesAfter(c)' = SidesAfter(c) /\ ThisSide(c)' = 1
    BY <2>1 DEF SidesAfter, ThisSide
  <2>5. 1 < ThisSide(c)
    BY <2>1, LeftType
  <2> QED
    BY <2>1, <2>2, <2>3, <2>5, SideGoesOn
<1>5. CASE BumpAccepted(c)
  <2>1. /\ pc[c] = "bump" /\ pc'[c] = "price" /\ seen' = seen
        /\ side' = side /\ req' = req /\ bucket' = bucket
    BY <1>0, <1>5 DEF BumpAccepted, Bumping, TypeOK
  <2>2. seen[c] = <<>> /\ side[c] # "base"
    BY <2>1 DEF Phased
  <2>3. Phased(c)'
    BY <1>0, <2>1, <2>2 DEF Phased
  <2>4. SidesAfter(c)' = SidesAfter(c)
    BY <2>1 DEF SidesAfter
  <2>5. ThisSide(c)' = NFlows - 0 + 1 /\ ThisSide(c) = NFlows + 2
    BY <1>0, <2>1, <2>2 DEF ThisSide
  <2>6. ThisSide(c)' \in Int /\ ThisSide(c)' < ThisSide(c)
    BY <1>0, <2>5
  <2> QED
    BY <2>1, <2>3, <2>4, <2>6, SideGoesOn
<1>6. CASE BumpRefused(c) \/ BumpTorn(c) \/ ResetUnwinding(c)
  <2>1. pc[c] # "idle" /\ pc'[c] = "idle"
    BY <1>0, <1>6 DEF BumpRefused, BumpTorn, ResetUnwinding, Bumping, Resetting, Return, TypeOK
  <2> QED
    BY <2>1, EndIsNear
<1>7. CASE ResetAfterUp(c)
  <2>1. /\ pc[c] = "reset" /\ side[c] = "up" /\ pc'[c] = "bump" /\ side'[c] = "down"
        /\ seen' = seen /\ req' = req /\ bucket' = bucket
    BY <1>0, <1>7 DEF ResetAfterUp, Resetting, TypeOK
  <2>2. Phased(c)'
    BY <2>1 DEF Phased
  <2>3. SidesAfter(c)' = 2 * (Len(req[c].targets) - bucket[c]) + 0
    BY <2>1 DEF SidesAfter
  <2>4. SidesAfter(c) = 2 * (Len(req[c].targets) - bucket[c]) + 1
    BY <2>1 DEF SidesAfter
  <2>5. Len(req[c].targets) \in Nat /\ bucket[c] \in 1..Len(req[c].targets)
    BY <2>1, LeftType
  <2>6. SidesAfter(c)' \in Nat /\ SidesAfter(c) = SidesAfter(c)' + 1
    BY <2>3, <2>4, <2>5
  <2> QED
    BY <2>1, <2>2, <2>6, SideStarts
<1>8. CASE ResetAfterDown(c)
  BY <1>8, ResetAfterDownCounts
<1> QED
  BY <1>1, <1>2, <1>3, <1>4, <1>5, <1>6, <1>7, <1>8, Step(c) DEF Step

\* A step leaves the lock with its caller, or with nobody, as it should.
LEMMA StepLock ==
  ASSUME StatusInv, NEW c \in Callers, Call(c) \/ Step(c)
  PROVE  /\ MayRun(c)
         /\ holder' \in {NoCaller, c}
         /\ holder' = c <=> pc'[c] # "idle" /\ CurveOf(c)' \notin Yields
<1> USE DEF curveVars, seenVars
<1>0. TypeOK /\ NoCaller # c
  BY CallersAssumption DEF StatusInv
<1>1. ASSUME NEW r \in Requests, Refuse(c, r)
      PROVE  MayRun(c) /\ holder' = NoCaller /\ pc'[c] = "idle"
  BY <1>1 DEF Refuse, CanCall
<1>2. ASSUME NEW r \in Requests, Start(c, r)
      PROVE  /\ MayRun(c) /\ pc'[c] # "idle" /\ req'[c] = r
             /\ holder' = IF r.curve \in Yields THEN NoCaller ELSE c
  BY <1>0, <1>2 DEF Start, CanCall, TypeOK
<1>3. ASSUME Step(c)
      PROVE  /\ MayRun(c) /\ req' = req
             /\ \/ holder' = NoCaller /\ pc'[c] = "idle"
                \/ Continue(c) /\ pc'[c] # "idle"
  <2> USE <1>0 DEF TypeOK, Return
  <2>1. CASE Discount(c)
    BY <2>1 DEF Discount, Discounting
  <2>2. CASE DiscountFails(c) \/ AccruedFails(c)
    BY <2>2 DEF DiscountFails, AccruedFails, Discounting, PriceFails
  <2>3. CASE BasePriced(c)
    BY <2>3 DEF BasePriced, Discounting, EnterBucket
  <2>4. CASE BumpedPriced(c) \/ BumpAccepted(c)
    BY <2>4 DEF BumpedPriced, Discounting, BumpAccepted, Bumping
  <2>5. CASE BumpRefused(c) \/ BumpTorn(c) \/ ResetUnwinding(c)
    BY <2>5 DEF BumpRefused, BumpTorn, Bumping, ResetUnwinding, Resetting
  <2>6. CASE ResetAfterUp(c)
    BY <2>6 DEF ResetAfterUp, Resetting
  <2>7. CASE ResetAfterDown(c)
    BY <2>7 DEF ResetAfterDown, Resetting, EnterBucket
  <2> QED
    BY <1>3, <2>1, <2>2, <2>3, <2>4, <2>5, <2>6, <2>7 DEF Step
<1>4. CASE Call(c)
  <2>1. PICK r \in Requests : Refuse(c, r) \/ Start(c, r)
    BY <1>4 DEF Call
  <2> QED
    BY <1>0, <1>1, <1>2, <2>1 DEF CurveOf
<1>5. CASE Step(c)
  BY <1>0, <1>3, <1>5 DEF Continue, CurveOf
<1> QED
  BY <1>4, <1>5

\* What other calls have left to do is not touched.
LEMMA OthersLeft ==
  ASSUME StatusInv, NEW c \in Callers, Call(c) \/ Step(c), NEW d \in Callers, d # c
  PROVE  Phased(d) => Phased(d)' /\ CallbacksLeft(d)' = CallbacksLeft(d)
<1>1. seen'[d] = seen[d]
  <2> USE DEF StatusInv, TypeOK, curveVars
  <2>1. CASE Call(c)
    BY <2>1 DEF Call, Refuse, Start
  <2>2. CASE Step(c)
    BY <2>2 DEF Step, Discount, DiscountFails, AccruedFails, BasePriced, BumpedPriced,
       BumpAccepted, BumpRefused, BumpTorn, ResetUnwinding, ResetAfterUp, ResetAfterDown
  <2> QED
    BY <2>1, <2>2
<1>2. req'[d] = req[d] /\ pc'[d] = pc[d] /\ side'[d] = side[d] /\ bucket'[d] = bucket[d]
  BY Private
<1> QED
  BY <1>1, <1>2 DEF Phased, CallbacksLeft, ThisSide, SidesAfter

LEMMA ProgressStep ==
  ASSUME ProgressInv, StatusInv', NEW c \in Callers, Call(c) \/ Step(c)
  PROVE  ProgressInv'
<1>0. StatusInv /\ NoCaller \notin Callers
  BY CallersAssumption DEF ProgressInv
<1>1. Phased(c)'
  <2>1. CASE Step(c)
    BY <1>0, <2>1, StepCounts DEF ProgressInv
  <2>2. ASSUME NEW r \in Requests, Refuse(c, r) \/ Start(c, r)
        PROVE  pc'[c] = "idle" \/ (pc'[c] = "price" /\ seen'[c] = <<>>)
    BY <1>0, <2>2 DEF Refuse, Start, CanCall, StatusInv, TypeOK
  <2>3. CASE Call(c)
    BY <2>2, <2>3, BoundsAssumption DEF Call, Phased
  <2> QED
    BY <2>1, <2>3
<1>2. ASSUME NEW d \in Callers, d # c
      PROVE  Phased(d)' /\ (holder' = d <=> pc'[d] # "idle" /\ CurveOf(d)' \notin Yields)
  <2>1. Phased(d)'
    BY <1>0, <1>2, OthersLeft DEF ProgressInv
  <2>2. pc'[d] = pc[d] /\ CurveOf(d)' = CurveOf(d)
    BY <1>0, <1>2, Private DEF CurveOf
  <2>3. holder # d /\ holder' # d
    BY <1>0, <1>2, StepLock DEF MayRun
  <2>4. ~ (pc[d] # "idle" /\ CurveOf(d) \notin Yields)
    BY <2>3 DEF ProgressInv, LockTrue
  <2> QED
    BY <2>1, <2>2, <2>3, <2>4
<1>3. LockTrue'
  BY <1>0, <1>2, StepLock DEF LockTrue
<1> QED
  BY <1>1, <1>2, <1>3 DEF ProgressInv

\* Discounts are counted, bumps come in pairs and the lock is where it belongs,
\* whatever callers and callbacks do.
THEOREM ProgressInvariant == Spec => []ProgressInv
<1>1. Init => LockTrue /\ \A c \in Callers : Phased(c)
  BY CallersAssumption DEF Init, LockTrue, Phased
<1>2. LockTrue /\ (\A c \in Callers : Phased(c)) /\ StatusInv /\ StatusInv' /\ [Next]_vars
        => (LockTrue /\ \A c \in Callers : Phased(c))'
  <2>1. ASSUME ProgressInv, StatusInv', UNCHANGED vars
        PROVE  ProgressInv'
    BY <2>1 DEF ProgressInv, LockTrue, Phased, CurveOf, vars, curveVars, callVars, seenVars
  <2> QED
    BY <2>1, ProgressStep DEF ProgressInv, Next
<1> QED
  BY <1>1, <1>2, StatusInvariant, PTL DEF Spec, ProgressInv

\* A call starts with a fixed number of callbacks to make and is over when there
\* are none left; every step of its own leaves it fewer, and the steps of other
\* calls leave it as many.
CallbacksRunOut ==
  [][\A c \in Callers :
       /\ CallbacksLeft(c) \in Nat /\ (CallbacksLeft(c) = 0 <=> ~ Active(c))
       /\ \A r \in Requests :
            Start(c, r) => CallbacksLeft(c)' = NFlows + Round * (2 * Len(r.targets))
       /\ Step(c) => CallbacksLeft(c)' < CallbacksLeft(c)
       /\ Call(c) \/ Step(c) =>
            \A d \in Callers \ {c} : CallbacksLeft(d)' = CallbacksLeft(d)]_vars

\* No call goes on for ever: the library asks a curve for a bounded number of
\* callbacks, however they fail and whoever else bumps the curve meanwhile.
THEOREM CallsRunOut == Spec => CallbacksRunOut
<1>1. ASSUME ProgressInv, NEW c \in Callers, NEW r \in Requests, Start(c, r)
      PROVE  CallbacksLeft(c)' = NFlows + Round * (2 * Len(r.targets))
  <2>1. pc'[c] = "price" /\ side'[c] = "base" /\ seen'[c] = <<>> /\ req'[c] = r
    BY <1>1 DEF Start, ProgressInv, StatusInv, TypeOK
  <2>2. NFlows - 0 + 0 = NFlows
    BY BoundsAssumption
  <2>3. ThisSide(c)' = NFlows
    BY <2>1, <2>2 DEF ThisSide
  <2>4. SidesAfter(c)' = 2 * Len(r.targets)
    BY <2>1 DEF SidesAfter
  <2> QED
    BY <2>1, <2>3, <2>4 DEF CallbacksLeft, Round
<1>2. ASSUME ProgressInv, NEW c \in Callers, Step(c)
      PROVE  CallbacksLeft(c)' < CallbacksLeft(c)
  BY <1>2, StepCounts DEF ProgressInv
<1>3. ASSUME ProgressInv, NEW c \in Callers, Call(c) \/ Step(c),
             NEW d \in Callers \ {c}
      PROVE  CallbacksLeft(d)' = CallbacksLeft(d)
  BY <1>3, OthersLeft DEF ProgressInv
<1>4. ASSUME ProgressInv, NEW c \in Callers
      PROVE  CallbacksLeft(c) \in Nat /\ (CallbacksLeft(c) = 0 <=> ~ Active(c))
  <2>1. CASE Active(c)
    BY <1>4, <2>1, LeftType DEF ProgressInv, Active
  <2>2. CASE ~ Active(c)
    BY <2>2 DEF Active, CallbacksLeft
  <2> QED
    BY <2>1, <2>2
<1>5. ProgressInv =>
        \A c \in Callers :
          /\ CallbacksLeft(c) \in Nat /\ (CallbacksLeft(c) = 0 <=> ~ Active(c))
          /\ \A r \in Requests :
               Start(c, r) => CallbacksLeft(c)' = NFlows + Round * (2 * Len(r.targets))
          /\ Step(c) => CallbacksLeft(c)' < CallbacksLeft(c)
          /\ Call(c) \/ Step(c) =>
               \A d \in Callers \ {c} : CallbacksLeft(d)' = CallbacksLeft(d)
  BY <1>1, <1>2, <1>3, <1>4
<1> QED
  BY <1>5, ProgressInvariant, PTL DEF CallbacksRunOut

\* While calls are in flight one of them may run: the lock is never left behind
\* by a call that returned, nor do two calls wait for each other.
SomeCallMayRun ==
  (\E c \in Callers : Active(c)) => \E c \in Callers : Active(c) /\ MayRun(c)

\* Whichever way calls end, they leave the others able to go on.
THEOREM NoCallBlocksAll == Spec => []SomeCallMayRun
<1>1. ProgressInv => SomeCallMayRun
  <2> SUFFICES ASSUME ProgressInv, NEW c \in Callers, Active(c)
               PROVE  \E d \in Callers : Active(d) /\ MayRun(d)
    BY DEF SomeCallMayRun
  <2>1. CASE holder = NoCaller
    BY <2>1 DEF MayRun
  <2>2. CASE holder # NoCaller
    <3>1. holder \in Callers
      BY <2>2 DEF ProgressInv, StatusInv, TypeOK
    <3>2. Active(holder)
      BY <3>1 DEF ProgressInv, LockTrue, Active
    <3> QED
      BY <3>1, <3>2 DEF MayRun
  <2> QED
    BY <2>1, <2>2
<1> QED
  BY <1>1, ProgressInvariant, PTL

------------------------------------------------------------------------------
(* Curves are given back.  This needs callbacks that do what they say, but  *)
(* not that a curve has one user: whoever resets it last resets all of it.  *)

\* Who has bumped a curve keeps its guard armed until it has reset it.
LEMMA GuardKept ==
  ASSUME StatusInv, HonestCurves, NEW c \in Callers, Phased(c), Step(c)
  PROVE  /\ \A cv \in Curves : cv # CurveOf(c) => bumps'[cv] = bumps[cv]
         /\ CurveOf(c)' = CurveOf(c)
         /\ \/ bumps'[CurveOf(c)] = Unbumped
            \/ Armed(c)'
            \/ ~ Armed(c) /\ bumps' = bumps
<1> USE DEF curveVars, seenVars
<1>0. TypeOK /\ Faults \subseteq {"discount", "bumpRefused"} /\ CurveOf(c) \in Curves
  BY CurveOfType DEF StatusInv, HonestCurves
<1>1. CurveOf(c)' = CurveOf(c)
  BY DEF Step, CurveOf, Discount, DiscountFails, AccruedFails, BasePriced, BumpedPriced,
     BumpAccepted, BumpRefused, BumpTorn, ResetUnwinding, ResetAfterUp, ResetAfterDown
<1>2. CASE Discount(c)
  BY <1>0, <1>1, <1>2 DEF Discount, Discounting, Armed, TypeOK
<1>3. CASE DiscountFails(c) \/ AccruedFails(c)
  <2>1. bumps' = bumps /\ side' = side /\ pc[c] = "price"
    BY <1>3 DEF DiscountFails, AccruedFails, Discounting
  <2>2. side[c] = "base" \/ pc'[c] = "reset"
    BY <1>0, <1>3 DEF DiscountFails, AccruedFails, PriceFails, TypeOK
  <2> QED
    BY <1>1, <2>1, <2>2 DEF Armed
<1>4. CASE BasePriced(c)
  BY <1>0, <1>1, <1>4 DEF BasePriced, Discounting, Armed
<1>5. CASE BumpedPriced(c)
  BY <1>0, <1>1, <1>5 DEF BumpedPriced, Armed, TypeOK
<1>6. CASE BumpAccepted(c)
  <2>1. pc'[c] = "price" /\ side' = side /\ side[c] # "base"
    BY <1>0, <1>6 DEF BumpAccepted, Bumping, Phased, TypeOK
  <2>2. \A cv \in Curves : cv # CurveOf(c) => bumps'[cv] = bumps[cv]
    BY <1>0, <1>6 DEF BumpAccepted, TypeOK
  <2> QED
    BY <1>1, <2>1, <2>2 DEF Armed
<1>7. CASE BumpRefused(c)
  BY <1>1, <1>7 DEF BumpRefused, Bumping, Armed
<1>8. CASE BumpTorn(c)
  BY <1>0, <1>8 DEF BumpTorn
<1>9. CASE ResetUnwinding(c) \/ ResetAfterUp(c) \/ ResetAfterDown(c)
  <2>1. ResetCallback(c)
    BY <1>9 DEF ResetUnwinding, ResetAfterUp, ResetAfterDown
  <2>2. bumps' = [bumps EXCEPT ![CurveOf(c)] = Unbumped]
    BY <1>0, <2>1 DEF ResetCallback
  <2> QED
    BY <1>0, <1>1, <2>2 DEF TypeOK
<1> QED
  BY <1>1, <1>2, <1>3, <1>4, <1>5, <1>6, <1>7, <1>8, <1>9, Step(c) DEF Step

LEMMA RestoredStep ==
  ASSUME StatusInv, HonestCurves, CurveRestored, NEW c \in Callers, Phased(c),
         Call(c) \/ Step(c)
  PROVE  CurveRestored'
<1> SUFFICES ASSUME NEW cv \in Curves, bumps'[cv] # Unbumped
             PROVE  \E d \in Callers : Armed(d)' /\ CurveOf(d)' = cv
  BY DEF CurveRestored, Unbumped
<1>1. ASSUME NEW d \in Callers, d # c
      PROVE  Armed(d)' = Armed(d) /\ CurveOf(d)' = CurveOf(d)
  BY <1>1, Private DEF Armed, CurveOf
<1>2. CASE Call(c)
  <2>1. bumps' = bumps /\ pc[c] = "idle"
    BY <1>2 DEF Call, Refuse, Start, CanCall, curveVars
  <2>2. PICK d \in Callers : Armed(d) /\ CurveOf(d) = cv
    BY <2>1 DEF CurveRestored
  <2>3. d # c
    BY <2>1, <2>2 DEF Armed
  <2> QED
    BY <1>1, <2>2, <2>3
<1>3. CASE Step(c)
  <2>1. CASE Armed(c)' /\ CurveOf(c)' = cv
    BY <2>1
  <2>2. CASE ~ (Armed(c)' /\ CurveOf(c)' = cv)
    <3>1. bumps'[cv] = bumps[cv] /\ ~ (Armed(c) /\ CurveOf(c) = cv)
      BY <1>3, <2>2, GuardKept
    <3>2. PICK d \in Callers : Armed(d) /\ CurveOf(d) = cv
      BY <3>1 DEF CurveRestored
    <3> QED
      BY <1>1, <3>1, <3>2
  <2> QED
    BY <2>1, <2>2
<1> QED
  BY <1>2, <1>3

\* No bump outlives the guard of the call that made it, however the call ends
\* and whoever shares the curve.
THEOREM CurvesRestored == HonestCurves /\ Spec => []CurveRestored
<1> SUFFICES ASSUME HonestCurves PROVE Spec => []CurveRestored
  BY DEF HonestCurves
<1>1. Init => CurveRestored
  BY DEF Init, CurveRestored
<1>2. ProgressInv /\ CurveRestored /\ [Next]_vars => CurveRestored'
  <2>1. ASSUME CurveRestored, UNCHANGED vars
        PROVE  CurveRestored'
    BY <2>1 DEF CurveRestored, Armed, CurveOf, Unbumped, vars, curveVars, callVars
  <2> QED
    BY <2>1, RestoredStep DEF ProgressInv, Next
<1> QED
  BY <1>1, <1>2, ProgressInvariant, PTL DEF Spec

\* "Restores the curve on every exit path": true of a curve whose bump either
\* succeeds or changes nothing, and whose reset works.
THEOREM ExitsRestore == HonestCurves /\ Spec => []RestoredOnEveryExit
<1>1. CurveRestored => RestoredOnEveryExit
  BY DEF CurveRestored, RestoredOnEveryExit, Armed
<1> QED
  BY <1>1, CurvesRestored, PTL

\* "Out-parameters are written only on success": true of the three measures
\* that have one out-parameter.
ParallelAllOrNothing ==
  \A c \in Callers :
    pc[c] = "idle" /\ status[c] # "OK" /\ req[c].op = "parallel" =>
      \A i \in DOMAIN out[c] : out[c][i] = Untouched

\* A duration, convexity or DV01 that fails leaves its result alone.
THEOREM ParallelWritesOnSuccess == Spec => []ParallelAllOrNothing
<1>1. StatusInv => ParallelAllOrNothing
  <2> SUFFICES ASSUME StatusInv, NEW c \in Callers, pc[c] = "idle", status[c] # "OK",
                      req[c].op = "parallel", NEW i \in DOMAIN out[c]
               PROVE  out[c][i] = Untouched
    BY DEF ParallelAllOrNothing
  <2>1. req[c] \in Requests \cup {NoRequest} /\ NoRequest.op = "keyrate"
    BY DEF StatusInv, TypeOK, NoRequest
  <2>2. req[c].targets = <<All>>
    BY <2>1, CallersAssumption DEF WellFormed
  <2>3. Len(out[c]) = 1 /\ out[c] \in Seq([Sides -> Prices] \cup {Untouched})
    BY <2>2 DEF StatusInv, TypeOK, WrittenSoFar
  <2>4. i = 1 /\ out[c] # <<>>
    BY <2>3
  <2> QED
    BY <2>3, <2>4 DEF StatusInv, ToldRight
<1> QED
  BY <1>1, StatusInvariant, PTL
=============================================================================
