------------------------ MODULE CurveRiskImpl_proofs ------------------------
(***************************************************************************)
(* Bump-and-revalue implements its abstraction: on honest curves a risk    *)
(* call has the curve to itself, whatever happens between its callbacks.   *)
(* And what a whole grid of its results means once the curve interpolates: *)
(* a bump at one pillar is a spike, and the spikes add up.                 *)
(***************************************************************************)
EXTENDS CurveRiskImpl, KeyRates, CurveRisk_proofs, WellFoundedInduction

\* What the caller of a risk call can see, as the abstraction has it.
Level  == [cv \in Curves |-> IF Borrowed(cv) THEN Unbumped ELSE bumps[cv]]
Busy   == [c \in Callers |-> pc[c] # "idle"]
Errors == Statuses \ {"OK"}

ImplInv == RiskInv /\ StatusInv

\* A curve that is bumped is borrowed: its owner never sees a change.
LEMMA LevelStays ==
  ASSUME ImplInv, ImplInv'
  PROVE  Level' = Level
<1>1. Level = [cv \in Curves |-> Unbumped]
  BY DEF ImplInv, RiskInv, CurveRestored, Level, Borrowed
<1>2. Level' = [cv \in Curves |-> Unbumped]
  BY DEF ImplInv, RiskInv, CurveRestored, Level, Borrowed, Unbumped
<1>3. QED
  BY <1>1, <1>2

LEMMA Begins ==
  ASSUME TypeOK, NEW c \in Callers, NEW p, p # "idle",
         pc' = [pc EXCEPT ![c] = p]
  PROVE  Busy' = [Busy EXCEPT ![c] = TRUE]
BY Zenon DEF TypeOK, Busy

LEMMA Ends ==
  ASSUME TypeOK, NEW c \in Callers, pc' = [pc EXCEPT ![c] = "idle"]
  PROVE  Busy' = [Busy EXCEPT ![c] = FALSE]
BY DEF TypeOK, Busy

\* A step that shows nothing.
LEMMA Hidden ==
  ASSUME ImplInv, ImplInv', NEW c \in Callers, pc[c] # "idle", pc'[c] # "idle",
         \A d \in Callers \ {c} : pc'[d] = pc[d], UNCHANGED <<req, out, status>>
  PROVE  UNCHANGED Abs!vars
<1>1. Level' = Level
  BY LevelStays
<1>2. Busy' = Busy
  <2>1. \A d \in Callers : (pc'[d] # "idle") = (pc[d] # "idle")
    OBVIOUS
  <2>2. QED
    BY <2>1 DEF Busy
<1>3. QED
  BY <1>1, <1>2 DEF Abs!vars, Level, Busy

\* A call that ends in a failure, with nothing new written.
LEMMA Failed ==
  ASSUME ImplInv, ImplInv', NEW c \in Callers, NEW st \in Errors, pc[c] # "idle",
         Return(c, st), UNCHANGED <<req, out>>
  PROVE  Abs!Fail(c, st)
<1>1. Level' = Level
  BY LevelStays
<1>2. Busy' = [Busy EXCEPT ![c] = FALSE] /\ Busy[c] = TRUE
  BY Ends DEF ImplInv, StatusInv, Busy, Return
<1>3. QED
  BY <1>1, <1>2 DEF Abs!Fail, Level, Busy, Return, Errors

LEMMA Called ==
  ASSUME ImplInv, ImplInv', NEW c \in Callers, NEW r \in Requests,
         Refuse(c, r) \/ Start(c, r)
  PROVE  /\ Abs!Take(c, r)
         /\ \/ Abs!Start(c, r)
            \/ \E st \in Errors \cup {"OK"} : Abs!Refuse(c, r, st)
<1>1. Level' = Level
  BY LevelStays
<1>2. ~Busy[c]
  BY DEF Busy, Refuse, Start, CanCall
<1>0. Abs!Take(c, r)
  BY <1>2 DEF Refuse, Start, Abs!Take, Abs!Blank, Fresh, Busy
<1>3. CASE Start(c, r)
  <2>1. Busy' = [Busy EXCEPT ![c] = TRUE]
    <3>1. pc' = [pc EXCEPT ![c] = "price"] /\ TypeOK
      BY <1>3 DEF Start, ImplInv, StatusInv
    <3>2. QED
      BY <3>1, Begins
  <2>2. QED
    BY <1>0, <1>1, <1>3, <2>1 DEF Start, Abs!Start, Level, Busy
<1>4. CASE Refuse(c, r)
  <2>1. EntryStatus(r) \in Errors \/ (EntryStatus(r) = "OK" /\ r.targets = <<>>)
    BY <1>4, EntryStatusType DEF Refuse, Errors
  <2>2. Busy' = Busy
    BY <1>4 DEF Refuse, Busy
  <2>3. Abs!Refuse(c, r, EntryStatus(r))
    BY <1>1, <1>4, <2>1, <2>2 DEF Refuse, Abs!Refuse, Level, Busy, Errors
  <2>4. QED
    BY <1>0, <2>1, <2>3
<1>5. QED
  BY <1>3, <1>4

------------------------------------------------------------------------------
(* Step by step.                                                            *)

\* The exits of a failed price, and of the loop's head.
LEMMA PriceFailsMaps ==
  ASSUME ImplInv, ImplInv', NEW c \in Callers, NEW st \in Errors,
         pc[c] = "price", PriceFails(c, st), UNCHANGED <<req, out>>
  PROVE  Abs!Fail(c, st) \/ UNCHANGED Abs!vars
<1>1. CASE side[c] = "base"
  BY <1>1, Failed DEF PriceFails
<1>2. CASE side[c] # "base"
  BY <1>2, Hidden DEF PriceFails, ImplInv, StatusInv, TypeOK
<1>3. QED
  BY <1>1, <1>2

LEMMA BasePricedMaps ==
  ASSUME ImplInv, ImplInv', NEW c \in Callers, BasePriced(c)
  PROVE  (\E st \in Errors : Abs!Fail(c, st)) \/ UNCHANGED Abs!vars
<1>1. pc[c] = "price" /\ UNCHANGED <<req, out>> /\ "BAD_ARG" \in Errors
  BY DEF BasePriced, Discounting, Errors, Statuses
<1>2. ASSUME Return(c, "BAD_ARG") PROVE \E st \in Errors : Abs!Fail(c, st)
  BY <1>1, <1>2, Failed
<1>3. Len(req[c].targets) \in Nat \ {0}
  <2>1. req[c].targets \in Seq(Targets) /\ req[c].targets # <<>>
    BY <1>1, FreshType DEF ImplInv, StatusInv, Admitted, TypeOK
  <2>2. QED
    BY <2>1
<1>4. CASE req[c].bond = "worthless" \/ req[c].targets[1] = Invalid
  BY <1>2, <1>3, <1>4 DEF BasePriced, EnterBucket
<1>5. CASE ~(req[c].bond = "worthless" \/ req[c].targets[1] = Invalid)
  <2>1. EnterBucket(c, 1)
    BY <1>5 DEF BasePriced
  <2>2. pc' = [pc EXCEPT ![c] = "bump"] /\ UNCHANGED status
    BY <1>3, <1>5, <2>1 DEF EnterBucket
  <2>3. QED
    BY <1>1, <2>2, Hidden DEF ImplInv, StatusInv, TypeOK
<1>6. QED
  BY <1>4, <1>5

\* The one step that shows: the next result, and the end if it was the last.
LEMMA ResetAfterDownMaps ==
  ASSUME ImplInv, ImplInv', NEW c \in Callers, ResetAfterDown(c)
  PROVE  Abs!Deliver(c)
<1> DEFINE b == bucket[c]
           n == Len(req[c].targets)
<1>1. /\ pc[c] = "reset" /\ pending[c] = "OK" /\ side[c] = "down" /\ req' = req
      /\ out' = [out EXCEPT ![c][b] = price[c]] /\ EnterBucket(c, b + 1)
  BY DEF ResetAfterDown, Resetting
<1>2. /\ n \in Nat /\ Len(out[c]) = n /\ DOMAIN out[c] = 1..n /\ b \in 1..n
      /\ \A i \in 1..n : out[c][i] # Untouched <=> i < b
  <2>1. out[c] \in Seq([Sides -> Prices] \cup {Untouched})
    BY DEF ImplInv, StatusInv, TypeOK
  <2>2. /\ Len(out[c]) = n /\ b \in 1..Len(out[c])
        /\ \A i \in DOMAIN out[c] : out[c][i] # Untouched <=> i < b
    BY <1>1 DEF ImplInv, StatusInv, WrittenSoFar
  <2>3. QED
    BY <2>1, <2>2
<1>3. price[c] = Exact(c, req[c], b) /\ price[c] # Untouched
  <2>1. \A s \in Sides : price[c][s] = Exact(c, req[c], b)[s]
    BY <1>1 DEF ImplInv, RiskInv, CallerInv, PriceInv, Active, Done, Sides
  <2>2. price[c] \in [Sides -> Prices]
    BY DEF ImplInv, StatusInv, TypeOK
  <2>3. QED
    BY <2>1, <2>2, UntouchedAssumption DEF Exact
<1>4. /\ out' = [out EXCEPT ![c][b] = Exact(c, req[c], b)]
      /\ b \in DOMAIN out[c] /\ out[c][b] = Untouched
      /\ \A j \in 1..(b - 1) : out[c][j] # Untouched
  BY <1>1, <1>2, <1>3
<1>5. /\ DOMAIN out'[c] = 1..n
      /\ \A i \in 1..n : out'[c][i] # Untouched <=> i <= b
  BY <1>1, <1>2, <1>3 DEF ImplInv, StatusInv, TypeOK
<1>6. Level' = Level /\ Busy[c]
  BY <1>1, LevelStays DEF Busy
<1>7. \/ UNCHANGED <<Busy, status>>
      \/ /\ Busy' = [Busy EXCEPT ![c] = FALSE]
         /\ IF Abs!Complete(out'[c]) THEN status' = [status EXCEPT ![c] = "OK"]
            ELSE \E st \in Errors : status' = [status EXCEPT ![c] = st]
  <2>1. CASE b + 1 > n
    <3>1. Return(c, "OK") /\ Abs!Complete(out'[c])
      BY <1>1, <1>2, <1>5, <2>1 DEF EnterBucket, Abs!Complete
    <3>2. Busy' = [Busy EXCEPT ![c] = FALSE]
      BY <3>1, Ends DEF Return, ImplInv, StatusInv
    <3>3. QED
      BY <3>1, <3>2 DEF Return
  <2>2. CASE ~(b + 1 > n) /\ req[c].targets[b + 1] = Invalid
    <3>1. Return(c, "BAD_ARG") /\ "BAD_ARG" \in Errors
      BY <1>1, <2>2 DEF EnterBucket, Errors, Statuses
    <3>2. ~Abs!Complete(out'[c])
      BY <1>2, <1>5, <2>2 DEF Abs!Complete
    <3>3. Busy' = [Busy EXCEPT ![c] = FALSE]
      BY <3>1, Ends DEF Return, ImplInv, StatusInv
    <3>4. QED
      BY <3>1, <3>2, <3>3 DEF Return
  <2>3. CASE ~(b + 1 > n) /\ req[c].targets[b + 1] # Invalid
    <3>1. pc' = [pc EXCEPT ![c] = "bump"] /\ UNCHANGED status
      BY <1>1, <2>3 DEF EnterBucket
    <3>2. \A d \in Callers : (pc'[d] # "idle") = (pc[d] # "idle")
      BY <1>1, <3>1 DEF ImplInv, StatusInv, TypeOK
    <3>3. QED
      BY <3>1, <3>2 DEF Busy
  <2>4. QED
    BY <2>1, <2>2, <2>3
<1>8. QED
  BY <1>1, <1>4, <1>6, <1>7 DEF Abs!Deliver, Level, Busy, Errors

LEMMA StepMaps ==
  ASSUME ImplInv, ImplInv', HonestCurves, NEW c \in Callers, Step(c)
  PROVE  Abs!Deliver(c) \/ (\E st \in Errors : Abs!Fail(c, st)) \/ UNCHANGED Abs!vars
<1> USE DEF curveVars, seenVars
<1>0. TypeOK /\ "BAD_ARG" \in Errors /\ "BAD_SCHEDULE" \in Errors
  BY DEF ImplInv, StatusInv, Errors, Statuses
<1>1. CASE Discount(c)
  BY <1>0, <1>1, Hidden DEF Discount, Discounting
<1>2. CASE DiscountFails(c)
  BY <1>0, <1>2, PriceFailsMaps DEF DiscountFails, Discounting
<1>3. CASE AccruedFails(c)
  BY <1>0, <1>3, PriceFailsMaps DEF AccruedFails, Discounting
<1>4. CASE BumpedPriced(c)
  BY <1>0, <1>4, Hidden DEF BumpedPriced, Discounting, TypeOK
<1>5. CASE BumpAccepted(c)
  BY <1>0, <1>5, Hidden DEF BumpAccepted, Bumping, TypeOK
<1>6. CASE BumpRefused(c)
  BY <1>0, <1>6, Failed DEF BumpRefused, Bumping
<1>7. CASE BumpTorn(c)
  BY <1>7 DEF BumpTorn, HonestCurves
<1>8. CASE ResetUnwinding(c)
  <2>1. pending[c] \in Errors /\ pc[c] # "idle"
    BY <1>0, <1>8 DEF ResetUnwinding, Resetting, TypeOK, Errors
  <2>2. QED
    BY <1>8, <2>1, Failed DEF ResetUnwinding
<1>9. CASE ResetAfterUp(c)
  BY <1>0, <1>9, Hidden DEF ResetAfterUp, Resetting, TypeOK
<1>10. QED
  BY <1>1, <1>2, <1>3, <1>4, <1>5, <1>6, <1>7, <1>8, <1>9, BasePricedMaps,
     ResetAfterDownMaps, Step(c) DEF Step

------------------------------------------------------------------------------
\* On honest curves, each yielding one held by one caller only, every behaviour
\* of curve risk is one of the abstraction: results come in order, are those of
\* a private copy of the curve, and OK is returned with all of them only.
THEOREM Implementation == HonestCurves /\ SoleUsers /\ Spec => ImplementsAbs
<1> SUFFICES ASSUME HonestCurves, SoleUsers PROVE Spec => ImplementsAbs
  BY DEF HonestCurves, SoleUsers
<1>1. Init => Abs!Init
  <2> SUFFICES ASSUME Init PROVE Abs!Init
    OBVIOUS
  <2>1. Level = [cv \in Curves |-> Unbumped]
    BY DEF Init, Level
  <2>2. req \in [Callers -> {r \in Requests \cup {NoRequest} : r.targets = <<>>}]
    BY DEF Init, NoRequest
  <2>3. Busy = [c \in Callers |-> FALSE]
    BY DEF Init, Busy
  <2>4. QED
    BY <2>1, <2>2, <2>3 DEF Init, Abs!Init, Level, Busy
<1>2. ImplInv /\ ImplInv' /\ [Next]_vars => [Abs!Next]_Abs!vars
  <2>1. ASSUME ImplInv, ImplInv', NEW c \in Callers, Call(c)
        PROVE  Abs!Next
    BY <2>1, Called DEF Call, Abs!Next, Errors
  <2>2. ASSUME ImplInv, ImplInv', NEW c \in Callers, Step(c)
        PROVE  [Abs!Next]_Abs!vars
    BY <2>2, StepMaps DEF Abs!Next, Errors
  <2>3. ASSUME UNCHANGED vars PROVE UNCHANGED Abs!vars
    BY <2>3 DEF vars, curveVars, callVars, seenVars, Abs!vars, Borrowed, Armed, CurveOf
  <2>4. QED
    BY <2>1, <2>2, <2>3 DEF Next
<1>3. Spec => []ImplInv
  BY RiskInvariant, StatusInvariant, PTL DEF ImplInv
<1>4. QED
  BY <1>1, <1>2, <1>3, PTL DEF Spec, ImplementsAbs, Abs!Spec

------------------------------------------------------------------------------
(* Key rates: a level that is bumped at one pillar only is interpolated     *)
(* between that pillar's neighbours, and the parts of all pillars add up.   *)

\* A set of indices has a least one.
LEMMA LeastIndex ==
  ASSUME NEW T, T \subseteq Nat, T # {}
  PROVE  \E x \in T : \A y \in T : x <= y
<1>1. PICK x \in T : \A y \in T : ~ (<<y, x>> \in OpToRel(<, Nat))
  BY NatLessThanWellFounded, WFMin, Zenon
<1>2. ASSUME NEW y \in T
      PROVE  x <= y
  <2>1. ~ (y < x)
    BY <1>1, Zenon DEF OpToRel
  <2> QED
    BY <2>1, SMT
<1> QED
  BY <1>2

\* Tenors grow along a curve, not only from one to the next.
LEMMA TenorsGrow ==
  ASSUME NEW T \in Seq(Int), Buildable(T), NEW i \in DOMAIN T, NEW j \in DOMAIN T, i < j
  PROVE  T[i] < T[j]
<1> DEFINE Bad == {k \in Nat : k \in DOMAIN T /\ i < k /\ T[k] <= T[i]}
<1>1. SUFFICES ASSUME Bad # {}
               PROVE  FALSE
  BY SMT
<1>2. Bad \subseteq Nat
  OBVIOUS
<1>3. PICK k \in Bad : \A m \in Bad : k <= m
  <2> HIDE DEF Bad
  <2> QED
    BY <1>1, <1>2, LeastIndex
<1>4. k \in 2..Len(T) /\ i < k /\ T[k] <= T[i] /\ k - 1 \in DOMAIN T
  BY SMT
<1>5. T[k] > T[k - 1]
  BY <1>4 DEF Buildable
<1>6. CASE k - 1 = i
  BY <1>4, <1>5, <1>6, SMT
<1>7. CASE k - 1 # i
  <2>1. k - 1 \in Bad
    BY <1>4, <1>5, <1>7, SMT
  <2> QED
    BY <1>3, <1>4, <2>1, SMT
<1> QED
  BY <1>6, <1>7

\* The neighbours of a time inside the curve lie on both sides of it.
LEMMA NeighbourIs ==
  ASSUME NEW T \in Seq(Int), Buildable(T), NEW t \in Int, T[1] < t, t < T[Len(T)]
  PROVE  /\ Neighbour(T, t) \in 2..Len(T)
         /\ T[Neighbour(T, t) - 1] < t
         /\ t <= T[Neighbour(T, t)]
<1> DEFINE After == {i \in 2..Len(T) : T[i] >= t}
<1>1. Len(T) \in Nat \ {0} /\ 1 \in DOMAIN T /\ Len(T) \in DOMAIN T
  BY EmptySeq DEF Buildable
<1>2. After \subseteq Nat /\ Len(T) \in After
  BY <1>1, SMT
<1>3. \E x \in After : \A y \in After : x <= y
  <2> HIDE DEF After
  <2> QED
    BY <1>2, LeastIndex
<1>4. Neighbour(T, t) \in After /\ \A y \in After : Neighbour(T, t) <= y
  <2> DEFINE x == Neighbour(T, t)
  <2>1. x = CHOOSE z \in After : \A y \in After : z <= y
    BY DEF Neighbour, Min
  <2> HIDE DEF After, x
  <2>2. x \in After /\ \A y \in After : x <= y
    BY <1>3, <2>1, Zenon
  <2> QED
    BY <2>2 DEF x
<1> DEFINE h == Neighbour(T, t)
<1>5. h \in 2..Len(T) /\ t <= T[h] /\ h - 1 \in DOMAIN T /\ h - 1 \in Int /\ T[h - 1] \in Int
  BY <1>4, <1>1, SMT
<1>6. h - 1 \notin After
  <2> HIDE DEF After
  <2> QED
    BY <1>4, <1>5, SMT
<1>7. T[h - 1] < t
  <2>1. CASE h = 2
    BY <2>1, SMT
  <2>2. CASE h # 2
    <3>1. h - 1 \in 2..Len(T)
      BY <1>5, <2>2, SMT
    <3> QED
      BY <1>5, <1>6, <3>1, SMT
  <2> QED
    BY <2>1, <2>2
<1> QED
  BY <1>5, <1>7

\* The levels of a curve that is bumped by k at pillar i only.
Spike(i, k) == [j \in DOMAIN Grid |-> IF j = i THEN k ELSE 0]

\* The parts of all pillars at one time, if each one is bumped by k in turn.
Spikes(k, t) == [i \in DOMAIN Grid |-> ZeroRate(GridTenors, Spike(i, k), t)]

LEMMA GridFacts ==
  /\ Grid \in Seq(Pillars) /\ GridTenors \in Seq(Int) /\ Buildable(GridTenors)
  /\ Len(Grid) \in Nat \ {0} /\ Len(GridTenors) = Len(Grid)
  /\ DOMAIN Grid = 1..Len(Grid) /\ DOMAIN GridTenors = 1..Len(Grid)
  /\ Times \subseteq Int
<1>1. GridTenors # <<>> /\ GridTenors \in Seq(Int) /\ Len(GridTenors) = Len(Grid)
  BY GridAssumption DEF Buildable
<1>2. Len(GridTenors) # 0
  BY <1>1, EmptySeq
<1> QED
  BY <1>1, <1>2, GridAssumption

LEMMA GridOrder ==
  /\ \A i \in 1..Len(Grid) : GridTenors[i] \in Int
  /\ \A i, j \in 1..Len(Grid) : i < j => GridTenors[i] < GridTenors[j]
<1>1. \A i \in 1..Len(Grid) : GridTenors[i] \in Int
  BY GridFacts
<1> QED
  BY <1>1, GridFacts, TenorsGrow

\* Which pillars reach a time before the first, behind the last, or between two.
LEMMA WhoReaches ==
  ASSUME NEW t \in Int, NEW i \in 1..Len(Grid)
  PROVE  /\ t <= GridTenors[1] => (Reaches(i, t) <=> i = 1)
         /\ t > GridTenors[1] /\ t >= GridTenors[Len(Grid)] =>
              (Reaches(i, t) <=> i = Len(Grid))
         /\ \A h \in 2..Len(Grid) : GridTenors[h - 1] < t /\ t <= GridTenors[h] =>
              (Reaches(i, t) <=> i = h \/ (i = h - 1 /\ t # GridTenors[h]))
<1> DEFINE n == Len(Grid)
           T == GridTenors
<1>a. n \in Nat \ {0} /\ i \in 1..n
  BY GridFacts
<1>b. \A j \in 1..n : T[j] \in Int
  BY GridOrder
<1>c. \A j, m \in 1..n : j < m => T[j] < T[m]
  BY GridOrder
<1>d. Reaches(i, t) <=> (i > 1 => t > T[i - 1]) /\ (i < n => t < T[i + 1])
  BY DEF Reaches
<1> HIDE DEF n, T
<1> USE <1>a, <1>b, <1>c
<1>1. i > 1 => i - 1 \in 1..n
  OBVIOUS
<1>2. i < n => i + 1 \in 1..n
  OBVIOUS
<1>3. i # 1 => T[1] <= T[i - 1]
  BY SMT
<1>4. i # n => T[i + 1] <= T[n]
  BY SMT
<1>5. t <= T[1] => ((i > 1 => t > T[i - 1]) /\ (i < n => t < T[i + 1]) <=> i = 1)
  BY <1>1, <1>2, <1>3, SMT
<1>6. t > T[1] /\ t >= T[n] => ((i > 1 => t > T[i - 1]) /\ (i < n => t < T[i + 1]) <=> i = n)
  BY <1>1, <1>2, <1>4, SMT
<1>7. ASSUME NEW h \in 2..n, T[h - 1] < t, t <= T[h]
      PROVE  (i > 1 => t > T[i - 1]) /\ (i < n => t < T[i + 1])
               <=> i = h \/ (i = h - 1 /\ t # T[h])
  <2>1. CASE i > h
    <3>1. T[i - 1] >= T[h] /\ T[h] \in Int /\ T[i - 1] \in Int
      BY <1>1, <2>1, SMT
    <3> QED
      BY <1>7, <2>1, <3>1, SMT
  <2>2. CASE i = h
    <3>1. i < n => T[i] < T[i + 1]
      BY <1>2, <2>2, SMT
    <3> QED
      BY <1>7, <2>2, <3>1, SMT
  <2>3. CASE i = h - 1
    <3>1. i > 1 => T[i - 1] < T[i] /\ T[i - 1] \in Int
      BY <1>1, SMT
    <3> QED
      BY <1>7, <2>3, <3>1, SMT
  <2>4. CASE i < h - 1
    <3>1. T[i + 1] <= T[h - 1] /\ T[h - 1] \in Int /\ T[i + 1] \in Int
      BY <1>2, <2>4, SMT
    <3> QED
      BY <1>7, <2>4, <3>1, SMT
  <2> QED
    BY <2>1, <2>2, <2>3, <2>4, SMT
<1> QED
  BY <1>d, <1>5, <1>6, <1>7 DEF n, T

\* What one spike is worth: all of it beyond the ends, or linear between.
LEMMA SpikesAre ==
  ASSUME NEW t \in Int, NEW k \in Int, NEW i \in 1..Len(Grid)
  PROVE  /\ t <= GridTenors[1] => Spikes(k, t)[i] = <<IF i = 1 THEN k ELSE 0, 1>>
         /\ t > GridTenors[1] /\ t >= GridTenors[Len(Grid)] =>
              Spikes(k, t)[i] = <<IF i = Len(Grid) THEN k ELSE 0, 1>>
         /\ t > GridTenors[1] /\ t < GridTenors[Len(Grid)] =>
              \A h \in 2..Len(Grid) : h = Neighbour(GridTenors, t) =>
                /\ Spikes(k, t)[i][1] =
                     IF i = h THEN (t - GridTenors[h - 1]) * k
                     ELSE IF i = h - 1 THEN (GridTenors[h] - t) * k
                     ELSE 0
                /\ Spikes(k, t)[i][2] = GridTenors[h] - GridTenors[h - 1]
<1> DEFINE n == Len(Grid)
<1>1. n \in Nat \ {0} /\ DOMAIN Grid = 1..n /\ Len(GridTenors) = n
  BY GridFacts
<1>2. Spikes(k, t)[i] = ZeroRate(GridTenors, Spike(i, k), t)
  BY <1>1 DEF Spikes
<1>3. \A j \in 1..n : Spike(i, k)[j] = IF j = i THEN k ELSE 0
  BY <1>1 DEF Spike
<1>4. Spike(i, k)[1] = (IF i = 1 THEN k ELSE 0) /\ Spike(i, k)[n] = (IF i = n THEN k ELSE 0)
  <2>1. 1 \in 1..n /\ n \in 1..n
    BY <1>1
  <2> HIDE DEF n
  <2> QED
    BY <2>1, <1>3, SMT
<1>5. t <= GridTenors[1] => Spikes(k, t)[i] = <<IF i = 1 THEN k ELSE 0, 1>>
  BY <1>2, <1>4 DEF ZeroRate
<1>6. t > GridTenors[1] /\ t >= GridTenors[n] =>
        Spikes(k, t)[i] = <<IF i = n THEN k ELSE 0, 1>>
  <2>1. 1 \in 1..n /\ n \in 1..n
    BY <1>1
  <2>2. GridTenors[1] \in Int
    BY <2>1, GridOrder
  <2>3. t > GridTenors[1] => ~ (t <= GridTenors[1])
    BY <2>2
  <2>4. ASSUME t > GridTenors[1], t >= GridTenors[n]
        PROVE  ZeroRate(GridTenors, Spike(i, k), t) = <<Spike(i, k)[n], 1>>
    BY <1>1, <2>3, <2>4, Zenon DEF ZeroRate
  <2> QED
    BY <1>2, <1>4, <2>4, Zenon
<1>7. ASSUME t > GridTenors[1], t < GridTenors[n],
             NEW h \in 2..n, h = Neighbour(GridTenors, t)
      PROVE  /\ Spikes(k, t)[i][1] =
                  IF i = h THEN (t - GridTenors[h - 1]) * k
                  ELSE IF i = h - 1 THEN (GridTenors[h] - t) * k
                  ELSE 0
             /\ Spikes(k, t)[i][2] = GridTenors[h] - GridTenors[h - 1]
  <2> DEFINE a == GridTenors[h - 1]
             b == GridTenors[h]
             u == Spike(i, k)[h - 1]
             v == Spike(i, k)[h]
  <2>1. h \in 1..n /\ h - 1 \in 1..n /\ 1 \in 1..n /\ n \in 1..n
    BY <1>1
  <2>2. a \in Int /\ b \in Int /\ GridTenors[1] \in Int /\ GridTenors[n] \in Int
    BY <2>1, GridOrder
  <2>3. u = (IF i = h - 1 THEN k ELSE 0) /\ v = (IF i = h THEN k ELSE 0)
    BY <2>1, <1>3
  <2>4. ~ (t <= GridTenors[1]) /\ ~ (t >= GridTenors[n])
    BY <1>7, <2>2
  <2>5. Spikes(k, t)[i] = Between(GridTenors, Spike(i, k), t)
    BY <1>1, <1>2, <2>4 DEF ZeroRate
  <2>6. Between(GridTenors, Spike(i, k), t) = <<u * (b - a) + (t - a) * (v - u), b - a>>
    BY <1>7 DEF Between
  <2>7. u * (b - a) + (t - a) * (v - u) =
          IF i = h THEN (t - a) * k ELSE IF i = h - 1 THEN (b - t) * k ELSE 0
    <3> HIDE DEF a, b
    <3>1. CASE i = h
      <4>1. u = 0 /\ v = k
        BY <2>3, <3>1, <1>1
      <4> HIDE DEF u, v
      <4> QED
        BY <2>2, <3>1, <4>1, SMT
    <3>2. CASE i = h - 1
      <4>1. u = k /\ v = 0
        BY <2>3, <3>2, <1>1
      <4> HIDE DEF u, v
      <4>2. k * (b - a) + (t - a) * (0 - k) = (b - t) * k
        BY <2>2, SMT
      <4> QED
        BY <2>2, <3>2, <4>1, <4>2, SMT
    <3>3. CASE i # h /\ i # h - 1
      <4>1. u = 0 /\ v = 0
        BY <2>3, <3>3
      <4> HIDE DEF u, v
      <4> QED
        BY <2>2, <3>3, <4>1, SMT
    <3> QED
      BY <3>1, <3>2, <3>3
  <2>8. Spikes(k, t)[i][1] = u * (b - a) + (t - a) * (v - u) /\ Spikes(k, t)[i][2] = b - a
    <3> HIDE DEF a, b, u, v
    <3> QED
      BY <2>5, <2>6
  <2> QED
    BY <2>7, <2>8, Zenon
<1> QED
  BY <1>5, <1>6, <1>7

LEMMA SpikesReach ==
  ASSUME NEW t \in Int, NEW k \in Int, k # 0, NEW i \in 1..Len(Grid)
  PROVE  Spikes(k, t)[i][1] # 0 <=> Reaches(i, t)
<1> DEFINE n == Len(Grid)
           T == GridTenors
<1>1. n \in Nat \ {0}
  BY GridFacts
<1>2. /\ t <= T[1] => (Reaches(i, t) <=> i = 1)
      /\ t > T[1] /\ t >= T[n] => (Reaches(i, t) <=> i = n)
      /\ \A h \in 2..n : T[h - 1] < t /\ t <= T[h] =>
            (Reaches(i, t) <=> i = h \/ (i = h - 1 /\ t # T[h]))
  BY WhoReaches
<1>3. T[1] \in Int /\ T[n] \in Int
  BY <1>1, GridOrder
<1>4. CASE t <= T[1]
  BY <1>2, <1>4, SpikesAre
<1>5. CASE t > T[1] /\ t >= T[n]
  BY <1>2, <1>5, SpikesAre
<1>6. CASE t > T[1] /\ t < T[n]
  <2> DEFINE h == Neighbour(T, t)
  <2>1. h \in 2..n /\ T[h - 1] < t /\ t <= T[h]
    BY <1>6, GridFacts, NeighbourIs
  <2>2. Reaches(i, t) <=> i = h \/ (i = h - 1 /\ t # T[h])
    BY <1>2, <2>1
  <2>3. Spikes(k, t)[i][1] = IF i = h THEN (t - T[h - 1]) * k
                             ELSE IF i = h - 1 THEN (T[h] - t) * k ELSE 0
    BY <1>6, <2>1, SpikesAre
  <2>4. T[h] \in Int /\ T[h - 1] \in Int /\ h \in Int
    <3>1. h \in 1..n /\ h - 1 \in 1..n
      BY <1>1, <2>1
    <3> QED
      BY <3>1, GridOrder
  <2> HIDE DEF h, T
  <2>5. (t - T[h - 1]) * k # 0
    BY <2>1, <2>4, SMT
  <2>6. (T[h] - t) * k # 0 <=> t # T[h]
    BY <2>1, <2>4, SMT
  <2>7. i = h => i # h - 1
    BY <2>4
  <2> QED
    BY <2>2, <2>3, <2>5, <2>6, <2>7
<1> QED
  BY <1>3, <1>4, <1>5, <1>6

LEMMA SpikesAddUp ==
  ASSUME NEW t \in Int, NEW k \in Int
  PROVE  \E i \in DOMAIN Grid : AddUpAt(Spikes(k, t), k, i)
<1> DEFINE n == Len(Grid)
           T == GridTenors
           part == Spikes(k, t)
<1>1. n \in Nat \ {0} /\ DOMAIN Grid = 1..n
  BY GridFacts
<1>2. T[1] \in Int /\ T[n] \in Int
  BY <1>1, GridOrder
<1>3. ASSUME NEW i \in 1..n, \A j \in 1..n : part[j] = <<IF j = i THEN k ELSE 0, 1>>
      PROVE  AddUpAt(part, k, i)
  <2> HIDE DEF part
  <2>1. \A j \in 1..n : part[j][1] = (IF j = i THEN k ELSE 0) /\ part[j][2] = 1
    BY <1>3
  <2>2. i + 1 # i
    OBVIOUS
  <2>3. k + 0 = k * 1 /\ k = k * 1
    BY SMT
  <2> QED
    BY <1>1, <2>1, <2>2, <2>3 DEF AddUpAt
<1>4. CASE t <= T[1]
  <2>1. \A j \in 1..n : part[j] = <<IF j = 1 THEN k ELSE 0, 1>>
    BY <1>4, SpikesAre
  <2>2. 1 \in 1..n
    BY <1>1
  <2> HIDE DEF part, n
  <2>3. AddUpAt(part, k, 1)
    BY <1>3, <2>1, <2>2, Zenon
  <2> QED
    BY <1>1, <2>2, <2>3, Zenon DEF part
<1>5. CASE t > T[1] /\ t >= T[n]
  <2>1. \A j \in 1..n : part[j] = <<IF j = n THEN k ELSE 0, 1>>
    BY <1>5, SpikesAre
  <2>2. n \in 1..n
    BY <1>1
  <2> HIDE DEF part, n
  <2>3. AddUpAt(part, k, n)
    BY <1>3, <2>1, <2>2, Zenon
  <2> QED
    BY <1>1, <2>2, <2>3, Zenon DEF part
<1>6. CASE t > T[1] /\ t < T[n]
  <2> DEFINE h == Neighbour(T, t)
             g == h - 1
  <2>1. h \in 2..n
    BY <1>6, GridFacts, NeighbourIs
  <2>2. \A j \in 1..n :
           /\ part[j][1] = IF j = h THEN (t - T[h - 1]) * k
                           ELSE IF j = h - 1 THEN (T[h] - t) * k ELSE 0
           /\ part[j][2] = T[h] - T[h - 1]
    BY <1>6, <2>1, SpikesAre
  <2>3. g \in 1..n /\ h \in 1..n /\ g + 1 = h /\ g # h
    BY <1>1, <2>1
  <2>4. T[h] \in Int /\ T[h - 1] \in Int
    BY <2>3, GridOrder
  <2> HIDE DEF part, T, h
  <2>5. (T[h] - t) * k + (t - T[h - 1]) * k = k * (T[h] - T[h - 1])
    BY <2>4, SMT
  <2>6. part[g][1] = (T[h] - t) * k /\ part[h][1] = (t - T[h - 1]) * k
    BY <2>2, <2>3
  <2>7. part[g][2] = T[h] - T[h - 1] /\ part[h][2] = T[h] - T[h - 1]
    BY <2>2, <2>3
  <2>8. \A j \in (1..n) \ {g, h} : part[j][1] = 0
    BY <2>2
  <2> HIDE DEF g
  <2>9. AddUpAt(part, k, g)
    BY <1>1, <2>3, <2>5, <2>6, <2>7, <2>8 DEF AddUpAt
  <2> QED
    BY <1>1, <2>3, <2>9, Zenon DEF part
<1>7. t <= T[1] \/ (t > T[1] /\ t >= T[n]) \/ (t > T[1] /\ t < T[n])
  BY <1>2
<1> QED
  BY <1>4, <1>5, <1>6, <1>7, Zenon

\* The levels of a curve that is bumped by k at every pillar.
Everywhere(k) == [j \in DOMAIN Grid |-> k]

\* Such a curve moves by all of the bump, at any time.
LEMMA LevelRate ==
  ASSUME NEW t \in Int, NEW k \in Int,
         NEW rate, rate = ZeroRate(GridTenors, Everywhere(k), t)
  PROVE  rate[1] = k * rate[2]
<1> DEFINE n == Len(Grid)
           T == GridTenors
           levels == [j \in 1..n |-> k]
<1>1. n \in Nat \ {0} /\ DOMAIN Grid = 1..n /\ Len(T) = n
  BY GridFacts
<1>2. 1 \in 1..n /\ n \in 1..n
  BY <1>1
<1>3. T[1] \in Int /\ T[n] \in Int
  BY <1>2, GridOrder
<1>4. rate = ZeroRate(T, levels, t)
  BY <1>1 DEF Everywhere
<1>5. k = k * 1
  BY SMT
<1>6. CASE t <= T[1] \/ (~ (t <= T[1]) /\ t >= T[n])
  <2>1. levels[1] = k /\ levels[n] = k
    BY <1>2
  <2> HIDE DEF levels, n, T
  <2>2. rate = <<k, 1>>
    BY <1>1, <1>4, <1>6, <2>1, Zenon DEF ZeroRate
  <2>3. rate[1] = k /\ rate[2] = 1
    BY <2>2
  <2> QED
    BY <1>5, <2>3
<1>7. CASE ~ (t <= T[1]) /\ ~ (t >= T[n])
  <2> DEFINE h == Neighbour(T, t)
  <2>a. T[1] < t /\ t < T[Len(T)]
    BY <1>1, <1>3, <1>7
  <2>1. h \in 2..n
    BY <1>1, <2>a, GridFacts, NeighbourIs
  <2>2. h \in 1..n /\ h - 1 \in 1..n
    BY <1>1, <2>1
  <2>3. T[h] \in Int /\ T[h - 1] \in Int
    BY <2>2, GridOrder
  <2>4. levels[h] = k /\ levels[h - 1] = k
    BY <2>2
  <2> HIDE DEF levels, n, T, h
  <2>5. rate = Between(T, levels, t)
    BY <1>1, <1>4, <1>7, Zenon DEF ZeroRate
  <2>6. rate = <<k * (T[h] - T[h - 1]) + (t - T[h - 1]) * (k - k), T[h] - T[h - 1]>>
    BY <2>4, <2>5 DEF Between, h
  <2>7. k * (T[h] - T[h - 1]) + (t - T[h - 1]) * (k - k) = k * (T[h] - T[h - 1])
    BY <2>3, SMT
  <2> QED
    BY <2>6, <2>7
<1> QED
  BY <1>6, <1>7

\* The bumps that a revaluation saw, as levels of the grid.
Levels(view) == [j \in DOMAIN Grid |-> view[Grid[j]]]

\* A result was computed from its own spike, or from one level.
LEMMA ExactLevels ==
  ASSUME NEW c \in Callers, NEW r, r.targets = Grid, r.curve \in Curves,
         NEW i \in DOMAIN Grid, NEW s \in {"up", "down"}, NEW f \in 1..NFlows
  PROVE  Levels(Exact(c, r, i)[s][f]) =
           IF Vtable[r.curve].flat THEN Everywhere(Signed(s, BumpSize[c]))
                                   ELSE Spike(i, Signed(s, BumpSize[c]))
<1> DEFINE k == Signed(s, BumpSize[c])
           view == Bumped(Unbumped, Moved(r.curve, Grid[i]), k)
<1>1. k \in Int
  BY CallersAssumption DEF Signed
<1>2. Exact(c, r, i)[s][f] = view
  BY DEF Exact, Sides
<1>3. Grid[i] \in Pillars /\ Grid[i] # All
  BY GridFacts, PillarsAssumption
<1> HIDE DEF k
<1>4. ASSUME NEW j \in DOMAIN Grid
      PROVE  view[Grid[j]] = IF Vtable[r.curve].flat \/ j = i THEN k ELSE 0
  <2>1. Grid[j] \in Pillars
    BY GridFacts
  <2>2. view[Grid[j]] = IF Grid[j] \in Moved(r.curve, Grid[i]) THEN 0 + k ELSE 0
    BY <2>1 DEF Bumped, Unbumped
  <2>3. Grid[j] \in Moved(r.curve, Grid[i]) <=> Vtable[r.curve].flat \/ Grid[i] = Grid[j] \/ Grid[i] = All
    BY <2>1 DEF Moved
  <2>4. Grid[i] = Grid[j] <=> j = i
    BY GridAssumption
  <2> QED
    BY <1>1, <1>3, <2>2, <2>3, <2>4
<1> HIDE DEF view
<1>5. Levels(view) = [j \in DOMAIN Grid |-> IF Vtable[r.curve].flat \/ j = i THEN k ELSE 0]
  BY <1>4 DEF Levels
<1> QED
  BY <1>2, <1>5 DEF Spike, Everywhere, k

\* Key rates over a whole grid add up to the parallel move, for every curve
\* with increasing tenors, however many, and whichever times cash flows have.
THEOREM KeyRatesTile == HonestCurves /\ SoleUsers /\ Spec => []KeyRatesAddUp
<1>1. OutExact /\ StatusInv => KeyRatesAddUp
  <2> SUFFICES ASSUME OutExact, StatusInv,
                      NEW c \in Callers,
                      pc[c] = "idle", status[c] = "OK", req[c].targets = Grid,
                      NEW t \in Times, NEW s \in {"up", "down"}, NEW f \in 1..NFlows
               PROVE  LET part  == Parts(c, s, f, t)
                          whole == Signed(s, BumpSize[c])
                      IN  IF Vtable[CurveOf(c)].flat
                            THEN \A i \in DOMAIN Grid : part[i][1] = whole * part[i][2]
                            ELSE /\ \E i \in DOMAIN Grid : AddUpAt(part, whole, i)
                                 /\ \A i \in DOMAIN Grid : part[i][1] # 0 <=> Reaches(i, t)
    BY DEF KeyRatesAddUp
  <2> DEFINE k == Signed(s, BumpSize[c])
             part == Parts(c, s, f, t)
  <2>1. k \in Int /\ k # 0 /\ t \in Int
    <3>1. BumpSize[c] \in Nat \ {0}
      BY CallersAssumption
    <3>2. k = BumpSize[c] \/ k = - BumpSize[c]
      BY DEF Signed
    <3>3. t \in Int
      BY GridFacts
    <3> HIDE DEF k
    <3> QED
      BY <3>1, <3>2, <3>3
  <2>2. req[c].curve \in Curves
    <3>1. NoRequest.curve \in Curves
      BY CurvesAssumption DEF NoRequest
    <3>2. req[c] \in Requests \cup {NoRequest}
      BY DEF StatusInv, TypeOK
    <3> QED
      BY <3>1, <3>2, CallersAssumption DEF RequestType
  <2>3. DOMAIN out[c] = DOMAIN Grid
    BY GridFacts DEF StatusInv, TypeOK, WrittenSoFar
  <2>4. ASSUME NEW i \in DOMAIN Grid
        PROVE  out[c][i] = Exact(c, req[c], i)
    BY <2>3 DEF StatusInv, ToldRight, OutExact
  <2>5. ASSUME NEW i \in DOMAIN Grid
        PROVE  part[i] = ZeroRate(GridTenors,
                 IF Vtable[CurveOf(c)].flat THEN Everywhere(k) ELSE Spike(i, k), t)
    <3>1. part[i] = ZeroRate(GridTenors, Levels(Exact(c, req[c], i)[s][f]), t)
      BY <2>4 DEF Parts, Shift, Levels
    <3>2. Levels(Exact(c, req[c], i)[s][f]) =
            IF Vtable[req[c].curve].flat THEN Everywhere(k) ELSE Spike(i, k)
      BY <2>2, ExactLevels
    <3> HIDE DEF k, part
    <3> QED
      BY <3>1, <3>2, Zenon DEF CurveOf
  <2> HIDE DEF k, part
  <2>6. CASE Vtable[CurveOf(c)].flat
    <3>1. ASSUME NEW i \in DOMAIN Grid
          PROVE  part[i][1] = k * part[i][2]
      BY <2>1, <2>5, <2>6, LevelRate
    <3> QED
      BY <2>6, <3>1 DEF k, part
  <2>7. CASE ~ Vtable[CurveOf(c)].flat
    <3>1. part = Spikes(k, t)
      BY <2>5, <2>7 DEF Spikes, part, Parts
    <3>2. \E i \in DOMAIN Grid : AddUpAt(part, k, i)
      BY <2>1, <3>1, SpikesAddUp
    <3>3. \A i \in DOMAIN Grid : part[i][1] # 0 <=> Reaches(i, t)
      BY <2>1, <3>1, GridFacts, SpikesReach
    <3> QED
      BY <2>7, <3>2, <3>3 DEF k, part
  <2> QED
    BY <2>6, <2>7
<1> QED
  BY <1>1, ResultsExact, StatusInvariant, PTL
=============================================================================
