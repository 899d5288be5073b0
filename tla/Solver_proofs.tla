---------------------------- MODULE Solver_proofs ----------------------------
(***************************************************************************)
(* The root finders never leave their range, never lose the sign change    *)
(* they started from, answer only with what that allows, and give up only  *)
(* for a reason: for every objective, range, guess and tolerance.          *)
(***************************************************************************)
EXTENDS SolverImpl, TLAPS

\* What the steps need besides the signs: every variable in its range.
TypeOK ==
  /\ f \in Objectives /\ route \in {"yield", "spread"}
  /\ phase \in {"asked", "widen", "newton", "brent", "done"}
  /\ phase = "newton" => route = "yield"
  /\ phase \in {"widen", "brent"} => route = "spread"
  /\ step \in Nat /\ d \in Int /\ e \in Int /\ root \in Lo..Hi

IInv == TypeOK /\ SearchConfined /\ RootTrapped /\ AnswerTrusted

\* An objective's value in the range is an integer, or there is no price.
LEMMA ValueType ==
  ASSUME TypeOK, NEW p \in Lo..Hi
  PROVE  V(p) = f[p] /\ V(p) \in Int \cup {NaN}
BY ObjectivesAssumption DEF TypeOK, V

LEMMA FiniteType ==
  ASSUME TypeOK, NEW p \in Lo..Hi, Finite(V(p))
  PROVE  V(p) \in Int
BY ValueType DEF Finite

LEMMA RangeType == Lo \in Int /\ Hi \in Int /\ Lo < Hi /\ Lo..Hi \subseteq Int
BY RangeAssumption

-----------------------------------------------------------------------------
(* Newton: where a step lands.                                             *)

\* A landing lies in the range, and strictly inside the bracket if it is two
\* steps or more from an end.
LEMMA LandingInside ==
  ASSUME NEW p \in Lo..Hi, NEW q \in Lo..Hi, NEW next \in Landing(p, q)
  PROVE  /\ next \in Lo..Hi
         /\ p <= q => p <= next /\ next <= q
         /\ q <= p => q <= next /\ next <= p
         /\ Abs(next - p) > 1 \/ Abs(next - q) > 1 => next \in Between(p, q)
<1>1. p \in Int /\ q \in Int /\ Lo \in Int /\ Hi \in Int
  BY RangeType
<1>2. CASE next \in Between(p, q)
  BY <1>1, <1>2 DEF Between
<1>3. CASE next = (p + q) \div 2
  <2>1. next \in Int /\ 2 * next <= p + q /\ p + q <= 2 * next + 1
    BY <1>1, <1>3
  <2>2. /\ next \in Lo..Hi
        /\ p <= q => p <= next /\ next <= q
        /\ q <= p => q <= next /\ next <= p
    BY <1>1, <2>1
  <2>3. ASSUME Abs(next - p) > 1 \/ Abs(next - q) > 1
        PROVE  next \in Between(p, q)
    BY <1>1, <2>1, <2>2, <2>3 DEF Between, Abs
  <2>4. QED
    BY <2>2, <2>3
<1>4. QED
  BY <1>2, <1>3 DEF Landing

\* A landing far from x is far from the end x has become.
LEMMA FarFromAnEnd ==
  ASSUME NEW p \in Int, NEW q \in Int, NEW n \in Int, NEW y \in {p, q}
  PROVE  Abs(n - y) > 1 => Abs(n - p) > 1 \/ Abs(n - q) > 1
OBVIOUS

\* Tightening keeps the signs, and leaves x on an end.
LEMMA TightenSigns ==
  ASSUME TypeOK, SearchConfined, RootTrapped, phase = "newton",
         Finite(V(x)), V(x) # 0, Tighten, UNCHANGED f
  PROVE  /\ a' \in Lo..Hi /\ b' \in Lo..Hi /\ x \in {a', b'}
         /\ Finite(V(a')) /\ Finite(V(b')) /\ V(a') < 0 /\ V(b') > 0
<1>1. a \in Lo..Hi /\ b \in Lo..Hi /\ x \in Lo..Hi
  BY DEF SearchConfined
<1>2. V(a) < 0 /\ V(b) > 0 /\ Finite(V(a)) /\ Finite(V(b))
  BY DEF RootTrapped
<1>3. V(x) \in Int
  BY <1>1, FiniteType
<1>4. CASE V(x) < 0
  BY <1>1, <1>2, <1>4 DEF Tighten
<1>5. CASE ~ (V(x) < 0)
  <2>1. V(x) > 0
    BY <1>3, <1>5
  <2>2. QED
    BY <1>1, <1>2, <1>5, <2>1 DEF Tighten
<1>6. QED
  BY <1>4, <1>5

-----------------------------------------------------------------------------
(* Brent: what an iteration starts from, and where it moves.               *)

LEMMA Turned ==
  ASSUME TypeOK, SearchConfined, RootTrapped, phase = "brent"
  PROVE  /\ Best \in Lo..Hi /\ Other \in Lo..Hi /\ Prior \in Lo..Hi
         /\ V(Best) \in Int /\ V(Other) \in Int
         /\ V(Best) = 0 \/ Opposite(V(Best), V(Other))
         /\ LastMove \in Int /\ BeforeLast \in Int
<1>1. a \in Lo..Hi /\ b \in Lo..Hi /\ c \in Lo..Hi
  BY DEF SearchConfined
<1>2. /\ Finite(V(a)) /\ Finite(V(b)) /\ Finite(V(c))
      /\ V(b) = 0 \/ Opposite(V(b), V(c)) \/ Opposite(V(b), V(a))
  BY DEF RootTrapped
<1>3. V(a) \in Int /\ V(b) \in Int /\ V(c) \in Int
  BY <1>1, <1>2, FiniteType
<1>4. Across \in Lo..Hi /\ V(Across) \in Int
  BY <1>1, <1>3 DEF Across
<1>5. V(b) = 0 \/ Opposite(V(b), V(Across))
  BY <1>2 DEF Across, Flip
<1>6. Best \in Lo..Hi /\ Other \in Lo..Hi /\ Prior \in Lo..Hi
  BY <1>1, <1>4 DEF Best, Other, Prior
<1>7. V(Best) \in Int /\ V(Other) \in Int
  BY <1>3, <1>4 DEF Best, Other
<1>8. LastMove \in Int /\ BeforeLast \in Int
  BY <1>1, RangeType DEF TypeOK, LastMove, BeforeLast
<1>9. V(Best) = 0 \/ Opposite(V(Best), V(Other))
  <2>1. CASE Swap
    <3>1. V(b) # 0
      BY <1>3, <1>4, <2>1 DEF Swap, Abs
    <3>2. Opposite(V(Across), V(b))
      BY <1>3, <1>4, <1>5, <3>1 DEF Opposite
    <3>3. QED
      BY <2>1, <3>2 DEF Best, Other
  <2>2. CASE ~ Swap
    BY <1>5, <2>2 DEF Best, Other
  <2>3. QED
    BY <2>1, <2>2
<1>10. QED
  BY <1>6, <1>7, <1>8, <1>9

\* A move short of three quarters of the bracket ends strictly inside it.
LEMMA MoveInside ==
  ASSUME NEW p \in Lo..Hi, NEW q \in Lo..Hi, NEW m \in Nat, Abs(q - p) > Tol,
         4 * m < 3 * Abs(q - p) - Tol
  PROVE  p + Toward(p, q) * Reach(m) \in Between(p, q)
<1>1. p \in Int /\ q \in Int /\ Lo \in Int /\ Hi \in Int
  BY RangeType
<1>2. Tol \in Nat /\ Tol > 0 /\ Tol % 2 = 0
  BY ConfigAssumption
<1>3. Tol \div 2 \in Nat /\ 2 * (Tol \div 2) = Tol
  BY <1>2
<1>4. Reach(m) \in Nat /\ Reach(m) > 0 /\ Reach(m) < Abs(q - p)
  BY <1>1, <1>2, <1>3 DEF Reach, Abs
<1>5. CASE p < q
  <2>1. Toward(p, q) * Reach(m) = Reach(m)
    BY <1>4, <1>5 DEF Toward
  <2>2. Reach(m) < q - p
    BY <1>1, <1>4, <1>5 DEF Abs
  <2>3. QED
    BY <1>1, <1>4, <2>1, <2>2 DEF Between
<1>6. CASE ~ (p < q)
  <2>1. Toward(p, q) * Reach(m) = - Reach(m)
    BY <1>4, <1>6 DEF Toward
  <2>2. Reach(m) < p - q
    BY <1>1, <1>4, <1>6 DEF Abs
  <2>3. QED
    BY <1>1, <1>4, <2>1, <2>2 DEF Between
<1>7. QED
  BY <1>5, <1>6
-----------------------------------------------------------------------------
(* The actions, one lemma each where there is something to show.           *)

LEMMA InitInv == Init => IInv
<1> SUFFICES ASSUME Init PROVE IInv
  OBVIOUS
<1>1. TypeOK
  BY GuessAssumption, ConfigAssumption, RangeType DEF Init, TypeOK
<1>2. SearchConfined
  BY GuessAssumption DEF Init, SearchConfined
<1>3. RootTrapped /\ AnswerTrusted
  BY DEF Init, RootTrapped, AnswerTrusted
<1>4. QED
  BY <1>1, <1>2, <1>3 DEF IInv

\* Giving up changes no point and promises nothing.
LEMMA FailedInv ==
  ASSUME IInv, NEW s \in {"NO_CONVERGENCE", "BAD_SCHEDULE"}, Failed(s),
         UNCHANGED <<callVars, step, d, e>>, SearchConfined'
  PROVE  IInv'
<1>1. TypeOK'
  BY DEF IInv, TypeOK, Failed, callVars
<1>2. RootTrapped' /\ AnswerTrusted'
  BY DEF Failed, RootTrapped, AnswerTrusted
<1>3. QED
  BY <1>1, <1>2 DEF IInv

LEMMA AskYieldInv == ASSUME IInv, AskYield PROVE IInv'
<1>1. TypeOK /\ SearchConfined /\ Lo \in Int /\ Hi \in Int /\ Lo < Hi
  BY RangeType DEF IInv
<1>2. a' \in Lo..Hi /\ b' \in Lo..Hi /\ x' \in Lo..Hi
  BY <1>1, GuessAssumption DEF AskYield
<1>3. SearchConfined'
  BY <1>1, <1>2 DEF AskYield, SearchConfined, brentVars
<1>4. f' = f /\ route' = "yield" /\ UNCHANGED <<step, d, e>>
  BY DEF AskYield, callVars, brentVars, widenVars
<1>5. CASE phase' = "newton" /\ UNCHANGED <<status, root>> /\ Opposite(V(Lo), V(Hi))
  <2>1. V(Lo) \in Int /\ V(Hi) \in Int /\ V(Lo)' = V(Lo) /\ V(Hi)' = V(Hi)
    BY <1>1, <1>4, <1>5, FiniteType DEF Opposite, V
  <2>2. Finite(V(a')) /\ Finite(V(b')) /\ V(a') < 0 /\ V(b') > 0
    BY <1>1, <1>5, <2>1 DEF AskYield, Opposite
  <2>3. x' \in Between(a', b')
    BY <1>1, <1>2, GuessAssumption, RangeAssumption DEF AskYield, Between
  <2>4. RootTrapped'
    BY <1>4, <1>5, <2>2, <2>3 DEF RootTrapped, V, Finite, Between
  <2>5. TypeOK' /\ AnswerTrusted'
    BY <1>1, <1>4, <1>5 DEF TypeOK, AnswerTrusted
  <2>6. QED
    BY <1>3, <2>4, <2>5 DEF IInv
<1>6. CASE EndRoots # {} /\ Found(IF Lo \in EndRoots THEN Lo ELSE Hi)
  <2>1. root' \in Lo..Hi /\ V(root') = 0 /\ phase' = "done" /\ status' = "OK"
    BY <1>1, <1>6 DEF EndRoots, Found
  <2>2. TypeOK' /\ RootTrapped'
    BY <1>1, <1>4, <2>1 DEF TypeOK, RootTrapped
  <2>3. V(root)' = 0 /\ Finite(V(root))' /\ Abs(0) <= Tol
    BY <1>4, <2>1, ObjectivesAssumption, ConfigAssumption DEF V, Finite, Abs
  <2>4. AnswerTrusted'
    BY <1>4, <2>3 DEF AnswerTrusted
  <2>5. QED
    BY <1>3, <2>2, <2>4 DEF IInv
<1>7. CASE Failed("NO_CONVERGENCE")
  BY <1>3, <1>4, <1>7, FailedInv DEF AskYield
<1>8. QED
  BY <1>5, <1>6, <1>7 DEF AskYield

LEMMA AskSpreadInv == ASSUME IInv, AskSpread PROVE IInv'
<1>1. TypeOK /\ SearchConfined /\ Lo \in Int /\ Hi \in Int /\ Guess \in Lo..Hi
  BY RangeType, GuessAssumption DEF IInv
<1>2. /\ SearchConfined' /\ route' = "spread"
      /\ UNCHANGED <<f, step, d, e>>
  BY <1>1 DEF AskSpread, SearchConfined, callVars, brentVars, widenVars
<1>3. CASE Failed("NO_CONVERGENCE")
  BY <1>2, <1>3, FailedInv DEF AskSpread
<1>4. CASE V(Guess) = 0 /\ Found(Guess)
  <2>1. TypeOK' /\ RootTrapped'
    BY <1>1, <1>2, <1>4 DEF TypeOK, RootTrapped, Found
  <2>2. root' = Guess /\ V(Guess)' = 0 /\ Guess <= Guess /\ Guess - Guess <= Tol
    BY <1>1, <1>2, <1>4, ConfigAssumption DEF Found, V
  <2>3. AnswerTrusted'
    BY <1>1, <1>2, <2>2 DEF AnswerTrusted, Brackets
  <2>4. QED
    BY <1>2, <2>1, <2>3 DEF IInv
<1>5. CASE phase' = "widen" /\ UNCHANGED <<status, root>>
  <2>1. TypeOK' /\ RootTrapped' /\ AnswerTrusted'
    BY <1>1, <1>2, <1>5 DEF TypeOK, RootTrapped, AnswerTrusted
  <2>2. QED
    BY <1>2, <2>1 DEF IInv
<1>6. QED
  BY <1>3, <1>4, <1>5 DEF AskSpread

\* The widened ends stay in the range.
LEMMA EndsInRange ==
  ASSUME TypeOK, SearchConfined
  PROVE  Lower \in Lo..Hi /\ Upper \in Lo..Hi /\ Widened \in Lo..Hi
<1>1. a \in Lo..Hi /\ b \in Lo..Hi /\ step \in Nat /\ Lo \in Int /\ Hi \in Int /\ Lo < Hi
  BY RangeType DEF TypeOK, SearchConfined
<1>2. QED
  BY <1>1 DEF Lower, Upper, Widened

\* Brent starts from a sign change.
LEMMA HandOverInv ==
  ASSUME IInv, phase = "widen", NEW p \in Lo..Hi, NEW q \in Lo..Hi,
         Opposite(V(p), V(q)), HandOver(p, q)
  PROVE  IInv'
<1>1. TypeOK /\ SearchConfined /\ p \in Int /\ q \in Int /\ route = "spread"
  BY RangeType DEF IInv, TypeOK
<1>2. /\ phase' = "brent" /\ a' = p /\ b' = q /\ c' = p /\ d' = q - p /\ e' = q - p
      /\ UNCHANGED <<f, route, x, step, root>>
  BY DEF HandOver, callVars, widenVars
<1>3. TypeOK' /\ SearchConfined' /\ AnswerTrusted'
  BY <1>1, <1>2 DEF TypeOK, SearchConfined, AnswerTrusted
<1>4. V(p)' = V(p) /\ V(q)' = V(q) /\ Opposite(V(q), V(p))
  BY <1>1, <1>2, FiniteType DEF V, Opposite
<1>5. RootTrapped'
  BY <1>2, <1>4 DEF RootTrapped, Opposite, Finite, V
<1>6. QED
  BY <1>3, <1>5 DEF IInv

LEMMA WidenInv == ASSUME IInv, WidenDown \/ WidenUp \/ WidenBoth PROVE IInv'
<1>1. /\ TypeOK /\ SearchConfined /\ b \in Lo..Hi
      /\ Lower \in Lo..Hi /\ Upper \in Lo..Hi /\ Widened \in Lo..Hi
  BY EndsInRange DEF IInv, SearchConfined
<1>2. CASE WidenDown
  BY <1>1, <1>2, HandOverInv DEF WidenDown
<1>3. CASE WidenUp
  BY <1>1, <1>3, HandOverInv DEF WidenUp, Helpless
<1>4. CASE WidenBoth
  <2>1. /\ a' \in Lo..Hi /\ b' \in Lo..Hi
        /\ UNCHANGED <<f, route, c, d, e, x>>
    BY <1>1, <1>4 DEF WidenBoth, callVars, brentVars
  <2>2. SearchConfined'
    BY <1>1, <2>1 DEF SearchConfined
  <2>3. CASE Failed("NO_CONVERGENCE") /\ UNCHANGED widenVars
    BY <2>1, <2>2, <2>3, FailedInv DEF widenVars, callVars
  <2>4. CASE step' = (step * 8) \div 5 /\ UNCHANGED <<phase, status, root>>
    <3>1. phase = "widen" /\ step' \in Nat
      BY <1>1, <1>4, <2>4 DEF WidenBoth, Helpless, TypeOK
    <3>2. TypeOK' /\ RootTrapped' /\ AnswerTrusted'
      BY <1>1, <2>1, <2>4, <3>1 DEF TypeOK, RootTrapped, AnswerTrusted
    <3>3. QED
      BY <2>2, <3>2 DEF IInv
  <2>5. QED
    BY <1>4, <2>3, <2>4 DEF WidenBoth
<1>5. QED
  BY <1>2, <1>3, <1>4

LEMMA NewtonHitInv == ASSUME IInv, NewtonHit PROVE IInv'
<1>1. /\ TypeOK /\ a \in Lo..Hi /\ b \in Lo..Hi /\ c \in Lo..Hi /\ x \in Lo..Hi
      /\ phase' = "done" /\ root' = x /\ Finite(V(x)) /\ Abs(V(x)) <= Tol
      /\ UNCHANGED <<f, route, c, d, e, x, step>>
  BY DEF IInv, SearchConfined, NewtonHit, Found, callVars, brentVars, widenVars
<1>2. SearchConfined' /\ TypeOK' /\ RootTrapped'
  BY <1>1 DEF NewtonHit, Tighten, SearchConfined, TypeOK, RootTrapped
<1>3. V(root)' = V(x)
  BY <1>1 DEF V
<1>4. route = "yield"
  BY <1>1 DEF NewtonHit, TypeOK
<1>5. AnswerTrusted'
  BY <1>1, <1>3, <1>4 DEF AnswerTrusted, Finite, Abs
<1>6. QED
  BY <1>2, <1>5 DEF IInv

LEMMA NewtonMoveInv == ASSUME IInv, NewtonMove PROVE IInv'
<1>1. /\ TypeOK /\ SearchConfined /\ RootTrapped /\ phase = "newton" /\ route = "yield"
      /\ a \in Lo..Hi /\ b \in Lo..Hi /\ c \in Lo..Hi /\ x \in Lo..Hi
      /\ UNCHANGED <<f, route, c, d, e, step>>
  BY DEF IInv, TypeOK, SearchConfined, NewtonMove, callVars, brentVars, widenVars
<1>2. Tol \in Nat /\ Tol > 1 /\ Slack[x] \in Nat /\ Slack[x] >= Tol
  BY <1>1, ConfigAssumption, SlackAssumption
<1>3. V(x) # 0
  BY <1>2 DEF NewtonMove, Abs
<1>4. /\ a' \in Lo..Hi /\ b' \in Lo..Hi /\ x \in {a', b'}
      /\ Finite(V(a')) /\ Finite(V(b')) /\ V(a') < 0 /\ V(b') > 0
  BY <1>1, <1>3, TightenSigns DEF NewtonMove
<1>5. PICK next \in Landing(a', b') :
        \/ Abs(next - x) <= Slack[x] /\ Found(next) /\ UNCHANGED <<x, iter>>
        \/ /\ Abs(next - x) > Slack[x] /\ x' = next /\ iter' = iter + 1
           /\ UNCHANGED <<phase, status, root>>
  BY DEF NewtonMove
<1>6. /\ next \in Lo..Hi
      /\ a' <= b' => a' <= next /\ next <= b'
      /\ b' <= a' => b' <= next /\ next <= a'
      /\ Abs(next - a') > 1 \/ Abs(next - b') > 1 => next \in Between(a', b')
  BY <1>4, LandingInside
<1>7. /\ V(a)' = V(a') /\ V(b)' = V(b')
      /\ V(a') \in Int /\ V(b') \in Int
  BY <1>1, <1>4, FiniteType DEF V
<1>8. CASE Abs(next - x) <= Slack[x] /\ Found(next) /\ UNCHANGED <<x, iter>>
  <2>0. a' \in Int /\ b' \in Int /\ next \in Int
    BY <1>4, <1>6, RangeType
  <2>1. /\ phase' = "done" /\ root' = next
        /\ TypeOK' /\ SearchConfined' /\ RootTrapped'
    BY <1>1, <1>4, <1>6, <1>8 DEF Found, TypeOK, SearchConfined, RootTrapped
  <2>2. next \in Between(a', b') \cup {a', b'}
    BY <1>4, <1>6, <2>0, RangeType DEF Between
  <2>3. AnswerTrusted'
    BY <1>1, <1>4, <1>7, <1>8, <2>1, <2>2 DEF AnswerTrusted, Finite, Between, Found
  <2>4. QED
    BY <2>1, <2>3 DEF IInv
<1>9. CASE Abs(next - x) > Slack[x] /\ x' = next /\ UNCHANGED <<phase, status, root>>
  <2>0. a' \in Int /\ b' \in Int /\ next \in Int
    BY <1>4, <1>6, RangeType
  <2>1. TypeOK' /\ SearchConfined' /\ AnswerTrusted'
    BY <1>1, <1>4, <1>6, <1>9 DEF TypeOK, SearchConfined, AnswerTrusted
  <2>2. Abs(next - a') > 1 \/ Abs(next - b') > 1
    <3>1. x \in {a', b'} /\ Abs(next - x) > 1
      BY <1>1, <1>2, <1>4, <1>9, <2>0, RangeType DEF Abs
    <3> QED
      BY <2>0, <3>1, FarFromAnEnd
  <2>3. next \in Between(a', b')
    BY <1>6, <2>2
  <2>4. RootTrapped'
    BY <1>1, <1>4, <1>7, <1>9, <2>3 DEF RootTrapped, Finite, Between
  <2>5. QED
    BY <2>1, <2>4 DEF IInv
<1>10. QED
  BY <1>5, <1>8, <1>9

LEMMA BrentSettlesInv == ASSUME IInv, BrentSettles PROVE IInv'
<1>1. /\ TypeOK /\ SearchConfined /\ RootTrapped /\ phase = "brent" /\ route = "spread"
      /\ x \in Lo..Hi /\ UNCHANGED <<f, route, x, step>>
  BY DEF IInv, TypeOK, SearchConfined, BrentSettles, Running, callVars, widenVars
<1>2. /\ Best \in Lo..Hi /\ Other \in Lo..Hi /\ Prior \in Lo..Hi
      /\ V(Best) \in Int /\ V(Other) \in Int
      /\ V(Best) = 0 \/ Opposite(V(Best), V(Other))
      /\ LastMove \in Int /\ BeforeLast \in Int
  BY <1>1, Turned
<1>3. /\ a' = Prior /\ b' = Best /\ c' = Other /\ d' = LastMove /\ e' = BeforeLast
      /\ phase' = "done" /\ root' = Best /\ Settled
  BY DEF BrentSettles, Found
<1>4. TypeOK' /\ SearchConfined' /\ RootTrapped'
  BY <1>1, <1>2, <1>3 DEF TypeOK, SearchConfined, RootTrapped
<1>5. \A p \in Lo..Hi : V(p)' = V(p)
  BY <1>1 DEF V
<1>6. AnswerTrusted'
  <2>1. CASE V(Best) = 0
    <3>1. Best <= Best /\ Best - Best <= Tol
      BY <1>2, ConfigAssumption, RangeType
    <3>2. Brackets(root, root)'
      BY <1>2, <1>3, <1>5, <2>1, <3>1 DEF Brackets
    <3>3. QED
      BY <1>1, <1>2, <1>3, <3>1, <3>2 DEF AnswerTrusted
  <2>2. CASE V(Best) # 0
    <3>1. Opposite(V(Best), V(Other)) /\ Opposite(V(Other), V(Best)) /\ Width <= Tol
      BY <1>2, <1>3, <2>2 DEF Settled, Opposite
    <3>2. Opposite(V(b), V(c))' /\ Opposite(V(c), V(b))'
      BY <1>2, <1>3, <1>5, <3>1
    <3>3. CASE Best <= Other
      <4>1. Other - Best <= Tol
        BY <1>2, <3>1, <3>3, RangeType DEF Width, Abs
      <4>2. QED
        BY <1>1, <1>2, <1>3, <3>2, <3>3, <4>1 DEF AnswerTrusted, Brackets
    <3>4. CASE Other <= Best
      <4>1. Best - Other <= Tol
        BY <1>2, <3>1, <3>4, RangeType DEF Width, Abs
      <4>2. QED
        BY <1>1, <1>2, <1>3, <3>2, <3>4, <4>1 DEF AnswerTrusted, Brackets
    <3>5. QED
      BY <1>2, <3>3, <3>4, RangeType
  <2>3. QED
    BY <2>1, <2>2
<1>7. QED
  BY <1>4, <1>6 DEF IInv

\* A move inside the bracket leaves b facing one of its two ends.
LEMMA MoveByInv ==
  ASSUME IInv, Running, ~ Settled, NEW m \in Nat, NEW before \in Int,
         4 * m < 3 * Width - Tol, MoveBy(m, before)
  PROVE  IInv'
<1>1. /\ TypeOK /\ SearchConfined /\ RootTrapped /\ phase = "brent" /\ route = "spread"
      /\ x \in Lo..Hi /\ UNCHANGED <<f, route, x, step>>
  BY DEF IInv, TypeOK, SearchConfined, Running, MoveBy, callVars, widenVars
<1>2. /\ Best \in Lo..Hi /\ Other \in Lo..Hi
      /\ V(Best) \in Int /\ V(Other) \in Int
      /\ V(Best) = 0 \/ Opposite(V(Best), V(Other))
  BY <1>1, Turned
<1>3. V(Best) # 0 /\ Width > Tol /\ Opposite(V(Best), V(Other))
  BY <1>2, ConfigAssumption, RangeType DEF Settled, Width, Abs
<1>4. a' = Best /\ c' = Other /\ b' = Best + Toward(Best, Other) * Reach(m)
      /\ d' = Toward(Best, Other) * m /\ e' = before
  BY DEF MoveBy
<1>5. b' \in Between(Best, Other)
  BY <1>2, <1>3, <1>4, MoveInside DEF Width
<1>6. b' \in Lo..Hi /\ d' \in Int /\ e' \in Int
  BY <1>4, <1>5 DEF Between, Toward
<1>7. SearchConfined'
  BY <1>1, <1>2, <1>4, <1>6 DEF SearchConfined
<1>8. \A p \in Lo..Hi : V(p)' = V(p)
  BY <1>1 DEF V
<1>9. CASE Finite(V(b')) /\ UNCHANGED <<phase, status, root>>
  <2>1. TypeOK' /\ AnswerTrusted'
    BY <1>1, <1>6, <1>9 DEF TypeOK, AnswerTrusted
  <2>2. V(b') \in Int
    BY <1>1, <1>6, <1>9, FiniteType
  <2>3. V(b') = 0 \/ Opposite(V(b'), V(Other)) \/ Opposite(V(b'), V(Best))
    BY <1>2, <1>3, <1>9, <2>2 DEF Opposite
  <2>4. V(a)' = V(Best) /\ V(c)' = V(Other) /\ V(b)' = V(b')
    BY <1>1, <1>4 DEF V
  <2>5. RootTrapped'
    BY <1>1, <1>3, <1>9, <2>3, <2>4 DEF RootTrapped, Opposite, Finite
  <2>6. QED
    BY <1>7, <2>1, <2>5 DEF IInv
<1>10. CASE Failed("NO_CONVERGENCE")
  <2>1. TypeOK' /\ RootTrapped' /\ AnswerTrusted'
    BY <1>1, <1>6, <1>10 DEF TypeOK, RootTrapped, AnswerTrusted, Failed
  <2>2. QED
    BY <1>7, <2>1 DEF IInv
<1>11. QED
  BY <1>9, <1>10 DEF MoveBy

\* Interpolated or half-way, a move is short of three quarters of the bracket.
LEMMA MovesAllowed ==
  ASSUME IInv, BrentInterpolates \/ BrentBisects
  PROVE  \E m \in Nat, before \in Int :
           Running /\ ~ Settled /\ 4 * m < 3 * Width - Tol /\ MoveBy(m, before)
<1>1. /\ Best \in Int /\ Other \in Int /\ LastMove \in Int
      /\ Tol \in Nat /\ Tol > 1
  <2>1. TypeOK /\ SearchConfined /\ RootTrapped /\ phase = "brent"
    BY DEF IInv, BrentInterpolates, BrentBisects, Running
  <2>2. QED
    BY <2>1, Turned, RangeType, ConfigAssumption
<1>2. CASE BrentInterpolates
  <2>1. PICK m \in Interpolated : MoveBy(m, LastMove)
    BY <1>2 DEF BrentInterpolates
  <2>2. m \in Nat /\ 4 * m < 3 * Width - Tol
    BY RangeType DEF Interpolated
  <2>3. QED
    BY <1>1, <1>2, <2>1, <2>2 DEF BrentInterpolates
<1>3. CASE BrentBisects
  <2>1. Width \in Nat /\ Width > Tol
    BY <1>1, <1>3 DEF BrentBisects, Settled, Width, Abs
  <2>2. Halfway \in Nat /\ 2 * Halfway <= Width
    BY <2>1 DEF Halfway
  <2>3. 4 * Halfway < 3 * Width - Tol
    BY <1>1, <2>1, <2>2
  <2>4. Toward(Best, Other) * Halfway \in Int
    BY <2>2 DEF Toward
  <2>5. QED
    BY <1>3, <2>2, <2>3, <2>4 DEF BrentBisects
<1>4. QED
  BY <1>2, <1>3

LEMMA BrentMovesInv == ASSUME IInv, BrentInterpolates \/ BrentBisects PROVE IInv'
BY MovesAllowed, MoveByInv

-----------------------------------------------------------------------------
LEMMA StepInv == ASSUME IInv, [Next]_vars PROVE IInv'
<1>1. CASE NoAccrued \/ NewtonNaN \/ Exhausted
  <2>1. SearchConfined' /\ UNCHANGED <<callVars, step, d, e>>
    BY <1>1 DEF IInv, SearchConfined, NoAccrued, NewtonNaN, Exhausted, brentVars, widenVars
  <2>2. QED
    BY <1>1, <2>1, FailedInv DEF NoAccrued, NewtonNaN, Exhausted
<1>2. CASE AskYield
  BY <1>2, AskYieldInv
<1>3. CASE AskSpread
  BY <1>3, AskSpreadInv
<1>4. CASE WidenDown \/ WidenUp \/ WidenBoth
  BY <1>4, WidenInv
<1>5. CASE NewtonHit
  BY <1>5, NewtonHitInv
<1>6. CASE NewtonMove
  BY <1>6, NewtonMoveInv
<1>7. CASE BrentSettles
  BY <1>7, BrentSettlesInv
<1>8. CASE BrentInterpolates \/ BrentBisects
  BY <1>8, BrentMovesInv
<1>9. CASE UNCHANGED vars
  BY <1>9 DEF IInv, TypeOK, SearchConfined, RootTrapped, AnswerTrusted, Brackets, V,
              Finite, Between, Opposite, vars
<1>10. QED
  BY <1>1, <1>2, <1>3, <1>4, <1>5, <1>6, <1>7, <1>8, <1>9 DEF Next

\* The conjunction the three theorems below take their part of.
LEMMA Inductive == Spec => []IInv
<1>1. IInv /\ [Next]_vars => IInv'
  BY StepInv
<1>2. QED
  BY InitInv, <1>1, PTL DEF Spec

\* No point outside [lo, hi] is ever priced, where bracket_root, solve_newton
\* and solve_brent work.
THEOREM SearchStaysInside == Spec => []SearchConfined
<1>1. IInv => SearchConfined
  BY DEF IInv
<1>2. QED
  BY Inductive, <1>1, PTL

\* While solve_newton or solve_brent runs, a sign change stays between the
\* points it keeps.
THEOREM RootStaysTrapped == Spec => []RootTrapped
<1>1. IInv => RootTrapped
  BY DEF IInv
<1>2. QED
  BY Inductive, <1>1, PTL

\* A spread solve_brent returns has a sign change within the tolerance; a yield
\* solve_newton returns prices to the tolerance, or lies in the last bracket and
\* within the tolerance of the end tried last.
THEOREM AnswersCanBeTrusted == Spec => []AnswerTrusted
<1>1. IInv => AnswerTrusted
  BY DEF IInv
<1>2. QED
  BY Inductive, <1>1, PTL

-----------------------------------------------------------------------------
(* Every iteration shortens the bracket.                                   *)

\* Newton's in NewtonMove, Brent's from one iteration to the next.
Shrinking ==
  /\ phase = "newton" /\ phase' = "newton" => Abs(b' - a') < Abs(b - a)
  /\ phase = "brent" /\ phase' = "brent" => Width' < Width

\* A point strictly between two others is nearer to each than they are.
LEMMA BetweenNearer ==
  ASSUME NEW p \in Lo..Hi, NEW q \in Lo..Hi, NEW n \in Between(p, q)
  PROVE  /\ Abs(n - p) < Abs(q - p) /\ Abs(p - n) < Abs(q - p)
         /\ Abs(n - q) < Abs(q - p) /\ Abs(q - n) < Abs(q - p)
<1>1. p \in Int /\ q \in Int /\ n \in Int
  BY RangeType DEF Between
<1>2. QED
  BY <1>1 DEF Between, Abs

LEMMA NewtonShrinks ==
  ASSUME IInv, NewtonMove
  PROVE  Abs(b' - a') < Abs(b - a)
<1>1. a \in Lo..Hi /\ b \in Lo..Hi /\ x \in Between(a, b)
  BY DEF IInv, SearchConfined, RootTrapped, NewtonMove
<1>2. (a' = x /\ b' = b) \/ (a' = a /\ b' = x)
  BY DEF NewtonMove, Tighten
<1>3. QED
  BY <1>1, <1>2, BetweenNearer

LEMMA BrentShrinks ==
  ASSUME IInv, Running, ~ Settled, NEW m \in Nat, NEW before \in Int,
         4 * m < 3 * Width - Tol, MoveBy(m, before)
  PROVE  Width' < Width
<1>1. TypeOK /\ SearchConfined /\ RootTrapped /\ phase = "brent"
  BY DEF IInv, Running
<1>2. Best \in Lo..Hi /\ Other \in Lo..Hi /\ Best \in Int /\ Other \in Int
  BY <1>1, Turned, RangeType
<1>3. Width > Tol
  BY <1>2, ConfigAssumption DEF Settled, Width, Abs
<1>4. a' = Best /\ c' = Other /\ b' = Best + Toward(Best, Other) * Reach(m)
  BY DEF MoveBy
<1>5. b' \in Between(Best, Other)
  BY <1>2, <1>3, <1>4, MoveInside DEF Width
<1>6. /\ Abs(b' - Best) < Width /\ Abs(Best - b') < Width
      /\ Abs(b' - Other) < Width /\ Abs(Other - b') < Width
  BY <1>2, <1>5, BetweenNearer DEF Width
<1>7. Across' \in {Best, Other}
  BY <1>4 DEF Across
<1>8. Width' = Abs(b' - Across') \/ Width' = Abs(Across' - b')
  BY DEF Width, Best, Other
<1>9. QED
  BY <1>6, <1>7, <1>8

LEMMA StepShrinks == ASSUME IInv, [Next]_vars PROVE Shrinking \/ UNCHANGED vars
<1>1. CASE phase = "newton" /\ phase' = "newton" /\ ~ UNCHANGED vars
  <2>1. NewtonMove
    BY <1>1 DEF Next, NoAccrued, AskYield, AskSpread, WidenDown, WidenUp, WidenBoth,
                Helpless, NewtonNaN, NewtonHit, BrentSettles, BrentInterpolates,
                BrentBisects, Running, Exhausted, Failed, Found
  <2>2. QED
    BY <1>1, <2>1, NewtonShrinks DEF Shrinking
<1>2. CASE phase = "brent" /\ phase' = "brent" /\ ~ UNCHANGED vars
  <2>1. BrentInterpolates \/ BrentBisects
    BY <1>2 DEF Next, NoAccrued, AskYield, AskSpread, WidenDown, WidenUp, WidenBoth,
                Helpless, NewtonNaN, NewtonHit, NewtonMove, BrentSettles, Exhausted,
                Failed, Found
  <2>2. PICK m \in Nat, before \in Int :
          Running /\ ~ Settled /\ 4 * m < 3 * Width - Tol /\ MoveBy(m, before)
    BY <2>1, MovesAllowed
  <2>3. QED
    BY <1>2, <2>2, BrentShrinks DEF Shrinking
<1>3. CASE ~ (phase = "newton" /\ phase' = "newton") /\ ~ (phase = "brent" /\ phase' = "brent")
  BY <1>3 DEF Shrinking
<1>4. QED
  BY <1>1, <1>2, <1>3

\* Each iteration of solve_newton and of solve_brent leaves a shorter bracket.
THEOREM BracketsShrink == Spec => [][Shrinking]_vars
<1>1. IInv /\ [Next]_vars => [Shrinking]_vars
  BY StepShrinks
<1>2. QED
  BY Inductive, <1>1, PTL DEF Spec
-----------------------------------------------------------------------------
(* Giving up.                                                              *)

\* g[n] is the step after n widenings of bracket_root, t[n] what they add up to.
Widths(g, t) ==
  /\ g \in [Nat -> Nat] /\ t \in [Nat -> Nat]
  /\ g[0] = FirstStep /\ t[0] = 0
  /\ \A n \in Nat : g[n + 1] = (g[n] * 8) \div 5 /\ t[n + 1] = t[n] + g[n]

\* The widenings allowed cover the range from wherever the search starts.
WidensEnough == \E g, t : Widths(g, t) /\ t[MaxWiden] >= Hi - Lo

\* While bracket_root widens, each end is as far out as its widenings take it,
\* or at the end of the range, and one of them is not there yet.
WideInv(g, t) ==
  phase \in {"asked", "widen"} =>
    /\ widened \in Nat /\ step = g[widened]
    /\ a = Lo \/ a <= Guess - t[widened]
    /\ b = Hi \/ b >= Guess + t[widened]
    /\ ~ Spent(a, b)

\* Why a search may give up, in what the search itself sees.
Reason ==
  \/ \E p \in Lo..Hi : ~ Finite(V(p))
  \/ ~ Opposite(V(Lo), V(Hi))
  \/ iter = MaxIter

\* A falling price with both ends on one side of the target stays there.
OneSided(h) ==
  /\ \A n \in Lo..Hi : h[n] # NaN
  /\ ~ Opposite(h[Lo], h[Hi])
  /\ \A p, q \in Lo..Hi : p < q => h[q] <= h[p]

LEMMA FallingOneSided ==
  \A h \in Objectives : OneSided(h) => \A p, q \in Lo..Hi : ~ Opposite(h[p], h[q])
<1> SUFFICES ASSUME NEW h \in Objectives, OneSided(h), NEW p \in Lo..Hi, NEW q \in Lo..Hi
             PROVE  ~ Opposite(h[p], h[q])
  OBVIOUS
<1>1. /\ Lo \in Int /\ Hi \in Int /\ p \in Int /\ q \in Int
      /\ Lo \in Lo..Hi /\ Hi \in Lo..Hi /\ Lo <= p /\ p <= Hi /\ Lo <= q /\ q <= Hi
  BY RangeType
<1>2. \A n \in Lo..Hi : h[n] \in Int /\ Finite(h[n])
  BY ObjectivesAssumption DEF Finite, OneSided
<1>3. /\ h[p] <= h[Lo] /\ h[q] <= h[Lo] /\ h[Hi] <= h[p] /\ h[Hi] <= h[q]
  BY <1>1, <1>2 DEF OneSided
<1> QED
  BY <1>1, <1>2, <1>3 DEF Opposite, OneSided

\* A failed step ends the search, so nothing else has to be kept.
LEMMA FailedHonestly ==
  ASSUME IInv', NEW g, NEW t, NEW s, Failed(s), s = "NO_CONVERGENCE" => Reason'
  PROVE  GivesUpHonestly' /\ WideInv(g, t)'
<1>1. f' \in Objectives
  BY DEF IInv, TypeOK
<1>2. \A n \in Lo..Hi : V(n)' = f'[n]
  BY DEF V
<1>3. Lo \in Lo..Hi /\ Hi \in Lo..Hi
  BY RangeType
<1>4. ASSUME \A n \in Lo..Hi : Finite(V(n)'), ~ Opposite(V(Lo)', V(Hi)'), Falls'
      PROVE  \A p, q \in Lo..Hi : ~ Opposite(V(p)', V(q)')
  <2>1. OneSided(f')
    BY <1>2, <1>3, <1>4 DEF OneSided, Falls, Finite
  <2> QED
    BY <1>1, <1>2, <2>1, FallingOneSided
<1>5. Reason' /\ phase' = "done" => GivesUpHonestly'
  BY <1>4 DEF Reason, GivesUpHonestly
<1> QED
  BY <1>5 DEF Failed, GivesUpHonestly, WideInv

LEMMA WidenBothHonest ==
  ASSUME IInv, IInv', NEW g, NEW t, Widths(g, t), t[MaxWiden] >= Hi - Lo,
         WideInv(g, t), WidenBoth
  PROVE  GivesUpHonestly' /\ WideInv(g, t)'
<1> DEFINE w == widened
<1>1. /\ phase = "widen" /\ w \in Nat /\ step = g[w]
      /\ a = Lo \/ a <= Guess - t[w]
      /\ b = Hi \/ b >= Guess + t[w]
      /\ ~ Spent(a, b)
  BY DEF WidenBoth, Helpless, WideInv
<1>2. /\ a \in Lo..Hi /\ b \in Lo..Hi /\ Guess \in Lo..Hi
      /\ Lo \in Int /\ Hi \in Int /\ Lo < Hi
  BY RangeType, GuessAssumption DEF IInv, SearchConfined
<1>3. /\ g[w] \in Nat /\ t[w] \in Nat /\ t[w + 1] = t[w] + g[w]
      /\ g[w + 1] = (g[w] * 8) \div 5
  BY <1>1 DEF Widths
<1>4. a' = Widened /\ b' = (IF b < Hi THEN Upper ELSE b) /\ f' = f
  BY DEF WidenBoth, callVars
<1>5. a' = Lo \/ a' <= Guess - t[w + 1]
  BY <1>1, <1>2, <1>3, <1>4 DEF Widened, Lower
<1>6. b' = Hi \/ b' >= Guess + t[w + 1]
  BY <1>1, <1>2, <1>3, <1>4 DEF Upper
<1>7. ASSUME Spent(a', b')
      PROVE  ~ Opposite(V(Lo), V(Hi))
  <2>1. a' = Lo /\ b' = Hi
    BY <1>2, <1>4, <1>7, EndsInRange DEF Spent, IInv
  <2>2. CASE b < Hi
    <3>1. Widened = Lo /\ Upper = Hi
      BY <1>4, <2>1, <2>2
    <3> QED
      BY <2>2, <3>1 DEF WidenBoth
  <2>3. CASE ~ (b < Hi)
    <3>1. b = Hi /\ a > Lo
      BY <1>1, <1>2, <2>3 DEF Spent
    <3>2. Lower = Lo
      BY <1>4, <2>1, <3>1 DEF Widened
    <3> QED
      BY <3>1, <3>2 DEF WidenBoth, Helpless
  <2> QED
    BY <2>2, <2>3
<1>8. ASSUME w + 1 = MaxWiden
      PROVE  Spent(a', b')
  <2>1. a' \in Int /\ b' \in Int
    BY <1>2, <1>4, EndsInRange DEF IInv
  <2>2. t[w + 1] \in Nat /\ t[w + 1] >= Hi - Lo
    BY <1>3, <1>8
  <2> QED
    BY <1>2, <1>5, <1>6, <2>1, <2>2 DEF Spent
<1>9. CASE Spent(a', b') \/ w + 1 = MaxWiden
  <2>1. Failed("NO_CONVERGENCE")
    BY <1>9 DEF WidenBoth
  <2>2. Reason'
    BY <1>4, <1>7, <1>8, <1>9 DEF Reason, Opposite, Finite, V
  <2> QED
    BY <2>1, <2>2, FailedHonestly
<1>10. CASE ~ (Spent(a', b') \/ w + 1 = MaxWiden)
  <2>1. /\ step' = (step * 8) \div 5 /\ widened' = w + 1
        /\ phase' = "widen"
    BY <1>1, <1>10 DEF WidenBoth
  <2>2. step' = g[w + 1] /\ w + 1 \in Nat
    BY <1>1, <1>3, <2>1
  <2> QED
    BY <1>5, <1>6, <1>10, <2>1, <2>2 DEF WideInv, GivesUpHonestly
<1> QED
  BY <1>9, <1>10

LEMMA HonestStep ==
  ASSUME IInv, IInv', NEW g, NEW t, Widths(g, t), t[MaxWiden] >= Hi - Lo,
         GivesUpHonestly, WideInv(g, t), [Next]_vars
  PROVE  GivesUpHonestly' /\ WideInv(g, t)'
<1> DEFINE Goal == GivesUpHonestly' /\ WideInv(g, t)'
<1>1. ASSUME ~ (phase' = "done" /\ status' = "NO_CONVERGENCE"), phase' \notin {"asked", "widen"}
      PROVE  Goal
  BY <1>1 DEF GivesUpHonestly, WideInv
<1>2. CASE NoAccrued
  BY <1>2, FailedHonestly DEF NoAccrued
<1>3. CASE AskYield
  <2>1. f' = f
    BY <1>3 DEF AskYield, callVars
  <2>2. CASE ~ Opposite(V(Lo), V(Hi)) /\ Failed("NO_CONVERGENCE")
    <3>1. Reason'
      BY <2>1, <2>2 DEF Reason, Opposite, Finite, V
    <3> QED
      BY <2>2, <3>1, FailedHonestly
  <2> QED
    BY <1>1, <1>3, <2>2 DEF AskYield, Found
<1>4. CASE AskSpread
  <2>1. UNCHANGED <<f, a, b, step, widened>>
    BY <1>4 DEF AskSpread, callVars, widenVars
  <2>2. CASE ~ Finite(V(Guess)) /\ Failed("NO_CONVERGENCE")
    <3>1. Reason'
      BY <2>1, <2>2, GuessAssumption DEF Reason, Finite, V
    <3> QED
      BY <2>2, <3>1, FailedHonestly
  <2>3. CASE Found(Guess)
    BY <1>1, <2>3 DEF Found
  <2>4. CASE phase' = "widen"
    BY <1>4, <2>1, <2>4 DEF AskSpread, WideInv, GivesUpHonestly, Spent
  <2> QED
    BY <1>4, <2>2, <2>3, <2>4 DEF AskSpread
<1>5. CASE WidenDown \/ WidenUp
  BY <1>1, <1>5 DEF WidenDown, WidenUp, HandOver
<1>6. CASE WidenBoth
  BY <1>6, WidenBothHonest
<1>7. CASE NewtonNaN
  <2>1. f' = f /\ x \in Lo..Hi
    BY <1>7 DEF NewtonNaN, callVars, IInv, SearchConfined
  <2>2. Reason'
    BY <1>7, <2>1 DEF NewtonNaN, Reason, Finite, V
  <2> QED
    BY <1>7, <2>2, FailedHonestly DEF NewtonNaN
<1>8. CASE NewtonHit \/ NewtonMove \/ BrentSettles
  BY <1>1, <1>8 DEF NewtonHit, NewtonMove, BrentSettles, Found, Running
<1>9. CASE BrentInterpolates \/ BrentBisects
  <2>1. PICK m, before : phase = "brent" /\ MoveBy(m, before)
    BY <1>9 DEF BrentInterpolates, BrentBisects, Running
  <2>2. f' = f /\ b' \in Lo..Hi
    BY <2>1 DEF MoveBy, callVars, IInv, SearchConfined
  <2>3. CASE Finite(V(b'))
    BY <1>1, <2>1, <2>3 DEF MoveBy
  <2>4. CASE ~ Finite(V(b'))
    <3>1. Failed("NO_CONVERGENCE")
      BY <2>1, <2>4 DEF MoveBy
    <3>2. Reason'
      BY <2>2, <2>4 DEF Reason, Finite, V
    <3> QED
      BY <3>1, <3>2, FailedHonestly
  <2> QED
    BY <2>3, <2>4
<1>10. CASE Exhausted
  BY <1>10, FailedHonestly DEF Exhausted, Reason
<1>11. CASE UNCHANGED vars
  BY <1>11 DEF vars, GivesUpHonestly, Falls, WideInv, Spent, Opposite, Finite, V
<1> QED
  BY <1>2, <1>3, <1>4, <1>5, <1>6, <1>7, <1>8, <1>9, <1>10, <1>11 DEF Next

\* When bracket_root may widen often enough to cover its range, a search gives
\* up only for want of a price or of iterations, or with both ends of the range
\* on one side of the target: where a falling price stays all the way between.
THEOREM GivingUpHasAReason == WidensEnough /\ Spec => []GivesUpHonestly
<1> SUFFICES ASSUME WidensEnough
             PROVE  Spec => []GivesUpHonestly
  OBVIOUS
<1>1. PICK g, t : Widths(g, t) /\ t[MaxWiden] >= Hi - Lo
  BY DEF WidensEnough
<1>2. Init => GivesUpHonestly /\ WideInv(g, t)
  BY <1>1, RangeAssumption, GuessAssumption
  DEF Init, GivesUpHonestly, WideInv, Widths, Spent
<1>3. /\ IInv /\ IInv' /\ GivesUpHonestly /\ WideInv(g, t) /\ [Next]_vars
        => (GivesUpHonestly /\ WideInv(g, t))'
  BY <1>1, HonestStep
<1> QED
  BY <1>2, <1>3, Inductive, PTL DEF Spec

-----------------------------------------------------------------------------
(* Either solver is a search that only narrows.                            *)

\* The two ends of the bracket face each other, or b is a root.
BracketHolds ==
  Searching =>
    /\ b \in Lo..Hi /\ Far \in Lo..Hi
    /\ V(b) \in Int /\ V(Far) \in Int
    /\ V(b) = 0 \/ Opposite(V(b), V(Far))

LEMMA BracketFaces == IInv => BracketHolds
<1> SUFFICES ASSUME IInv, Searching PROVE BracketHolds
  BY DEF BracketHolds
<1>1. TypeOK /\ a \in Lo..Hi /\ b \in Lo..Hi /\ c \in Lo..Hi
  BY DEF IInv, SearchConfined
<1>2. CASE phase = "newton"
  <2>1. V(a) \in Int /\ V(b) \in Int
    BY <1>1, <1>2, FiniteType DEF IInv, RootTrapped
  <2>2. Opposite(V(b), V(a))
    BY <1>2, <2>1 DEF IInv, RootTrapped, Opposite
  <2> QED
    BY <1>1, <1>2, <2>1, <2>2 DEF BracketHolds, Far
<1>3. CASE phase = "brent"
  <2>1. Far = Across /\ Far \in {a, c}
    BY <1>3 DEF Far, Across
  <2>2. V(a) \in Int /\ V(b) \in Int /\ V(c) \in Int
    BY <1>1, <1>3, FiniteType DEF IInv, RootTrapped
  <2>3. V(b) = 0 \/ Opposite(V(b), V(Across))
    BY <1>3 DEF IInv, RootTrapped, Across, Flip
  <2> QED
    BY <1>1, <2>1, <2>2, <2>3 DEF BracketHolds
<1> QED
  BY <1>2, <1>3 DEF Searching

LEMMA BracketStillFaces == IInv' => BracketHolds'
BY BracketFaces, PTL

\* Two points facing each other straddle a root, whichever is the lower.
LEMMA EndsStraddle ==
  ASSUME TypeOK, NEW p \in Lo..Hi, NEW q \in Lo..Hi, V(p) \in Int, V(q) \in Int,
         V(p) = 0 \/ Opposite(V(p), V(q))
  PROVE  /\ Lesser(p, q) \in Lo..Hi /\ Greater(p, q) \in Lesser(p, q)..Hi
         /\ Search!Straddles(Lesser(p, q), Greater(p, q))
<1>1. f[p] \in Int /\ f[q] \in Int /\ f[p] # NaN /\ f[q] # NaN
  BY ValueType, ObjectivesAssumption
<1>2. f[p] = 0 \/ (f[p] > 0 /\ f[q] < 0) \/ (f[p] < 0 /\ f[q] > 0)
  BY ValueType DEF Opposite
<1>3. Lesser(p, q) \in Lo..Hi /\ Greater(p, q) \in Lesser(p, q)..Hi
  BY RangeType DEF Lesser, Greater
<1>4. CASE p < q
  BY <1>1, <1>2, <1>3, <1>4 DEF Lesser, Greater, Search!Straddles
<1>5. CASE ~ (p < q)
  BY <1>1, <1>2, <1>3, <1>5 DEF Lesser, Greater, Search!Straddles
<1> QED
  BY <1>4, <1>5

\* A point inside a bracket and one of its ends are a shorter bracket in it.
LEMMA InsideNarrows ==
  ASSUME NEW p \in Int, NEW q \in Int, NEW n \in Between(p, q), NEW r \in {p, q}
  PROVE  /\ Lesser(n, r) \in Lesser(p, q)..Greater(p, q)
         /\ Greater(n, r) \in Lesser(n, r)..Greater(p, q)
         /\ Greater(n, r) - Lesser(n, r) < Greater(p, q) - Lesser(p, q)
<1>1. n \in Int
  BY RangeType DEF Between
<1>2. CASE r = p
  BY <1>1, <1>2 DEF Between, Lesser, Greater
<1>3. CASE r = q
  BY <1>1, <1>3 DEF Between, Lesser, Greater
<1> QED
  BY <1>2, <1>3

LEMMA EndsCommute ==
  ASSUME NEW p \in Int, NEW q \in Int
  PROVE  Lesser(p, q) = Lesser(q, p) /\ Greater(p, q) = Greater(q, p)
BY DEF Lesser, Greater

-----------------------------------------------------------------------------
LEMMA FailedGivesUp ==
  ASSUME phase # "done", NEW s \in {"NO_CONVERGENCE", "BAD_SCHEDULE"}, Failed(s), UNCHANGED f
  PROVE  Search!Next
BY DEF Failed, Search!Next, Search!GiveUp, Searching

\* The search begins: its ends are in place, and straddle.
LEMMA SearchBegins ==
  ASSUME IInv, IInv', phase \in {"asked", "widen"}, phase' \in {"newton", "brent"},
         UNCHANGED <<f, status, root>>
  PROVE  Search!Next
<1>1. /\ TypeOK /\ TypeOK' /\ BracketHolds' /\ Searching' /\ ~Searching
  BY BracketStillFaces DEF IInv, Searching
<1>2. PICK p \in Lo..Hi, q \in Lo..Hi : p = b' /\ q = Far'
  BY <1>1 DEF BracketHolds
<1>3. V(p) = V(b)' /\ V(q) = V(Far)'
  BY <1>2 DEF V
<1>4. V(p) \in Int /\ V(q) \in Int /\ (V(p) = 0 \/ Opposite(V(p), V(q)))
  <2>1. Opposite(V(b), V(Far))' => Opposite(V(p), V(q))
    BY <1>3 DEF Opposite, Finite
  <2> QED
    BY <1>1, <1>3, <2>1 DEF BracketHolds
<1>5. /\ Lesser(p, q) \in Lo..Hi /\ Greater(p, q) \in Lesser(p, q)..Hi
      /\ Search!Straddles(Lesser(p, q), Greater(p, q))
  BY <1>1, <1>4, EndsStraddle
<1>6. Lesser(p, q) = Lesser(b, Far)' /\ Greater(p, q) = Greater(b, Far)'
  BY <1>2 DEF Lesser, Greater
<1>7. phase # "done" /\ ~Searching /\ Searching'
  BY <1>1
<1> QED
  BY <1>5, <1>6, <1>7 DEF Search!Next, Search!Begin

\* The search goes on: b moved inside the bracket, or an end moved to a point
\* inside it.
LEMMA SearchNarrows ==
  ASSUME IInv, IInv', Searching, Searching', UNCHANGED <<f, status, root>>,
         NEW p \in Lo..Hi, NEW q \in Lo..Hi, {p, q} = {b, Far},
         NEW n \in Between(p, q), NEW r \in {p, q}, {n, r} = {b', Far'}
  PROVE  Search!Next
<1>1. TypeOK /\ BracketHolds /\ BracketHolds' /\ p \in Int /\ q \in Int
  BY BracketFaces, BracketStillFaces, RangeType DEF IInv
<1>2. b \in Int /\ Far \in Int
  BY <1>1, RangeType DEF BracketHolds
<1>3. Lesser(p, q) = Lesser(b, Far) /\ Greater(p, q) = Greater(b, Far)
  <2>1. (p = b /\ q = Far) \/ (p = Far /\ q = b)
    OBVIOUS
  <2> QED
    BY <1>1, <1>2, <2>1, EndsCommute
<1>4. PICK u \in Lo..Hi, w \in Lo..Hi : u = b' /\ w = Far'
  BY <1>1 DEF BracketHolds
<1>5. u \in Int /\ w \in Int /\ n \in Int /\ r \in Int
  BY <1>1, <1>4, RangeType DEF Between
<1>6. Lesser(n, r) = Lesser(u, w) /\ Greater(n, r) = Greater(u, w)
  <2>1. (n = u /\ r = w) \/ (n = w /\ r = u)
    BY <1>4
  <2> QED
    BY <1>5, <2>1, EndsCommute
<1>7. V(u) = V(b)' /\ V(w) = V(Far)'
  BY <1>4 DEF V
<1>8. V(u) \in Int /\ V(w) \in Int /\ (V(u) = 0 \/ Opposite(V(u), V(w)))
  <2>1. Opposite(V(b), V(Far))' => Opposite(V(u), V(w))
    BY <1>7 DEF Opposite, Finite
  <2> QED
    BY <1>1, <1>7, <2>1 DEF BracketHolds
<1>9. Search!Straddles(Lesser(u, w), Greater(u, w))
  BY <1>1, <1>8, EndsStraddle
<1>10. /\ Lesser(u, w) \in Lesser(b, Far)..Greater(b, Far)
       /\ Greater(u, w) \in Lesser(u, w)..Greater(b, Far)
       /\ Greater(u, w) - Lesser(u, w) < Greater(b, Far) - Lesser(b, Far)
  BY <1>1, <1>3, <1>6, InsideNarrows
<1>11. Lesser(u, w) = Lesser(b, Far)' /\ Greater(u, w) = Greater(b, Far)'
  BY <1>4 DEF Lesser, Greater
<1> QED
  BY <1>9, <1>10, <1>11 DEF Search!Next, Search!Narrow

\* The search ends, from between the ends of a bracket in the last one.
LEMMA SearchAnswers ==
  ASSUME Searching, NEW r, Found(r), UNCHANGED f,
         NEW p, NEW q, p \in Lesser(b, Far)..Greater(b, Far),
         q \in Lesser(b, Far)..Greater(b, Far), r \in p..q,
         \/ f[r] # NaN /\ Search!Near(f[r])
         \/ Search!Straddles(p, q) /\ (r - p <= Slack[p] \/ q - r <= Slack[q])
  PROVE  Search!Next
<1>1. /\ phase' = "done" /\ status' = "OK" /\ root' = r /\ ~Searching'
  BY DEF Found, Searching
<1>2. Search!AnswerFrom(p, q)
  BY <1>1 DEF Search!AnswerFrom
<1> QED
  BY <1>1, <1>2 DEF Search!Next, Search!Answer

LEMMA NearIs ==
  ASSUME TypeOK, NEW p \in Lo..Hi, Finite(V(p)), Abs(V(p)) <= Tol
  PROVE  f[p] # NaN /\ Search!Near(f[p])
<1>1. V(p) = f[p] /\ V(p) \in Int /\ Tol \in Nat
  BY ValueType, FiniteType, ConfigAssumption
<1> QED
  BY <1>1, ObjectivesAssumption DEF Abs, Search!Near

LEMMA NewtonHitSearches == ASSUME IInv, NewtonHit PROVE Search!Next
<1>1. /\ phase = "newton" /\ Searching /\ TypeOK /\ Far = a
      /\ Finite(V(x)) /\ Abs(V(x)) <= Tol /\ Found(x) /\ f' = f
  BY DEF IInv, NewtonHit, Searching, Far, callVars
<1>2. x \in Lo..Hi /\ a \in Int /\ b \in Int /\ x \in Between(a, b)
  BY <1>1, RangeType DEF IInv, SearchConfined, RootTrapped
<1>3. f[x] # NaN /\ Search!Near(f[x])
  BY <1>1, <1>2, NearIs
<1>4. x \in Lesser(b, a)..Greater(b, a)
  BY <1>2, RangeType DEF Lesser, Greater, Between
<1>5. /\ Lesser(b, a) \in Lesser(b, a)..Greater(b, a)
      /\ Greater(b, a) \in Lesser(b, a)..Greater(b, a)
  BY <1>2 DEF Lesser, Greater
<1> QED
  BY <1>1, <1>3, <1>4, <1>5, SearchAnswers

LEMMA NewtonMoveSearches == ASSUME IInv, IInv', NewtonMove PROVE Search!Next
<1>1. /\ TypeOK /\ SearchConfined /\ RootTrapped /\ phase = "newton"
      /\ Searching /\ Far = a /\ f' = f
      /\ a \in Lo..Hi /\ b \in Lo..Hi /\ x \in Between(a, b)
  BY DEF IInv, SearchConfined, RootTrapped, NewtonMove, Searching, Far, callVars
<1>2. a \in Int /\ b \in Int /\ x \in Int /\ Tol \in Nat /\ Tol > 1
  BY <1>1, RangeType, ConfigAssumption DEF Between
<1>3. (a' = x /\ b' = b) \/ (a' = a /\ b' = x)
  BY DEF NewtonMove, Tighten
<1>4. PICK next \in Landing(a', b') :
        \/ Abs(next - x) <= Slack[x] /\ Found(next) /\ UNCHANGED <<x, iter>>
        \/ UNCHANGED <<phase, status, root>>
  BY DEF NewtonMove
<1>5. CASE UNCHANGED <<phase, status, root>>
  <2>1. Searching' /\ Far' = a'
    BY <1>1, <1>5 DEF Searching, Far
  <2>2. PICK r \in {a, b} : {x, r} = {b', Far'}
    BY <1>3, <2>1
  <2>3. {a, b} = {b, Far}
    BY <1>1
  <2> QED
    BY <1>1, <1>5, <2>1, <2>2, <2>3, SearchNarrows
<1>6. CASE Abs(next - x) <= Slack[x] /\ Found(next)
  <2>1. V(x) # 0 /\ Finite(V(x))
    BY <1>2 DEF NewtonMove, Abs
  <2>2. /\ a' \in Lo..Hi /\ b' \in Lo..Hi /\ x \in {a', b'}
        /\ Finite(V(a')) /\ Finite(V(b')) /\ V(a') < 0 /\ V(b') > 0
    BY <1>1, <2>1, TightenSigns DEF NewtonMove
  <2>3. PICK u \in Lo..Hi, w \in Lo..Hi : u = a' /\ w = b'
    BY <2>2
  <2>4. u \in Int /\ w \in Int /\ x \in {u, w} /\ next \in Landing(u, w)
    BY <2>2, <2>3, RangeType
  <2>5. V(u) \in Int /\ V(w) \in Int /\ Opposite(V(u), V(w))
    BY <1>1, <2>2, <2>3, FiniteType DEF Opposite
  <2>6. Search!Straddles(Lesser(u, w), Greater(u, w))
    BY <1>1, <2>5, EndsStraddle
  <2>7. next \in Int /\ next \in Lesser(u, w)..Greater(u, w)
    <3>1. /\ next \in Lo..Hi
          /\ u <= w => u <= next /\ next <= w
          /\ w <= u => w <= next /\ next <= u
      BY <2>4, LandingInside
    <3> QED
      BY <2>4, <3>1, RangeType DEF Lesser, Greater
  <2>8. \/ next - Lesser(u, w) <= Slack[Lesser(u, w)]
        \/ Greater(u, w) - next <= Slack[Greater(u, w)]
    <3>1. PICK n \in Nat : n = Slack[x]
      BY <2>2, SlackAssumption
    <3>2. \/ x = Lesser(u, w) /\ next - x <= n
          \/ x = Greater(u, w) /\ x - next <= n
      BY <1>2, <1>6, <2>4, <2>7, <3>1 DEF Lesser, Greater, Abs
    <3> QED
      BY <3>1, <3>2
  <2>9. /\ Lesser(u, w) \in Lesser(b, Far)..Greater(b, Far)
        /\ Greater(u, w) \in Lesser(b, Far)..Greater(b, Far)
    <3>1. (u = x /\ w = b) \/ (u = a /\ w = x)
      BY <1>3, <2>3
    <3> QED
      BY <1>1, <1>2, <3>1 DEF Lesser, Greater, Between
  <2> QED
    BY <1>1, <1>6, <2>6, <2>7, <2>8, <2>9, SearchAnswers
<1> QED
  BY <1>4, <1>5, <1>6

\* Whichever of the two Brent calls best, they are the ends of its bracket.
LEMMA BestOfBoth ==
  ASSUME phase = "brent"
  PROVE  Far = Across /\ {Best, Other} = {b, Far}
BY DEF Far, Best, Other

LEMMA BrentSettlesSearches == ASSUME IInv, BrentSettles PROVE Search!Next
<1>1. /\ phase = "brent" /\ Searching /\ TypeOK /\ BracketHolds /\ Found(Best) /\ f' = f
  BY BracketFaces DEF IInv, BrentSettles, Running, Searching, callVars
<1>2. /\ b \in Lo..Hi /\ Far \in Lo..Hi /\ b \in Int /\ Far \in Int
      /\ Search!Straddles(Lesser(b, Far), Greater(b, Far))
  BY <1>1, EndsStraddle, RangeType DEF BracketHolds
<1>3. PICK r : r = Best /\ r \in {b, Far}
  BY <1>1, BestOfBoth
<1>4. /\ r \in Lesser(b, Far)..Greater(b, Far)
      /\ Lesser(b, Far) \in Lesser(b, Far)..Greater(b, Far)
      /\ Greater(b, Far) \in Lesser(b, Far)..Greater(b, Far)
      /\ r = Lesser(b, Far) \/ r = Greater(b, Far)
  BY <1>2, <1>3 DEF Lesser, Greater
<1>5. \/ r - Lesser(b, Far) <= Slack[Lesser(b, Far)]
      \/ Greater(b, Far) - r <= Slack[Greater(b, Far)]
  <2>1. r \in Lo..Hi /\ r \in Int /\ r - r = 0
    BY <1>2, <1>3
  <2>2. PICK n \in Nat : n = Slack[r]
    BY <2>1, SlackAssumption
  <2> QED
    BY <1>4, <2>1, <2>2
<1> QED
  BY <1>1, <1>2, <1>3, <1>4, <1>5, SearchAnswers

LEMMA BrentMovesSearch ==
  ASSUME IInv, IInv', BrentInterpolates \/ BrentBisects
  PROVE  Search!Next
<1>1. PICK m \in Nat, before \in Int :
        Running /\ ~ Settled /\ 4 * m < 3 * Width - Tol /\ MoveBy(m, before)
  BY MovesAllowed
<1>2. /\ phase = "brent" /\ Searching /\ TypeOK /\ SearchConfined /\ RootTrapped /\ f' = f
  BY <1>1 DEF IInv, Running, Searching, MoveBy, callVars
<1>3. Best \in Lo..Hi /\ Other \in Lo..Hi /\ Best \in Int /\ Other \in Int
  BY <1>2, Turned, RangeType
<1>4. Width > Tol
  BY <1>1, <1>3, ConfigAssumption DEF Settled, Width, Abs
<1>5. a' = Best /\ c' = Other /\ b' = Best + Toward(Best, Other) * Reach(m)
  BY <1>1 DEF MoveBy
<1>6. b' \in Between(Best, Other)
  BY <1>1, <1>3, <1>4, <1>5, MoveInside DEF Width
<1>7. CASE Failed("NO_CONVERGENCE")
  BY <1>2, <1>7, FailedGivesUp
<1>8. CASE UNCHANGED <<phase, status, root>>
  <2>1. Searching' /\ Far' = Across'
    BY <1>2, <1>8 DEF Searching, Far
  <2>2. Across' \in {Best, Other}
    BY <1>5 DEF Across
  <2>3. {Best, Other} = {b, Far}
    BY <1>2, BestOfBoth
  <2>4. PICK p \in Lo..Hi, q \in Lo..Hi : p = Best /\ q = Other
    BY <1>3
  <2>5. PICK n \in Between(p, q) : n = b'
    BY <1>6, <2>4
  <2>6. PICK r \in {p, q} : r = Far'
    BY <2>1, <2>2, <2>4
  <2>7. {p, q} = {b, Far} /\ {n, r} = {b', Far'}
    BY <2>3, <2>4, <2>5, <2>6
  <2> QED
    BY <1>2, <1>8, <2>1, <2>7, SearchNarrows
<1> QED
  BY <1>1, <1>7, <1>8 DEF MoveBy

LEMMA AskYieldSearches == ASSUME IInv, IInv', AskYield PROVE Search!Next
<1>1. phase = "asked" /\ ~Searching /\ f' = f /\ TypeOK
  BY DEF IInv, AskYield, Searching, callVars
<1>2. CASE phase' = "newton" /\ UNCHANGED <<status, root>>
  BY <1>1, <1>2, SearchBegins
<1>3. CASE EndRoots # {} /\ Found(IF Lo \in EndRoots THEN Lo ELSE Hi)
  <2>1. PICK r \in Lo..Hi : Found(r) /\ V(r) = 0
    BY <1>3, RangeType DEF EndRoots
  <2>2. f[r] = 0 /\ phase' = "done" /\ status' = "OK" /\ root' = r /\ ~Searching'
    BY <2>1 DEF V, Found, Searching
  <2> QED
    BY <1>1, <2>1, <2>2 DEF Search!Next, Search!AnswerAtOnce
<1>4. CASE Failed("NO_CONVERGENCE")
  BY <1>1, <1>4, FailedGivesUp
<1> QED
  BY <1>2, <1>3, <1>4 DEF AskYield

LEMMA AskSpreadSearches ==
  ASSUME IInv, AskSpread
  PROVE  Search!Next \/ UNCHANGED Search!vars
<1>1. phase = "asked" /\ ~Searching /\ f' = f
  BY DEF AskSpread, Searching, callVars
<1>2. CASE V(Guess) = 0 /\ Found(Guess)
  <2>1. /\ f[Guess] = 0 /\ phase' = "done" /\ status' = "OK" /\ root' = Guess /\ ~Searching'
    BY <1>2, GuessAssumption DEF V, Found, Searching
  <2> QED
    BY <1>1, <2>1, GuessAssumption DEF Search!Next, Search!AnswerAtOnce
<1>3. CASE Failed("NO_CONVERGENCE")
  BY <1>1, <1>3, FailedGivesUp
<1>4. CASE phase' = "widen" /\ UNCHANGED <<status, root>>
  BY <1>1, <1>4 DEF Search!vars, Searching
<1> QED
  BY <1>2, <1>3, <1>4 DEF AskSpread

LEMMA WidenSearches ==
  ASSUME IInv, IInv', WidenDown \/ WidenUp \/ WidenBoth
  PROVE  Search!Next \/ UNCHANGED Search!vars
<1>1. phase = "widen" /\ ~Searching /\ f' = f
  BY DEF WidenDown, WidenUp, WidenBoth, Helpless, HandOver, Searching, callVars
<1>2. CASE WidenDown \/ WidenUp
  <2>1. phase' = "brent" /\ UNCHANGED <<status, root>>
    BY <1>2 DEF WidenDown, WidenUp, HandOver
  <2> QED
    BY <1>1, <2>1, SearchBegins
<1>3. CASE WidenBoth
  <2>1. CASE Failed("NO_CONVERGENCE")
    BY <1>1, <2>1, FailedGivesUp
  <2>2. CASE UNCHANGED <<phase, status, root>>
    BY <1>1, <2>2 DEF Search!vars, Searching
  <2> QED
    BY <1>3, <2>1, <2>2 DEF WidenBoth
<1> QED
  BY <1>2, <1>3

LEMMA SearchInit == Init => Search!Init
BY GuessAssumption DEF Init, Search!Init, Searching

LEMMA SearchStep ==
  ASSUME IInv, IInv', [Next]_vars
  PROVE  Search!Next \/ UNCHANGED Search!vars
<1>1. CASE NoAccrued \/ NewtonNaN \/ Exhausted
  <2>1. phase # "done" /\ UNCHANGED f
    BY <1>1 DEF NoAccrued, NewtonNaN, Exhausted, callVars
  <2>2. Failed("BAD_SCHEDULE") \/ Failed("NO_CONVERGENCE")
    BY <1>1 DEF NoAccrued, NewtonNaN, Exhausted
  <2> QED
    BY <2>1, <2>2, FailedGivesUp
<1>2. CASE UNCHANGED vars
  BY <1>2 DEF vars, Search!vars, Searching, Far, Lesser, Greater, Across, Flip,
              Opposite, Finite, V
<1> QED
  BY <1>1, <1>2, AskYieldSearches, AskSpreadSearches, WidenSearches, NewtonHitSearches,
     NewtonMoveSearches, BrentSettlesSearches, BrentMovesSearch DEF Next

\* solve_newton, and bracket_root with solve_brent, are searches that trap a
\* sign change, only ever narrow the bracket, and answer from inside it: for
\* every objective, range, guess, tolerance and number of iterations.
THEOREM SolverImplementsSearch == Spec => ImplementsRootSearch
<1>1. IInv /\ IInv' /\ [Next]_vars => [Search!Next]_(Search!vars)
  BY SearchStep
<1> QED
  BY SearchInit, <1>1, Inductive, PTL DEF Spec, ImplementsRootSearch, Search!Spec

-----------------------------------------------------------------------------
(* Every search ends.                                                      *)

\* The steps that are left at most: widenings, then iterations.
Effort == CASE phase = "asked" -> MaxWiden + MaxIter + 3
            [] phase = "widen" -> MaxWiden - widened + MaxIter + 2
            [] phase \in {"newton", "brent"} -> MaxIter - iter + 1
            [] OTHER -> 0

CountInv ==
  /\ widened \in Nat /\ iter \in Nat /\ iter <= MaxIter
  /\ phase \in {"asked", "widen"} => widened < MaxWiden /\ iter = 0

\* Each step is one of those, so no search takes more than the most there are.
SearchRunsOut ==
  /\ Effort = MaxWiden + MaxIter + 3
  /\ [](Effort \in Nat)
  /\ [][Effort' < Effort]_vars

LEMMA CountStep == ASSUME CountInv, [Next]_vars PROVE CountInv'
<1>1. MaxWiden \in Nat /\ MaxIter \in Nat
  BY ConfigAssumption
<1>2. ASSUME UNCHANGED <<widened, iter>>, phase' # "widen", phase' # "asked"
      PROVE  CountInv'
  BY <1>2 DEF CountInv
<1>3. CASE NoAccrued \/ NewtonNaN \/ NewtonHit \/ BrentSettles \/ Exhausted
  BY <1>2, <1>3 DEF NoAccrued, NewtonNaN, NewtonHit, BrentSettles, Exhausted,
                    Failed, Found, widenVars
<1>4. CASE AskYield \/ WidenDown \/ WidenUp
  BY <1>2, <1>4 DEF AskYield, WidenDown, WidenUp, HandOver, Failed, Found, widenVars
<1>5. CASE AskSpread
  BY <1>5 DEF AskSpread, CountInv, widenVars
<1>6. CASE WidenBoth
  <2>1. CASE Failed("NO_CONVERGENCE") /\ UNCHANGED widenVars
    BY <1>6, <2>1 DEF WidenBoth, CountInv, Failed, widenVars
  <2>2. CASE widened' = widened + 1 /\ UNCHANGED phase /\ widened + 1 # MaxWiden
    BY <1>1, <1>6, <2>2 DEF WidenBoth, CountInv, Helpless
  <2> QED
    BY <1>6, <2>1, <2>2 DEF WidenBoth
<1>7. CASE NewtonMove \/ BrentInterpolates \/ BrentBisects
  <2>1. /\ phase \in {"newton", "brent"} /\ iter < MaxIter /\ widened' = widened
        /\ \/ phase' = phase /\ iter' = iter + 1
           \/ phase' = "done" /\ iter' = iter
    BY <1>7 DEF NewtonMove, BrentInterpolates, BrentBisects, MoveBy, Running, Failed,
                Found, widenVars
  <2> QED
    BY <1>1, <2>1 DEF CountInv
<1>8. CASE UNCHANGED vars
  BY <1>8 DEF vars, CountInv
<1> QED
  BY <1>3, <1>4, <1>5, <1>6, <1>7, <1>8 DEF Next

\* What the effort is in each phase.
EffortCases ==
  /\ phase = "asked" => Effort = MaxWiden + MaxIter + 3
  /\ phase = "widen" => Effort = MaxWiden - widened + MaxIter + 2
  /\ phase \in {"newton", "brent"} => Effort = MaxIter - iter + 1
  /\ phase = "done" => Effort = 0

LEMMA EffortIs == EffortCases
BY DEF EffortCases, Effort

LEMMA EffortStillIs == EffortCases'
BY EffortIs, PTL

LEMMA EffortType == TypeOK /\ CountInv => Effort \in Nat
BY EffortIs, ConfigAssumption DEF EffortCases, TypeOK, CountInv

LEMMA EffortFalls ==
  ASSUME IInv, CountInv, CountInv', Next
  PROVE  Effort' < Effort
<1>1. /\ MaxWiden \in Nat /\ MaxIter \in Nat
      /\ EffortCases /\ EffortCases' /\ TypeOK
      /\ widened \in Nat /\ iter \in Nat /\ iter <= MaxIter
      /\ phase \in {"asked", "widen"} => widened < MaxWiden
      /\ widened' \in Nat /\ iter' \in Nat /\ iter' <= MaxIter
      /\ phase' \in {"asked", "widen"} => widened' < MaxWiden
  BY ConfigAssumption, EffortIs, EffortStillIs DEF IInv, CountInv
<1>2. ASSUME phase # "done", phase' = "done"
      PROVE  Effort' < Effort
  BY <1>1, <1>2 DEF EffortCases, TypeOK
<1>3. ASSUME phase \in {"asked", "widen"}, phase' \in {"newton", "brent"}
      PROVE  Effort' < Effort
  BY <1>1, <1>3 DEF EffortCases
<1>4. CASE NoAccrued \/ NewtonNaN \/ NewtonHit \/ BrentSettles \/ Exhausted
  BY <1>2, <1>4 DEF NoAccrued, NewtonNaN, NewtonHit, BrentSettles, Running, Exhausted,
                    Failed, Found
<1>5. CASE AskYield \/ WidenDown \/ WidenUp
  BY <1>2, <1>3, <1>5 DEF AskYield, WidenDown, WidenUp, Helpless, HandOver, Failed, Found
<1>6. CASE AskSpread
  <2>1. phase = "asked" /\ phase' \in {"done", "widen"}
    BY <1>6 DEF AskSpread, Failed, Found
  <2> QED
    BY <1>1, <1>2, <2>1 DEF EffortCases
<1>7. CASE WidenBoth
  <2>1. /\ phase = "widen"
        /\ phase' = "done" \/ (phase' = "widen" /\ widened' = widened + 1)
    BY <1>7 DEF WidenBoth, Helpless, Failed
  <2> QED
    BY <1>1, <1>2, <2>1 DEF EffortCases
<1>8. CASE NewtonMove \/ BrentInterpolates \/ BrentBisects
  <2>1. /\ phase \in {"newton", "brent"}
        /\ (phase' = phase /\ iter' = iter + 1) \/ phase' = "done"
    BY <1>8 DEF NewtonMove, BrentInterpolates, BrentBisects, MoveBy, Running, Failed, Found
  <2> QED
    BY <1>1, <1>2, <2>1 DEF EffortCases
<1> QED
  BY <1>4, <1>5, <1>6, <1>7, <1>8 DEF Next

\* A yield or a spread is found or given up in a bounded number of steps,
\* whatever the objective does: no more than the widenings and the iterations
\* allowed, and three to begin, to hand over and to end.
THEOREM EverySearchEnds == Spec => SearchRunsOut
<1>1. Init => CountInv /\ Effort = MaxWiden + MaxIter + 3
  BY EffortIs, ConfigAssumption DEF Init, CountInv, EffortCases
<1>2. IInv /\ CountInv => Effort \in Nat
  BY EffortType DEF IInv
<1>3. CountInv /\ [Next]_vars => CountInv'
  BY CountStep
<1>4. IInv /\ CountInv /\ CountInv' /\ [Next]_vars => [Effort' < Effort]_vars
  BY EffortFalls
<1> QED
  BY <1>1, <1>2, <1>3, <1>4, Inductive, PTL DEF Spec, SearchRunsOut
=============================================================================
