------------------------------- MODULE Solver -------------------------------
(***************************************************************************)
(* The root finders behind yield and z-spread: solve_newton, which keeps a *)
(* bracket around Newton's steps, and bracket_root followed by solve_brent.*)
(* The line is a grid of integers.  The objective is any function on it;   *)
(* its slope and the interpolation formulas are left open, so a step may   *)
(* go wherever the code's own tests on the step allow.                     *)
(***************************************************************************)
EXTENDS Integers

CONSTANTS Objectives,  \* price minus target, as functions of yield or spread
          NaN,         \* what an objective returns where there is no price
          Lo, Hi,      \* the range searched
          Guess,       \* where the search starts
          FirstStep,   \* bracket_root's first step
          MaxWiden,    \* bracket_root's bound on its steps: 64 in the code
          Tol,         \* SolverConfig::tolerance, in steps of the grid
          Slack,       \* tolerance * (1 + |x|), at each point x of it
          MaxIter      \* SolverConfig::max_iter

ASSUME RangeAssumption == Lo \in Int /\ Hi \in Int /\ Hi - Lo >= 2
ASSUME GuessAssumption == Guess \in Lo..Hi
ASSUME ConfigAssumption ==
  /\ FirstStep \in Nat \ {0, 1} /\ MaxWiden \in Nat \ {0} /\ MaxIter \in Nat \ {0}
  /\ Tol \in Nat \ {0} /\ Tol % 2 = 0
ASSUME SlackAssumption ==
  Slack \in [Lo..Hi -> Nat] /\ \A p \in Lo..Hi : Slack[p] >= Tol
ASSUME ObjectivesAssumption ==
  NaN \notin Int /\ Objectives \subseteq [Lo..Hi -> Int \cup {NaN}]

VARIABLES
  f,        \* the objective of the call
  route,    \* "yield" | "spread"
  phase,    \* "asked" | "widen" | "newton" | "brent" | "done"
  a, b, c,  \* the points each solver keeps
  d, e,     \* brent: the last move and the one before it
  x,        \* newton: the point to try next
  step, widened,  \* bracket_root: the next step, and the widenings made
  iter,     \* iterations of the solver
  status, root

vars == <<f, route, phase, a, b, c, d, e, x, step, widened, iter, status, root>>
brentVars == <<c, d, e>>
widenVars == <<step, widened>>
callVars  == <<f, route>>

Abs(n) == IF n < 0 THEN -n ELSE n
Toward(p, q) == IF p < q THEN 1 ELSE -1

\* Outside the range lies the singularity: no price.
V(p) == IF p \in Lo..Hi THEN f[p] ELSE NaN
Finite(v) == v # NaN
Opposite(u, v) == /\ Finite(u) /\ Finite(v)
                  /\ (u > 0 /\ v < 0) \/ (u < 0 /\ v > 0)

Found(r) == /\ phase' = "done" /\ status' = "OK" /\ root' = r
Failed(s) == /\ phase' = "done" /\ status' = s /\ UNCHANGED root

-----------------------------------------------------------------------------
(* A call.                                                                 *)

\* Both routes need the accrued interest first.
NoAccrued ==
  /\ phase = "asked" /\ Failed("BAD_SCHEDULE")
  /\ UNCHANGED <<callVars, a, b, brentVars, x, widenVars, iter>>

\* A root at one end answers at once, if the other end has a price at all.
EndRoots == {p \in {Lo, Hi} : V(p) = 0 /\ Finite(V(Lo)) /\ Finite(V(Hi))}

\* solve_newton looks at both ends before anything else.
AskYield ==
  /\ phase = "asked" /\ route = "yield"
  /\ a' = IF Finite(V(Lo)) /\ V(Lo) < 0 THEN Lo ELSE Hi
  /\ b' = IF a' = Lo THEN Hi ELSE Lo
  /\ x' = IF Guess \in {Lo, Hi} THEN (Lo + Hi) \div 2 ELSE Guess
  /\ \/ Opposite(V(Lo), V(Hi)) /\ phase' = "newton" /\ UNCHANGED <<status, root>>
     \/ EndRoots # {} /\ Found(IF Lo \in EndRoots THEN Lo ELSE Hi)
     \/ ~ Opposite(V(Lo), V(Hi)) /\ EndRoots = {} /\ Failed("NO_CONVERGENCE")
  /\ UNCHANGED <<callVars, brentVars, widenVars, iter>>

\* bracket_root looks at the guess; a root there makes an empty bracket,
\* of which solve_brent takes the first end.
AskSpread ==
  /\ phase = "asked" /\ route = "spread"
  /\ \/ ~ Finite(V(Guess)) /\ Failed("NO_CONVERGENCE")
     \/ V(Guess) = 0 /\ Found(Guess)
     \/ Finite(V(Guess)) /\ V(Guess) # 0 /\ phase' = "widen" /\ UNCHANGED <<status, root>>
  /\ UNCHANGED <<callVars, a, b, brentVars, x, widenVars, iter>>

-----------------------------------------------------------------------------
(* bracket_root: one widening tries the lower end, then the upper one.     *)

Lower == IF a - step < Lo THEN Lo ELSE a - step
\* Mutant of Upper: the search is not held to its range.
UpperUnclamped == b + step
Upper == IF b + step > Hi THEN Hi ELSE b + step

\* A sign change: solve_brent starts between the two ends.
HandOver(p, q) ==
  /\ phase' = "brent" /\ a' = p /\ b' = q /\ c' = p /\ d' = q - p /\ e' = q - p
  /\ UNCHANGED <<callVars, x, widenVars, iter, status, root>>

WidenDown ==
  /\ phase = "widen" /\ a > Lo /\ Opposite(V(Lower), V(b))
  /\ HandOver(Lower, b)

\* The lower end did not help: the upper one may.
Widened == IF a > Lo THEN Lower ELSE a
Helpless == phase = "widen" /\ ~ (a > Lo /\ Opposite(V(Lower), V(b)))

WidenUp ==
  /\ Helpless
  /\ b < Hi /\ Opposite(V(Widened), V(Upper))
  /\ HandOver(Widened, Upper)

\* Mutant of Spent: one end is taken for both.
SpentEither(p, q) == p <= Lo \/ q >= Hi
\* Both ends have reached the range's.
Spent(p, q) == p <= Lo /\ q >= Hi

WidenBoth ==
  LET up == IF b < Hi THEN Upper ELSE b
  IN  /\ Helpless /\ ~ (b < Hi /\ Opposite(V(Widened), V(Upper)))
      /\ a' = Widened /\ b' = up
      /\ IF Spent(a', b') \/ widened + 1 = MaxWiden
         THEN Failed("NO_CONVERGENCE") /\ UNCHANGED widenVars
         ELSE /\ step' = (step * 8) \div 5 /\ widened' = widened + 1
              /\ UNCHANGED <<phase, status, root>>
      /\ UNCHANGED <<callVars, brentVars, x, iter>>

-----------------------------------------------------------------------------
(* solve_newton: f is negative at a and positive at b.                     *)

Between(p, q) == {n \in Lo..Hi : (p < n /\ n < q) \/ (q < n /\ n < p)}
\* Mutant of Landing: Newton's step is never rejected.
LandingAnywhere(p, q) == Lo..Hi
\* Where the step may land: anywhere strictly inside, else half-way.
Landing(p, q) == Between(p, q) \cup {(p + q) \div 2}

NewtonNaN ==
  /\ phase = "newton" /\ iter < MaxIter /\ ~ Finite(V(x))
  /\ Failed("NO_CONVERGENCE")
  /\ UNCHANGED <<callVars, a, b, brentVars, x, widenVars, iter>>

\* The end with the sign of f(x) moves to x.
\* Mutant of Tighten: the ends are taken for lower and upper, not - and +.
TightenUnoriented == IF V(x) > 0 THEN a' = x /\ b' = b ELSE a' = a /\ b' = x
Tighten == IF V(x) < 0 THEN a' = x /\ b' = b ELSE a' = a /\ b' = x

NewtonHit ==
  /\ phase = "newton" /\ iter < MaxIter /\ Finite(V(x)) /\ Abs(V(x)) <= Tol
  /\ Tighten /\ Found(x)
  /\ UNCHANGED <<callVars, brentVars, x, widenVars, iter>>

NewtonMove ==
  /\ phase = "newton" /\ iter < MaxIter /\ Finite(V(x)) /\ Abs(V(x)) > Tol
  /\ Tighten
  /\ \E next \in Landing(a', b') :
       \/ Abs(next - x) <= Slack[x] /\ Found(next) /\ UNCHANGED <<x, iter>>
       \/ /\ Abs(next - x) > Slack[x] /\ x' = next /\ iter' = iter + 1
          /\ UNCHANGED <<phase, status, root>>
  /\ UNCHANGED <<callVars, brentVars, widenVars>>

-----------------------------------------------------------------------------
(* solve_brent: an iteration first makes [b, c] the bracket, with f smaller*)
(* at b, then moves b towards c.                                           *)

Flip   == ~ Opposite(V(b), V(c))
\* Mutant of Across: the far end is not renewed when b has crossed the root.
AcrossKept == c
Across == IF Flip THEN a ELSE c
LastMove   == IF Flip THEN b - a ELSE d
BeforeLast == IF Flip THEN b - a ELSE e
Swap  == Abs(V(Across)) < Abs(V(b))
Best  == IF Swap THEN Across ELSE b
Other == IF Swap THEN b ELSE Across
Prior == IF Swap THEN b ELSE a
Width == Abs(Other - Best)

Running == phase = "brent" /\ iter < MaxIter
Settled == Width <= Tol \/ V(Best) = 0

BrentSettles ==
  /\ Running /\ Settled
  /\ a' = Prior /\ b' = Best /\ c' = Other /\ d' = LastMove /\ e' = BeforeLast
  /\ Found(Best)
  /\ UNCHANGED <<callVars, x, widenVars, iter>>

Interpolable == 2 * Abs(BeforeLast) >= Tol /\ Abs(V(Prior)) > Abs(V(Best))
\* An interpolated move is short of three quarters of the bracket and of half
\* the move before last.
Interpolated == {m \in 0..(Hi - Lo) : /\ 4 * m < 3 * Width - Tol
                                      /\ 2 * m < Abs(BeforeLast)}
Halfway == Width \div 2
\* No move is shorter than half the tolerance.
Reach(m) == IF 2 * m > Tol THEN m ELSE Tol \div 2

MoveBy(m, before) ==
  LET way == Toward(Best, Other)
  IN  /\ a' = Best /\ b' = Best + way * Reach(m) /\ c' = Other
      /\ d' = way * m /\ e' = before
      /\ IF Finite(V(b'))
         THEN iter' = iter + 1 /\ UNCHANGED <<phase, status, root>>
         ELSE Failed("NO_CONVERGENCE") /\ UNCHANGED iter
      /\ UNCHANGED <<callVars, x, widenVars>>

BrentInterpolates ==
  /\ Running /\ ~ Settled /\ Interpolable
  /\ \E m \in Interpolated : MoveBy(m, LastMove)

BrentBisects ==
  /\ Running /\ ~ Settled
  /\ MoveBy(Halfway, Toward(Best, Other) * Halfway)

-----------------------------------------------------------------------------
Exhausted ==
  /\ phase \in {"newton", "brent"} /\ iter = MaxIter
  /\ Failed("NO_CONVERGENCE")
  /\ UNCHANGED <<callVars, a, b, brentVars, x, widenVars, iter>>

Init ==
  /\ f \in Objectives /\ route \in {"yield", "spread"} /\ phase = "asked"
  /\ a = Guess /\ b = Guess /\ c = Guess /\ d = 0 /\ e = 0 /\ x = Guess
  /\ step = FirstStep /\ widened = 0 /\ iter = 0
  /\ status = "NONE" /\ root = Guess

Next == \/ NoAccrued \/ AskYield \/ AskSpread
        \/ WidenDown \/ WidenUp \/ WidenBoth
        \/ NewtonNaN \/ NewtonHit \/ NewtonMove
        \/ BrentSettles \/ BrentInterpolates \/ BrentBisects
        \/ Exhausted

Spec == Init /\ [][Next]_vars

-----------------------------------------------------------------------------
(* Properties.                                                             *)

\* solve.hpp promises a search of [lo, hi]: beyond it simple and periodic
\* compounding divide by zero.  No point is ever looked at outside.
SearchConfined == {a, b, c, x} \subseteq Lo..Hi

\* While a solver runs, the sign change it started from is never lost, whatever
\* the steps it takes: Newton's ends keep their signs around the next point,
\* and Brent's best point faces one of the two others.
RootTrapped ==
  /\ phase = "newton" =>
       /\ Finite(V(a)) /\ Finite(V(b)) /\ V(a) < 0 /\ V(b) > 0
       /\ x \in Between(a, b)
  /\ phase = "brent" =>
       /\ Finite(V(a)) /\ Finite(V(b)) /\ Finite(V(c))
       /\ V(b) = 0 \/ Opposite(V(b), V(c)) \/ Opposite(V(b), V(a))

\* p and q bracket a root of the objective.
Brackets(p, q) == p <= q /\ (Opposite(V(p), V(q)) \/ V(p) = 0 \/ V(q) = 0)

\* What an answer is good for.  A spread has a sign change within the tolerance.
\* A yield reprices the bond to the tolerance, or Newton's last step was short,
\* which says nothing of the price there or of the bracket's width: only that
\* the answer has not left the last bracket, whose ends still have opposite
\* signs, and lies within its slack of the one tried last.
AnswerTrusted ==
  phase = "done" /\ status = "OK" =>
    /\ route = "yield" =>
         \/ Finite(V(root)) /\ Abs(V(root)) <= Tol
         \/ /\ Finite(V(a)) /\ Finite(V(b)) /\ V(a) < 0 /\ V(b) > 0
            /\ root \in Between(a, b) \cup {a, b}
            /\ x \in {a, b} /\ Abs(root - x) <= Slack[x]
    /\ route = "spread" =>
         \E p, q \in Lo..Hi : /\ Brackets(p, q) /\ q - p <= Tol
                              /\ root \in {p, q}

\* "Price is monotone decreasing in yield across the whole of [lo, hi]": true
\* of a bond whose coupons are not negative.
Falls == \A p, q \in Lo..Hi :
           p < q /\ Finite(V(p)) /\ Finite(V(q)) => V(q) <= V(p)

\* A search that gives up ran out of iterations, found no price somewhere, or
\* has seen both ends of its range on one side of the target.  If the price
\* falls, that means no two points of the range face each other and the target
\* is out of reach.  If it rises again it means no such thing: a target the
\* price crosses twice is given up on as well.
GivesUpHonestly ==
  phase = "done" /\ status = "NO_CONVERGENCE" =>
    \/ iter = MaxIter
    \/ \E p \in Lo..Hi : ~ Finite(V(p))
    \/ /\ ~ Opposite(V(Lo), V(Hi))
       /\ Falls => \A p, q \in Lo..Hi : ~ Opposite(V(p), V(q))
=============================================================================
