------------------------------ MODULE MCSolver ------------------------------
(***************************************************************************)
(* Objectives over a dozen points: prices that fall with the yield, steep  *)
(* or flat about the root, without a price at either end or at one point;  *)
(* and ones that rise again, as a bond with negative coupons can.          *)
(***************************************************************************)
EXTENDS SolverImpl, TLC

\* High before the root, low after it, "at" on it; none before p or after q.
Falling(r, high, at, low, p, q) ==
  [n \in Lo..Hi |-> IF n < p \/ n > q THEN NaN
                    ELSE IF n < r THEN high + (r - n)
                    ELSE IF n = r THEN at ELSE low - (n - r)]

\* A price that fails at one point only.
Holed(r, p) == [Falling(r, 6, 0, -6, Lo, Hi) EXCEPT ![p] = NaN]

\* Two roots: down at r, up again at s.
Sagging(r, s) == [n \in Lo..Hi |-> IF n = r THEN -1 ELSE IF n \in r..s THEN -5 ELSE 4]

\* The tolerance grows with the distance from the origin.
MCSlack == [p \in Lo..Hi |-> IF p < 9 THEN Tol ELSE Tol + 1]

MCObjectives ==
  {Falling(r, h, v, l, Lo, Hi) :
     r \in (Lo - 1)..(Hi + 1), h \in {0, 3, 20}, v \in {-3, 0, 1}, l \in {0, -9}}
  \cup {Falling(r, 3, v, -3, p, q) :
          r \in {1, 4, 9}, v \in {0, 2}, p \in {Lo + 1, Guess, Guess + 1}, q \in {Hi, Hi - 1}}
  \cup {Holed(r, p) : r \in {2, 7, 11}, p \in {1, 6, 8, 12}}
  \cup {Sagging(r, s) : r \in 2..4, s \in 6..10}
=============================================================================
