------------------------------ MODULE ZeroCurve ------------------------------
(***************************************************************************)
(* The Python extension's ZeroCurve, in exact fractions: what the levels   *)
(* at its pillars are worth at any time.  A level is a zero rate with the  *)
(* bump in force on it; tenors and times are on one integer scale.         *)
(***************************************************************************)
EXTENDS Integers, Sequences, FiniteSetsExt

\* What the constructor accepts as tenors.
Buildable(tenors) ==
  /\ tenors # <<>> /\ tenors[1] > 0
  /\ \A i \in 2..Len(tenors) : tenors[i] > tenors[i - 1]

\* The first pillar at or after a time between the first and the last.
Neighbour(tenors, t) == Min({i \in 2..Len(tenors) : tenors[i] >= t})

\* Mutant of Between: the weight is that of the other neighbour.
BetweenSwapped(tenors, levels, t) ==
  LET hi  == Neighbour(tenors, t)
      gap == tenors[hi] - tenors[hi - 1]
  IN  <<levels[hi - 1] * gap + (tenors[hi] - t) * (levels[hi] - levels[hi - 1]), gap>>

\* Linear between the two neighbours; as a numerator and a denominator.
Between(tenors, levels, t) ==
  LET hi  == Neighbour(tenors, t)
      gap == tenors[hi] - tenors[hi - 1]
  IN  <<levels[hi - 1] * gap + (t - tenors[hi - 1]) * (levels[hi] - levels[hi - 1]), gap>>

\* zero_rate: flat beyond both ends.
ZeroRate(tenors, levels, t) ==
  LET n == Len(tenors)
  IN  IF t <= tenors[1] THEN <<levels[1], 1>>
      ELSE IF t >= tenors[n] THEN <<levels[n], 1>>
      ELSE Between(tenors, levels, t)
=============================================================================
