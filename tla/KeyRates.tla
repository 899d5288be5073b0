------------------------------ MODULE KeyRates ------------------------------
(***************************************************************************)
(* Key rates on a curve that interpolates between its pillars: what the    *)
(* bumps a call has seen at the pillars were at the times of cash flows.   *)
(***************************************************************************)
EXTENDS CurveRisk, ZeroCurve

CONSTANTS
  Grid,        \* the pillars in the order of their tenors
  GridTenors,  \* the tenors of the grid
  Times        \* the times cash flows may have, on the scale of the tenors

\* The constructor takes one tenor per pillar, in strictly increasing order.
ASSUME GridAssumption ==
  /\ Grid \in Seq(Pillars)
  /\ \A i, j \in DOMAIN Grid : Grid[i] = Grid[j] => i = j
  /\ GridTenors \in Seq(Int)
  /\ Len(GridTenors) = Len(Grid)
  /\ Buildable(GridTenors)
  /\ Times \subseteq Int

\* How far a revaluation that saw these bumps saw the zero rate moved at t.
Shift(view, t) == ZeroRate(GridTenors, [i \in DOMAIN Grid |-> view[Grid[i]]], t)

\* The reach of a pillar: up to its neighbours, and beyond the two ends.
Reaches(i, t) == /\ i > 1 => t > GridTenors[i - 1]
                 /\ i < Len(Grid) => t < GridTenors[i + 1]

\* The part each target of a finished call has in the move at t: its one
\* bump up or down, as the curve spread it.
Parts(c, s, f, t) == [i \in DOMAIN Grid |-> Shift(out[c][i][s][f], t)]

\* The whole bump lies at one pillar, or on it and the next one together.
AddUpAt(part, whole, i) ==
  /\ \A j \in DOMAIN Grid \ {i, i + 1} : part[j][1] = 0
  /\ IF i + 1 \in DOMAIN Grid
       THEN part[i][2] = part[i + 1][2] /\ part[i][1] + part[i + 1][1] = whole * part[i][2]
       ELSE part[i][1] = whole * part[i][2]

\* "A bump at 5y leaves the 2y and 10y points untouched", and the key rates of
\* all pillars together are the parallel move: whichever times the cash flows
\* have, a finished call over the whole grid has seen, in either direction, each
\* pillar's bump between that pillar's neighbours only, and the sum of them is
\* one bump; a bump per pillar for a curve that moves its whole level.
KeyRatesAddUp ==
  \A c \in Callers :
    pc[c] = "idle" /\ status[c] = "OK" /\ req[c].targets = Grid =>
      \A t \in Times, s \in {"up", "down"}, f \in 1..NFlows :
        LET part  == Parts(c, s, f, t)
            whole == Signed(s, BumpSize[c])
        IN  IF Vtable[CurveOf(c)].flat
              THEN \A i \in DOMAIN Grid : part[i][1] = whole * part[i][2]
              ELSE /\ \E i \in DOMAIN Grid : AddUpAt(part, whole, i)
                   /\ \A i \in DOMAIN Grid : part[i][1] # 0 <=> Reaches(i, t)
=============================================================================
