---------------------------- MODULE MCCurveRisk ----------------------------
(***************************************************************************)
(* Small instances of curve risk: two callers, two or three pillars, two   *)
(* cash flows.                                                             *)
(***************************************************************************)
EXTENDS CurveRiskImpl, KeyRates, TLC

CONSTANTS a, b,              \* callers
          native,            \* a curve that keeps its callers serialised
          mine, yours,       \* curves that yield, one per caller
          old, oneway, level,\* odd curves: short struct, no reset, flat
          p1, p2, p3         \* pillars

Full  == [size |-> 8, discount |-> TRUE, bump |-> TRUE, parallel |-> TRUE,
          reset |-> TRUE, flat |-> FALSE]

Layout == native :> Full @@ mine :> Full @@ yours :> Full
          @@ old    :> [Full EXCEPT !.size = 4]
          @@ oneway :> [Full EXCEPT !.reset = FALSE]
          @@ level  :> [Full EXCEPT !.flat = TRUE]

MCVtable == [cv \in Curves |-> Layout[cv]]

MCUsers == [cv \in Curves |-> IF cv = mine THEN {a}
                              ELSE IF cv = yours THEN {b} ELSE Callers]

\* Unevenly spaced pillars, and times before, at, between and beyond them.
MCGrid   == IF p3 \in Pillars THEN <<p1, p2, p3>> ELSE <<p1, p2>>
MCTenors == IF p3 \in Pillars THEN <<2, 5, 9>> ELSE <<2, 5>>
MCTimes  == 1..10

\* Two contexts with different bump sizes: another call's bump would show.
MCBumpSize == [c \in Callers |-> IF c = a THEN 1 ELSE 3]

Parallel(cv) == [op |-> "parallel", curve |-> cv, bond |-> "good",
                 nul |-> "none", targets |-> <<All>>]
KeyRate(cv, ts) == [Parallel(cv) EXCEPT !.op = "keyrate", !.targets = ts]

\* The calls that reach the callbacks, and each way they can end early.
Working(cv, pillars) ==
  {Parallel(cv), KeyRate(cv, pillars), KeyRate(cv, <<p2, OffGrid>>),
   KeyRate(cv, <<p1, Invalid>>)}
Stopped(cv) ==
  {[Parallel(cv) EXCEPT !.bond = "worthless"],
   [KeyRate(cv, <<p1>>) EXCEPT !.bond = "unaccruable"]}
Rejected(cv) ==
  {KeyRate(cv, <<>>), [Parallel(cv) EXCEPT !.nul = "ctx"],
   [KeyRate(cv, <<p1>>) EXCEPT !.nul = "tenors"]}

RiskRequests ==
  UNION {Working(cv, Grid) : cv \in {native, mine}}
  \cup {Parallel(oneway)}
  \cup {KeyRate(cv, Grid) : cv \in {yours, old, level}}
  \cup Stopped(native)
HostileRequests ==
  {Parallel(native), KeyRate(native, <<p1, p2>>), KeyRate(native, <<p1, Invalid>>),
   KeyRate(native, <<p1, OffGrid>>)}
  \cup Stopped(native) \cup Rejected(native)
NativeRequests == Working(native, <<p1, p2>>)

=============================================================================
