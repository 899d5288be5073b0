----------------------------- MODULE RootSearch -----------------------------
(***************************************************************************)
(* What a root finder promises: it traps a sign change of the objective    *)
(* between two points of its range, brings the points together without     *)
(* ever letting it out, and answers from between them.  Or it gives up.    *)
(***************************************************************************)
EXTENDS Integers

CONSTANTS Objectives, NaN, Lo, Hi, Tol, Slack

VARIABLES
  f,            \* the objective of the call
  phase,        \* "asked" | "searching" | "done"
  left, right,  \* while it searches, the bracket; else the whole range
  status, root

vars == <<f, phase, left, right, status, root>>

\* The objective has a value at both points, and not of the same sign.
Straddles(p, q) ==
  /\ f[p] # NaN /\ f[q] # NaN
  /\ (f[p] <= 0 /\ f[q] >= 0) \/ (f[p] >= 0 /\ f[q] <= 0)

Near(v) == -Tol <= v /\ v <= Tol

Init ==
  /\ f \in Objectives
  /\ phase = "asked" /\ status = "NONE"
  /\ left = Lo /\ right = Hi /\ root \in Lo..Hi

Begin ==
  /\ phase = "asked"
  /\ phase' = "searching"
  /\ left' \in Lo..Hi /\ right' \in left'..Hi /\ Straddles(left', right')
  /\ UNCHANGED <<f, status, root>>

\* The guess, or an end of the range, is a root.
AnswerAtOnce ==
  /\ phase = "asked"
  /\ root' \in Lo..Hi /\ f[root'] = 0
  /\ phase' = "done" /\ status' = "OK"
  /\ UNCHANGED <<f, left, right>>

Narrow ==
  /\ phase = "searching"
  /\ left' \in left..right /\ right' \in left'..right
  /\ right' - left' < right - left
  /\ Straddles(left', right')
  /\ UNCHANGED <<f, phase, status, root>>

\* The answer is a root to the tolerance, or stands in a bracket, within the
\* slack of one of its ends.
AnswerFrom(p, q) ==
  /\ root' \in p..q
  /\ \/ f[root'] # NaN /\ Near(f[root'])
     \/ Straddles(p, q) /\ (root' - p <= Slack[p] \/ q - root' <= Slack[q])

Answer ==
  /\ phase = "searching"
  /\ \E p, q \in left..right : AnswerFrom(p, q)
  /\ phase' = "done" /\ status' = "OK"
  /\ left' = Lo /\ right' = Hi
  /\ UNCHANGED f

GiveUp ==
  /\ phase # "done"
  /\ phase' = "done" /\ status' \in {"NO_CONVERGENCE", "BAD_SCHEDULE"}
  /\ left' = Lo /\ right' = Hi
  /\ UNCHANGED <<f, root>>

Next == Begin \/ AnswerAtOnce \/ Narrow \/ Answer \/ GiveUp

Spec == Init /\ [][Next]_vars
=============================================================================
