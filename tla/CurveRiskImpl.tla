---------------------------- MODULE CurveRiskImpl ----------------------------
(***************************************************************************)
(* CurveRisk implements CurveRiskAbs.  A curve that carries an armed guard  *)
(* is one its caller has borrowed and will give back: the abstract curve is *)
(* the level it returns to.                                                 *)
(***************************************************************************)
EXTENDS CurveRisk

Borrowed(cv) == \E c \in Callers : Armed(c) /\ CurveOf(c) = cv

Abs == INSTANCE CurveRiskAbs WITH
         Requests <- Requests \cup {NoRequest},
         Level    <- Unbumped,
         Errors   <- Statuses \ {"OK"},
         Answer   <- Exact,
         curve    <- [cv \in Curves |-> IF Borrowed(cv) THEN Unbumped
                                                       ELSE bumps[cv]],
         call     <- req,
         busy     <- [c \in Callers |-> pc[c] # "idle"]

\* Seen from its callers, a call has the curve to itself: bumps, resets and the
\* callbacks of other calls in between leave no trace in results or status.
ImplementsAbs == Abs!Spec
=============================================================================
