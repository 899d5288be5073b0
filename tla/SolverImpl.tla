----------------------------- MODULE SolverImpl -----------------------------
(***************************************************************************)
(* Solver implements RootSearch, by either route.  Newton's bracket is [a, *)
(* b]; Brent's is what the next iteration makes of its three points.       *)
(***************************************************************************)
EXTENDS Solver

Searching == phase \in {"newton", "brent"}
Far == IF phase = "newton" THEN a ELSE Across
Lesser(p, q)  == IF p < q THEN p ELSE q
Greater(p, q) == IF p < q THEN q ELSE p

Search == INSTANCE RootSearch WITH
            phase <- IF Searching THEN "searching"
                     ELSE IF phase = "done" THEN "done" ELSE "asked",
            left  <- IF Searching THEN Lesser(b, Far) ELSE Lo,
            right <- IF Searching THEN Greater(b, Far) ELSE Hi

\* Whichever solver runs, and wherever its formulas send it, it brings two
\* points together about a sign change of the objective, and what it answers
\* lies between them: an answer is never outside the bracket it started from.
ImplementsRootSearch == Search!Spec
=============================================================================
