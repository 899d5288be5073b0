---------------------------- MODULE CurveRiskAbs ----------------------------
(***************************************************************************)
(* What curve risk promises its callers: a call behaves as if it had the   *)
(* curve to itself.  It delivers, in order, the answers a private copy of  *)
(* the curve would give, then returns; only a call that delivered them all *)
(* returns OK; and the curve is never seen to change.                      *)
(***************************************************************************)
EXTENDS Integers, Sequences

CONSTANTS Callers, Curves, Requests, Untouched, Level, Errors,
          Answer(_, _, _)  \* Answer(c, r, i): the i-th result of c's call r

VARIABLES
  curve,   \* the state of each curve
  call,    \* the arguments of each caller's current or latest call
  busy,    \* which callers are in a call
  out,     \* their out-parameters
  status   \* what the latest call returned

vars == <<curve, call, busy, out, status>>

\* out starts empty; call starts as any request without a target.
Init ==
  /\ curve = [cv \in Curves |-> Level]
  /\ call \in [Callers -> {r \in Requests : r.targets = <<>>}]
  /\ busy = [c \in Callers |-> FALSE]
  /\ out = [c \in Callers |-> <<>>]
  /\ status = [c \in Callers |-> "OK"]

Complete(o) == \A i \in DOMAIN o : o[i] # Untouched

Blank(r) == [i \in DOMAIN r.targets |-> Untouched]

Take(c, r) ==
  /\ call' = [call EXCEPT ![c] = r]
  /\ out' = [out EXCEPT ![c] = Blank(r)]
  /\ ~busy[c]

\* A call that is taken goes on, or returns at once: it is refused, or there
\* was nothing to compute.
Start(c, r) ==
  /\ r.targets # <<>>
  /\ busy' = [busy EXCEPT ![c] = TRUE]
  /\ UNCHANGED <<curve, status>>

Refuse(c, r, st) ==
  /\ st \in Errors \/ (st = "OK" /\ r.targets = <<>>)
  /\ status' = [status EXCEPT ![c] = st]
  /\ UNCHANGED <<curve, busy>>

\* The next result, and the call goes on, or fails, or has delivered them all.
Deliver(c) ==
  /\ busy[c]
  /\ \E i \in DOMAIN out[c] :
       /\ out[c][i] = Untouched
       /\ \A j \in 1..(i-1) : out[c][j] # Untouched
       /\ out' = [out EXCEPT ![c][i] = Answer(c, call[c], i)]
  /\ \/ UNCHANGED <<busy, status>>
     \/ /\ busy' = [busy EXCEPT ![c] = FALSE]
        /\ IF Complete(out'[c]) THEN status' = [status EXCEPT ![c] = "OK"]
           ELSE \E st \in Errors : status' = [status EXCEPT ![c] = st]
  /\ UNCHANGED <<curve, call>>

Fail(c, st) ==
  /\ busy[c]
  /\ st \in Errors
  /\ busy' = [busy EXCEPT ![c] = FALSE]
  /\ status' = [status EXCEPT ![c] = st]
  /\ UNCHANGED <<curve, call, out>>

Next ==
  \E c \in Callers :
    \/ \E r \in Requests :
         /\ Take(c, r)
         /\ \/ Start(c, r)
            \/ \E st \in Errors \cup {"OK"} : Refuse(c, r, st)
    \/ Deliver(c)
    \/ \E st \in Errors : Fail(c, st)

Spec == Init /\ [][Next]_vars
=============================================================================
