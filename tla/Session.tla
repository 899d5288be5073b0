------------------------------- MODULE Session -------------------------------
(***************************************************************************)
(* A Python program that uses libfirisk: contexts with their settings kept *)
(* twice, once in the library and once in the Python object, bonds built   *)
(* from them, and risk calls that run the program's own code in the middle.*)
(*                                                                         *)
(* A risk call on a PyCurve calls back into Python at every revaluation.   *)
(* That code may do whatever the program may do between calls: assign to   *)
(* the context in use, build bonds from it, start another risk call on it. *)
(* So the calls in progress form a stack, and a step belongs to whoever    *)
(* runs on top of it: the program, or a callback of the topmost call.      *)
(*                                                                         *)
(* Values are what the setters tell apart.  An inner call prices on a curve*)
(* of its own: two calls bumping one curve are the subject of CurveRisk.   *)
(***************************************************************************)
EXTENDS Integers, Sequences

CONSTANTS
  Contexts,
  Bonds,       \* the program's variables that hold bonds
  Dates,       \* valuation dates the library accepts
  Sizes,       \* bump sizes the library accepts
  Default,     \* the bump size of a new context
  Unset,       \* a context's valuation date before the first is set
  Refused,     \* a date or size of the right type that the library refuses
  NoBond, NoNumber,
  MaxDepth     \* bound: risk calls in progress at once

ASSUME ValuesAssumption ==
  /\ Default \in Sizes
  /\ Unset \notin Dates
  /\ Refused \notin Dates \cup Sizes \cup {Unset}
ASSUME SlotsAssumption ==
  /\ \A c \in Contexts, d \in Dates : NoBond # [ctx |-> c, date |-> d]
  /\ MaxDepth \in Nat

ContextCalls == {"valuation_date", "bump_size", "solver", "bond", "risk"}
Calls        == ContextCalls \cup {"price"}
Statuses     == {"OK", "BAD_DATE", "BAD_ARG", "BAD_SCHEDULE",
                 "NO_BUMP_SUPPORT", "NO_CONVERGENCE"}
Exceptions   == {"none", "ValueError", "RuntimeError", "TypeError"}

\* The text of an ErrorState: which call's message it is, and of what status.
\* Of "nobody" when no call has left one.
Messages == [status : Statuses, of : Calls \cup {"nobody"}]
Clear    == [status |-> "OK", of |-> "nobody"]

Settings == [date : Dates \cup {Unset}, bump : Sizes]
Fresh    == [date |-> Unset, bump |-> Default]
Fields   == {"date", "bump"}

\* A risk call in progress: which revaluation it is at.  The size is passed
\* down by value when the call starts; `sizes` collects what its bumps and its
\* quotients use.  held and shown are history: the size the library's context and
\* the mirror had at the start.
Frames == [ctx : Contexts, bump : Sizes, turn : {"base", "up", "down"},
           sizes : SUBSET Sizes, held : Sizes, shown : Sizes]

VARIABLES
  built,     \* the contexts the program has
  native,    \* the settings in the library
  mirror,    \* _valuation_date and _bump_size
  err,       \* each context's ErrorState
  bonds,     \* each bond variable: the bond's context and valuation date
  stack,     \* the risk calls in progress, the innermost last
  answer,    \* how the latest step's call ended: its exception and message
  number,    \* the risk number the latest step returned
  bypassed   \* history: settings last changed behind the properties' back

settingVars == <<built, native, mirror, bypassed>>
vars == <<built, native, mirror, err, bonds, stack, answer, number, bypassed>>

------------------------------------------------------------------------------
(* Errors and exceptions.                                                   *)

Message(status, call) == [status |-> status, of |-> call]

\* is_caller_error: what is the caller's fault is a ValueError.
ExceptionOf(status) ==
  IF status = "OK" THEN "none"
  ELSE IF status = "NO_CONVERGENCE" THEN "RuntimeError" ELSE "ValueError"

Answer(call, status, text) ==
  [call |-> call, status |-> status, exception |-> ExceptionOf(status),
   text |-> text]

\* A context call has ended: raise_context copies the message the context
\* holds now, if the status is a failure.
Ended(c, call, status) ==
  /\ answer' = Answer(call, status, IF status = "OK" THEN Clear ELSE err'[c])
  /\ number' = NoNumber

\* No call has ended with this step.
Returned == Answer("risk", "OK", Clear)
Quiet    == answer' = Returned /\ number' = NoNumber

\* FIR_ENTRY clears the context's error; a failing call then sets it.
Record(c, call, status) ==
  err' = [err EXCEPT ![c] = IF status = "OK" THEN Clear
                            ELSE Message(status, call)]

\* Refused in Python, before the library hears of it: a value that is no date
\* or no number, or key_rates on a curve that has no pillars of its own.
PythonRefuses(exception) ==
  /\ answer' = [call |-> "nobody", status |-> "OK", exception |-> exception,
                text |-> Clear]
  /\ number' = NoNumber
  /\ UNCHANGED <<settingVars, err, bonds, stack>>

\* Prices, yields, analytic risk and cash flows: calls that take no context,
\* so their exceptions carry the status's own text.  One status per exception
\* stands for the rest.  A curve's callbacks may run here too, but nothing of
\* this call is left in a context for them to disturb.
PriceBond(b, status) ==
  /\ bonds[b] # NoBond
  /\ answer' = Answer("price", status,
                      IF status = "OK" THEN Clear ELSE Message(status, "price"))
  /\ number' = NoNumber
  /\ UNCHANGED <<settingVars, err, bonds, stack>>

------------------------------------------------------------------------------
(* Contexts.                                                                *)

SetterOf(field) == IF field = "date" THEN "valuation_date" ELSE "bump_size"
Accepted(field) == IF field = "date" THEN Dates ELSE Sizes
SetterStatus(field, v) ==
  IF v \in Accepted(field) THEN "OK"
  ELSE IF field = "date" THEN "BAD_DATE" ELSE "BAD_ARG"

\* The arguments a constructor is given, and its first setter to refuse; None
\* is Unset for a date and Default for a size: those setters are not called.
Arguments == [date : Dates \cup {Unset, Refused}, bump : Sizes \cup {Refused},
              solver : BOOLEAN]
FirstRefusal(args) ==
  IF args.date = Refused THEN Message("BAD_DATE", "valuation_date")
  ELSE IF args.bump = Refused THEN Message("BAD_ARG", "bump_size")
  ELSE IF ~args.solver THEN Message("BAD_ARG", "solver")
  ELSE Clear

\* A setter raises: the object is dropped unfinished.
NewContextFails(c, args) ==
  /\ c \notin built
  /\ FirstRefusal(args) # Clear
  /\ answer' = Answer(FirstRefusal(args).of, FirstRefusal(args).status,
                      FirstRefusal(args))
  /\ number' = NoNumber
  /\ UNCHANGED <<settingVars, err, bonds, stack>>

\* Mutant of NewContext: the mirrors get their defaults after the setters ran.
NewContextDefaultsLast(c, args) ==
  /\ c \notin built
  /\ FirstRefusal(args) = Clear
  /\ built' = built \cup {c}
  /\ native' = [native EXCEPT ![c] = [date |-> args.date, bump |-> args.bump]]
  /\ mirror' = [mirror EXCEPT ![c] = Fresh]
  /\ err' = [err EXCEPT ![c] = Clear]
  /\ answer' = Returned
  /\ number' = NoNumber
  /\ UNCHANGED <<bonds, stack, bypassed>>

\* Context(...): defaults on both sides, then the properties' own setters.
NewContext(c, args) ==
  /\ c \notin built
  /\ FirstRefusal(args) = Clear
  /\ built' = built \cup {c}
  /\ native' = [native EXCEPT ![c] = [date |-> args.date, bump |-> args.bump]]
  /\ mirror' = [mirror EXCEPT ![c] = [date |-> args.date, bump |-> args.bump]]
  /\ err' = [err EXCEPT ![c] = Clear]
  /\ answer' = Returned
  /\ number' = NoNumber
  /\ UNCHANGED <<bonds, stack, bypassed>>

\* A native setter: it changes nothing unless it accepts the value.
SetNative(c, field, v) ==
  /\ c \in built
  /\ native' = IF v \in Accepted(field) THEN [native EXCEPT ![c][field] = v]
               ELSE native
  /\ Record(c, SetterOf(field), SetterStatus(field, v))
  /\ Ended(c, SetterOf(field), SetterStatus(field, v))
  /\ UNCHANGED <<built, bonds, stack>>

\* ctx.valuation_date = v, ctx.bump_size = v: the mirror follows the setter,
\* which raises past it when it refuses.
Assign(c, field, v) ==
  /\ SetNative(c, field, v)
  /\ IF v \in Accepted(field)
       THEN /\ mirror' = [mirror EXCEPT ![c][field] = v]
            /\ bypassed' = bypassed \ {<<c, field>>}
       ELSE UNCHANGED <<mirror, bypassed>>

\* ctx.set_valuation_date(v), ctx.set_bump_size(v): the inherited methods do
\* not know of the mirrors.
SetInherited(c, field, v) ==
  /\ SetNative(c, field, v)
  /\ bypassed' = IF v \in Accepted(field) THEN bypassed \cup {<<c, field>>}
                 ELSE bypassed
  /\ UNCHANGED mirror

\* set_solver_tolerance, set_solver_max_iter: nothing reads what they set.
SetSolver(c, status) ==
  /\ c \in built
  /\ Record(c, "solver", status)
  /\ Ended(c, "solver", status)
  /\ UNCHANGED <<settingVars, bonds, stack>>

------------------------------------------------------------------------------
(* Bonds.                                                                   *)

\* What fir_bond_new can answer: no bond without a valuation date.  The other
\* refusals are the Bond module's, and BAD_SCHEDULE stands for them.
BuildStatuses(c) ==
  IF native[c].date = Unset THEN {"BAD_DATE"}
  ELSE {"OK", "BAD_DATE", "BAD_SCHEDULE"}

\* Bond(ctx, ...): the variable is bound only if the constructor returns.
BuildBond(b, c, status) ==
  /\ c \in built
  /\ status \in BuildStatuses(c)
  /\ Record(c, "bond", status)
  /\ Ended(c, "bond", status)
  /\ bonds' = IF status # "OK" THEN bonds
              ELSE [bonds EXCEPT ![b] = [ctx |-> c, date |-> native[c].date]]
  /\ UNCHANGED <<settingVars, stack>>

------------------------------------------------------------------------------
(* Risk calls.                                                              *)

\* The context of a risk call: the one given, or the bond's.
RiskContext(b, given) == IF given \in Contexts THEN given ELSE bonds[b].ctx

CanCallRisk(b, c) == bonds[b] # NoBond /\ c \in built

\* The curve has no bump or no reset.
RefuseRisk(b, c) ==
  /\ CanCallRisk(b, c)
  /\ Record(c, "risk", "NO_BUMP_SUPPORT")
  /\ Ended(c, "risk", "NO_BUMP_SUPPORT")
  /\ UNCHANGED <<settingVars, bonds, stack>>

\* Key rates for an empty list of tenors: an empty answer, and no callback.
RiskOfNothing(b, c) ==
  /\ CanCallRisk(b, c)
  /\ err' = [err EXCEPT ![c] = Clear]
  /\ Quiet
  /\ UNCHANGED <<settingVars, bonds, stack>>

\* The context's bump size is read once, here.
StartRisk(b, c) ==
  /\ CanCallRisk(b, c)
  /\ Len(stack) < MaxDepth
  /\ err' = [err EXCEPT ![c] = Clear]
  /\ stack' = Append(stack,
       [ctx |-> c, bump |-> native[c].bump, turn |-> "base", sizes |-> {},
        held |-> native[c].bump, shown |-> mirror[c].bump])
  /\ Quiet
  /\ UNCHANGED <<settingVars, bonds>>

Top == stack[Len(stack)]
Below == SubSeq(stack, 1, Len(stack) - 1)

\* Mutant of SizeInUse: the context is asked again at every use.
SizeReread(f) == native[f.ctx].bump

\* The size a revaluation bumps by and a quotient divides by.
SizeInUse(f) == f.bump

\* The revaluation's callback has returned, and another is to come: the other
\* side of the bucket, or the next bucket of a key-rate call.
Proceed ==
  /\ stack # <<>>
  /\ stack' = [stack EXCEPT ![Len(stack)] =
       [Top EXCEPT !.turn = IF Top.turn = "up" THEN "down" ELSE "up",
                   !.sizes = IF Top.turn = "base" THEN Top.sizes
                             ELSE Top.sizes \cup {SizeInUse(Top)}]]
  /\ Quiet
  /\ UNCHANGED <<settingVars, err, bonds>>

\* The last one: the call returns its number and touches no error state.
Finish ==
  /\ stack # <<>>
  /\ Top.turn = "down"
  /\ stack' = Below
  /\ number' = [sizes |-> Top.sizes \cup {SizeInUse(Top)},
                held |-> Top.held, shown |-> Top.shown]
  /\ answer' = Returned
  /\ UNCHANGED <<settingVars, err, bonds>>

\* Mutant of Unwind: a failing return that does not set the context's error.
UnwindUnrecorded ==
  /\ stack # <<>>
  /\ stack' = Below
  /\ UNCHANGED err
  /\ Ended(Top.ctx, "risk", "BAD_ARG")
  /\ UNCHANGED <<settingVars, bonds>>

\* A callback raises, or the price it makes is refused: the call unwinds and
\* records its own status, over whatever the callback's calls left there.  BAD_ARG
\* stands for all it may be.
Unwind ==
  /\ stack # <<>>
  /\ stack' = Below
  /\ Record(Top.ctx, "risk", "BAD_ARG")
  /\ Ended(Top.ctx, "risk", "BAD_ARG")
  /\ UNCHANGED <<settingVars, bonds>>

------------------------------------------------------------------------------
Init ==
  /\ built = {}
  /\ native = [c \in Contexts |-> Fresh]
  /\ mirror = [c \in Contexts |-> Fresh]
  /\ err = [c \in Contexts |-> Clear]
  /\ bonds = [b \in Bonds |-> NoBond]
  /\ stack = <<>>
  /\ answer = Returned
  /\ number = NoNumber
  /\ bypassed = {}

ContextStep(c) ==
  \/ \E args \in Arguments : NewContext(c, args) \/ NewContextFails(c, args)
  \/ \E field \in Fields : \E v \in Accepted(field) \cup {Refused} :
       Assign(c, field, v) \/ SetInherited(c, field, v)
  \/ \E status \in {"OK", "BAD_ARG"} : SetSolver(c, status)

BondStep(b) ==
  \/ \E c \in Contexts, status \in Statuses : BuildBond(b, c, status)
  \/ \E status \in {"OK", "BAD_ARG", "NO_CONVERGENCE"} : PriceBond(b, status)
  \/ /\ bonds[b] # NoBond
     /\ \E given \in Contexts \cup {NoBond} :
          \/ RefuseRisk(b, RiskContext(b, given))
          \/ RiskOfNothing(b, RiskContext(b, given))
          \/ StartRisk(b, RiskContext(b, given))

CallbackStep ==
  \/ Proceed
  \/ Finish
  \/ Unwind

Next ==
  \/ \E c \in Contexts : ContextStep(c)
  \/ \E b \in Bonds : BondStep(b)
  \/ \E exception \in {"TypeError", "ValueError"} : PythonRefuses(exception)
  \/ CallbackStep

Spec == Init /\ [][Next]_vars

------------------------------------------------------------------------------
(* Correctness.                                                             *)

TypeOK ==
  /\ built \subseteq Contexts
  /\ native \in [Contexts -> Settings]
  /\ mirror \in [Contexts -> Settings]
  /\ err \in [Contexts -> Messages]
  /\ bonds \in [Bonds -> [ctx : Contexts, date : Dates] \cup {NoBond}]
  /\ stack \in Seq(Frames)
  /\ answer \in [call : Calls \cup {"nobody"}, status : Statuses,
                 exception : Exceptions, text : Messages]
  /\ number \in [sizes : SUBSET Sizes, held : Sizes, shown : Sizes]
                \cup {NoNumber}
  /\ bypassed \subseteq Contexts \X Fields

\* ctx.valuation_date and ctx.bump_size tell what the library will use,
\* whatever was refused and in whatever order things were set, unless the
\* inherited setter was the last to change the setting.
MirrorsTrue ==
  \A c \in built, field \in Fields :
    <<c, field>> \notin bypassed => mirror[c][field] = native[c][field]

\* A risk number is made with one size throughout, the one the library's context
\* held when the call was made: no assignment, inherited setter or nested call of
\* its callbacks, on the same context, gets between its bumps and its quotients.
NumbersAtOneSize == number # NoNumber => number.sizes = {number.held}

\* Not so: the docstring of Context.bump_size, "Bump size in basis points used by
\* all curve risk".  A number may be made with a size the property did not show,
\* because set_bump_size is inherited and does not know of the property's copy.
NumbersAtShownSize == number # NoNumber => number.sizes = {number.shown}

\* The message of an exception is that of the call that raised it: not of an
\* earlier call, and not of one that its callbacks made on the same context.
DiagnosticIsOwn ==
  answer.status # "OK" => answer.text = Message(answer.status, answer.call)

\* Why the numbers are right: each call in progress has used one size only,
\* the one its context held when it began.
FramesTrue ==
  \A i \in 1..Len(stack) :
    /\ stack[i].sizes \subseteq {stack[i].bump}
    /\ stack[i].ctx \in built
    /\ stack[i].held = stack[i].bump

\* Everything that holds of a session, and what it takes to prove it.
SessionInv == TypeOK /\ MirrorsTrue /\ FramesTrue /\ NumbersAtOneSize
=============================================================================
