-------------------------------- MODULE Excel --------------------------------
(***************************************************************************)
(* The Excel add-in: worksheet calls, recalculated side by side.  Each     *)
(* reads its cells, opens a session (a context and a bond of its own) in   *)
(* the library, asks it for numbers, puts them into a result on the heap,  *)
(* closes the session and hands the result to Excel, which copies it and   *)
(* gives it back to be freed.  Calls share the allocator table and nothing *)
(* else.                                                                   *)
(*                                                                         *)
(* A bond is known by the date it is valued at, a number by its bond and   *)
(* by the library functions it was put together from.                      *)
(***************************************************************************)
EXTENDS Heap, Marshal, Sequences

CONSTANTS
  Calls,      \* the worksheet calls that may be under way at once
  Dates,      \* valuation dates
  Requests,   \* what each call may be asked: see RequestType
  Nothing     \* no bond, no value

\* A worksheet function, the cells of its arguments, and the date that the
\* valuation cell stands for, if it can be read.
Measures  == {"price", "yield", "accrued", "dirty", "macaulay", "modified",
              "convexity", "dv01"}
Functions == Measures \cup {"cashflows", "risk", "version"}
RequestType == [call : Calls, function : Functions,
                cells : [Arguments -> Cells], date : Dates]

ASSUME CallsAssumption ==
  /\ Owners = Calls \cup {Host} /\ Host \notin Calls
  /\ Kinds = {"result", "payload", "context", "scratch", "bond", "periods",
              "flows", Buffer}
ASSUME RequestsAssumption == Requests \subseteq RequestType

\* The library functions a worksheet function calls, in order.
Plan(f) ==
  IF f = "dirty" THEN <<"price", "accrued">>
  ELSE IF f = "cashflows" THEN <<"count", "flows">>
  ELSE IF f = "risk"
    THEN <<"price", "accrued", "macaulay", "modified", "convexity", "dv01">>
  ELSE IF f = "version" THEN <<>>
  ELSE <<f>>

\* The arguments it reads; a null one is missing.
Uses(f) == IF f = "version" THEN {}
           ELSE IF f \in {"accrued", "cashflows"}
             THEN Arguments \ {"rate", "compounding"}
           ELSE Arguments

\* Arrays and texts go into a block of their own.
NeedsBlock(f) == f \notin Measures

Places == {"idle", "open", "date", "make", "build", "ask", "write", "close",
           "return", "shown"}

VARIABLES
  pc,        \* where each call is: the next thing it does
  function,  \* its worksheet function
  args,      \* BondArgs and the rest of what it has read
  context,   \* what ctx_ points to: its valuation date and last status
  bond,      \* bond_
  done,      \* the library functions that have answered
  result,    \* what is in its result; Nothing if that could not be allocated
  cell,      \* what Excel has read
  refusal    \* history: what the first failure of the call was; "OK" if none

callVars == <<pc, function, args, context, bond, done, result, cell, refusal>>
vars     == <<heapVars, callVars>>

\* The arguments read: the date, and those the library is to refuse.
NoArgs == [date |-> 0, doubtful |-> {}]

NoContext  == [date |-> 0, last |-> "none"]
NewContext == [date |-> 0, last |-> "OK"]

\* What a result may hold, and a cell show.
Empty      == [type |-> "nil"]
Error(e)   == [type |-> "error", error |-> e]
Value(b, calls) == [type |-> "value", bond |-> b, calls |-> calls]

Bonds    == {[date |-> d] : d \in Dates}
Contents == {Empty} \cup {Error(XlError(s)) : s \in Statuses}
            \cup {Value(b, Plan(f)) : b \in Bonds \cup {Nothing}, f \in Functions}

ASSUME NothingAssumption == Nothing \notin Bonds \cup Contents

------------------------------------------------------------------------------
\* Mutant of ContextOf: one context serves all calls.
ContextShared(k) == CHOOSE c \in Calls : TRUE

\* The session's own context: nothing here is shared.
ContextOf(k) == k

Of(k, kinds) == {<<k, w>> : w \in kinds}
Goto(k, place) == pc' = [pc EXCEPT ![k] = place]

\* Result's setters do nothing to a result that could not be allocated.
Put(k, value) ==
  result' = IF result[k] = Nothing THEN result ELSE [result EXCEPT ![k] = value]

\* An early return with an error in the cell.
Fail(k, status, place) ==
  /\ Goto(k, place)
  /\ Put(k, Error(XlError(status)))
  /\ refusal' = [refusal EXCEPT ![k] = status]

------------------------------------------------------------------------------
(* Reading the arguments.                                                   *)

ReadAs(r, reading) ==
  {a \in Uses(r.function) : Reading(a, r.cells[a]) = reading}

\* The call begins: its Result is allocated or not, its arguments are read.
\* An argument that cannot be read ends it with #VALUE!, as BAD_ARG does.
Begin(r) ==
  LET k == r.call
  IN  /\ pc[k] = "idle"
      /\ function' = [function EXCEPT ![k] = r.function]
      /\ args' = [args EXCEPT ![k] =
           [date |-> r.date, doubtful |-> ReadAs(r, "doubtful")]]
      /\ LET failed  == ReadAs(r, "error") # {}
             content == IF failed THEN Error(XlError("BAD_ARG")) ELSE Empty
         IN  /\ Goto(k, IF failed THEN "return"
                        ELSE IF r.function = "version" THEN "write" ELSE "open")
             /\ refusal' = [refusal EXCEPT ![k] = IF failed THEN "BAD_ARG" ELSE "OK"]
             /\ \/ /\ CrtAllocate(Of(k, {"result"}))
                   /\ result' = [result EXCEPT ![k] = content]
                \/ UNCHANGED <<heapVars, result>>
      /\ UNCHANGED <<context, bond, done, cell>>

------------------------------------------------------------------------------
(* The session.                                                             *)

OpenContext(k) ==
  /\ pc[k] = "open"
  /\ Allocate(Of(k, {"context"}))
  /\ context' = [context EXCEPT ![ContextOf(k)] = NewContext]
  /\ Goto(k, "date")
  /\ UNCHANGED <<function, args, bond, done, result, cell, refusal>>

\* fir_context_set_valuation_date refuses digits that name no day.
SetDate(k) ==
  /\ pc[k] = "date"
  /\ \/ /\ "valuation" \notin args[k].doubtful
        /\ context' = [context EXCEPT ![ContextOf(k)] =
                         [date |-> args[k].date, last |-> "OK"]]
        /\ Goto(k, "make")
        /\ UNCHANGED <<result, refusal>>
     \/ /\ "valuation" \in args[k].doubtful
        /\ context' = [context EXCEPT ![ContextOf(k)].last = "BAD_DATE"]
        /\ Fail(k, "BAD_DATE", "close")
  /\ UNCHANGED <<heapVars, function, args, bond, done, cell>>

\* fir_bond_new: the error is cleared and the object allocated.
MakeBond(k) ==
  /\ pc[k] = "make"
  /\ Allocate(Of(k, {"bond"}))
  /\ context' = [context EXCEPT ![ContextOf(k)].last = "OK"]
  /\ Goto(k, "build")
  /\ UNCHANGED <<function, args, bond, done, result, cell, refusal>>

\* What Bond::build may answer.  A day count nobody knows goes unnoticed in a
\* bond without coupons.
BuildStatuses(k) ==
  IF context[ContextOf(k)].date = 0 THEN {"BAD_DATE"}
  ELSE IF args[k].doubtful \ {"valuation", "rate", "daycount"} # {}
    THEN {"BAD_DATE", "BAD_ARG"}
  ELSE {"OK", "BAD_SCHEDULE"}
       \cup IF "daycount" \in args[k].doubtful THEN {"UNSUPPORTED"} ELSE {}

\* It builds the periods and flows, and makes room in the context.
BondBuilt(k) ==
  /\ pc[k] = "build"
  /\ "OK" \in BuildStatuses(k)
  /\ Allocate(Of(k, {"periods", "flows", "scratch"}))
  /\ bond' = [bond EXCEPT ![k] = [date |-> context[ContextOf(k)].date]]
  /\ Goto(k, "ask")
  /\ UNCHANGED <<function, args, context, done, result, cell, refusal>>

\* Or it fails: whatever it has allocated goes with the object, and the status
\* is only to be had from the context.
BondRefused(k) ==
  /\ pc[k] = "build"
  /\ \E status \in BuildStatuses(k) \ {"OK"} :
       /\ context' = [context EXCEPT ![ContextOf(k)].last = status]
       /\ Fail(k, context'[ContextOf(k)].last, "close")
  /\ Release(Of(k, {"bond"}))
  /\ UNCHANGED <<function, args, bond, done, cell>>

------------------------------------------------------------------------------
(* The numbers.                                                             *)

NextCall(k) == Plan(function[k])[Len(done[k]) + 1]

\* What a library function may answer; "rate" is the yield, or the price.
Refusals(call) ==
  IF call \in {"count", "flows"} THEN {}
  ELSE IF call = "accrued" THEN {"BAD_SCHEDULE"}
  ELSE IF call = "yield" THEN {"NO_CONVERGENCE", "BAD_SCHEDULE"}
  ELSE IF call = "price" THEN {"BAD_ARG", "BAD_SCHEDULE"}
  ELSE {"BAD_ARG"}

Answered(k) ==
  /\ pc[k] = "ask"
  /\ "rate" \notin args[k].doubtful
  /\ done' = [done EXCEPT ![k] = Append(@, NextCall(k))]
  /\ Goto(k, IF done'[k] = Plan(function[k]) THEN "write" ELSE "ask")
  /\ UNCHANGED <<heapVars, function, args, context, bond, result, cell, refusal>>

NotAnswered(k) ==
  /\ pc[k] = "ask"
  /\ \E status \in Refusals(NextCall(k)) : Fail(k, status, "close")
  /\ UNCHANGED <<heapVars, function, args, context, bond, done, cell>>

\* The setters of Result: a number goes into the result itself; an array or a
\* text into a block, and if there is none to be had, the cell gets an error.
Write(k) ==
  /\ pc[k] = "write"
  /\ \/ /\ Goto(k, "close")
        /\ Put(k, Value(bond[k], done[k]))
        /\ IF NeedsBlock(function[k]) /\ result[k] # Nothing
             THEN CrtAllocate(Of(k, {"payload"})) ELSE UNCHANGED heapVars
        /\ UNCHANGED refusal
     \/ /\ NeedsBlock(function[k]) /\ result[k] # Nothing
        /\ Fail(k, "ALLOC", "close")
        /\ UNCHANGED heapVars
  /\ UNCHANGED <<function, args, context, bond, done, cell>>

------------------------------------------------------------------------------
(* The way out.                                                             *)

\* What the destructor frees: each handle it holds, with what hangs on it.
SessionBlocks(k) ==
  (IF context[ContextOf(k)] = NoContext THEN {} ELSE {"context"})
  \cup (IF bond[k] = Nothing THEN {} ELSE {"bond", "periods", "flows", "scratch"})

\* Mutant of Close: the bond is left to the context.
CloseContextOnly(k) ==
  /\ pc[k] = "close"
  /\ Release(Of(k, SessionBlocks(k) \cap {"context", "scratch"}))
  /\ context' = [context EXCEPT ![ContextOf(k)] = NoContext]
  /\ bond' = [bond EXCEPT ![k] = Nothing]
  /\ Goto(k, "return")
  /\ UNCHANGED <<function, args, done, result, cell, refusal>>

\* ~Session, on every return after it was opened.
Close(k) ==
  /\ pc[k] = "close"
  /\ Release(Of(k, SessionBlocks(k)))
  /\ context' = [context EXCEPT ![ContextOf(k)] = NoContext]
  /\ bond' = [bond EXCEPT ![k] = Nothing]
  /\ Goto(k, "return")
  /\ UNCHANGED <<function, args, done, result, cell, refusal>>

\* Excel has the pointer and copies what it finds there.
ExcelReads(k) ==
  /\ pc[k] = "return"
  /\ cell' = [cell EXCEPT ![k] = result[k]]
  /\ Goto(k, "shown")
  /\ UNCHANGED <<heapVars, function, args, context, bond, done, result, refusal>>

\* What free_result frees, judging by the result's type.
Payload(k) == IF result[k].type = "value" /\ NeedsBlock(function[k])
                THEN {"payload"} ELSE {}

\* xlAutoFree12, or nothing for a null pointer.  The call is over.
AutoFree(k) ==
  /\ pc[k] = "shown"
  /\ IF result[k] = Nothing THEN UNCHANGED heapVars
     ELSE CrtRelease(Of(k, {"result"} \cup Payload(k)))
  /\ result' = [result EXCEPT ![k] = Nothing]
  /\ args' = [args EXCEPT ![k] = NoArgs]
  /\ done' = [done EXCEPT ![k] = <<>>]
  /\ cell' = [cell EXCEPT ![k] = Nothing]
  /\ function' = [function EXCEPT ![k] = "version"]
  /\ refusal' = [refusal EXCEPT ![k] = "OK"]
  /\ Goto(k, "idle")
  /\ UNCHANGED <<context, bond>>

------------------------------------------------------------------------------
Init ==
  /\ HeapInit
  /\ pc = [k \in Calls |-> "idle"]
  /\ function = [k \in Calls |-> "version"]
  /\ args = [k \in Calls |-> NoArgs]
  /\ context = [k \in Calls |-> NoContext]
  /\ bond = [k \in Calls |-> Nothing]
  /\ done = [k \in Calls |-> <<>>]
  /\ result = [k \in Calls |-> Nothing]
  /\ cell = [k \in Calls |-> Nothing]
  /\ refusal = [k \in Calls |-> "OK"]

Step(k) ==
  \/ OpenContext(k)
  \/ SetDate(k)
  \/ MakeBond(k)
  \/ BondBuilt(k)
  \/ BondRefused(k)
  \/ Answered(k)
  \/ NotAnswered(k)
  \/ Write(k)
  \/ Close(k)
  \/ ExcelReads(k)
  \/ AutoFree(k)

Next ==
  \/ \E r \in Requests : Begin(r)
  \/ \E k \in Calls : Step(k)
  \/ HostStep /\ UNCHANGED callVars

Spec == Init /\ [][Next]_vars

------------------------------------------------------------------------------
(* Correctness.                                                             *)

\* The blocks a call holds on the heap.
Owned(k) == {w \in Kinds : heap[<<k, w>>] # Dead}

\* The blocks its pointers lead to, wherever it is.
Reachable(k) ==
  (IF result[k] = Nothing THEN {} ELSE {"result"} \cup Payload(k))
  \cup SessionBlocks(k)
  \cup (IF pc[k] = "build" THEN {"bond"} ELSE {})

\* "RAII over the two handles, so every early return releases them", and "the
\* other half of the Result contract": what a call has allocated and somebody
\* still points to is live, and nothing else is.  A call that is over has
\* nothing left on the heap, whichever way it went.
NothingLeaks ==
  /\ \A k \in Calls : Owned(k) = Reachable(k)
  /\ \A k \in Calls : pc[k] = "idle" => Reachable(k) = {}

\* A cell shows what its own call came to, whatever is recalculated beside it:
\* the answers of all the library functions it needs, in order, about a bond valued
\* at the date of its own arguments; or the error of the failure that ended it.
\* "#NULL!", which is what success would translate to, is never shown.
CellShowsItsOwn ==
  \A k \in Calls :
    pc[k] = "shown" /\ cell[k] # Nothing =>
      \/ /\ refusal[k] = "OK"
         /\ cell[k].type = "value"
         /\ cell[k].calls = Plan(function[k])
         /\ function[k] # "version" => cell[k].bond = [date |-> args[k].date]
      \/ /\ refusal[k] # "OK"
         /\ cell[k] = Error(XlError(refusal[k]))
         /\ cell[k].error # "#NULL!"
=============================================================================
