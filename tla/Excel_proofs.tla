----------------------------- MODULE Excel_proofs -----------------------------
(***************************************************************************)
(* The add-in's calls, proved for any number of them: whatever the host    *)
(* installs first, whatever fails and in whatever order the calls run,     *)
(* every block goes back once to the functions that made it, no call       *)
(* leaves one behind, and each cell shows what its own call came to.       *)
(***************************************************************************)
EXTENDS Excel, SequenceTheorems, TLAPS

\* The blocks that the C runtime is asked for directly; all others come
\* through the table.
CrtKinds == {"result", "payload"}

TypeInv ==
  /\ table \in [Entries -> Families]
  /\ heap \in [Blocks -> Families \cup {Dead}]
  /\ pc \in [Calls -> Places]
  /\ function \in [Calls -> Functions]
  /\ args \in [Calls -> [date : Dates \cup {0}, doubtful : SUBSET Arguments]]
  /\ context \in [Calls -> [date : Dates \cup {0}, last : Statuses \cup {"none"}]]
  /\ bond \in [Calls -> Bonds \cup {Nothing}]
  /\ done = [k \in Calls |-> done[k]]
  /\ result \in [Calls -> Contents \cup {Nothing}]
  /\ cell = [k \in Calls |-> cell[k]]
  /\ refusal \in [Calls -> Statuses]

\* The table is never a mixture, and is settled once something came from it;
\* so a live block is always the free function's own.
HeapInv ==
  /\ table["malloc"] = table["free"] /\ table["realloc"] = table["free"]
  /\ \A o \in Owners, w \in Kinds :
       heap[<<o, w>>] # Dead =>
         IF w \in CrtKinds THEN heap[<<o, w>>] = Crt
         ELSE settled /\ heap[<<o, w>>] = table["free"]
  /\ FreedByMaker

\* What a call came to, as it stands in its result.
Outcome(k, x) ==
  x # Nothing =>
    \/ /\ refusal[k] = "OK"
       /\ \E b \in Bonds \cup {Nothing} :
            /\ x = Value(b, Plan(function[k]))
            /\ function[k] # "version" => b = [date |-> args[k].date]
    \/ /\ refusal[k] # "OK"
       /\ x = Error(XlError(refusal[k]))

CallInv(k) ==
  /\ pc[k] = "idle" => result[k] = Nothing /\ done[k] = <<>>
  /\ pc[k] \in {"idle", "open", "return", "shown"} => context[k] = NoContext
  /\ pc[k] \in {"date", "make", "build", "ask"} => context[k] # NoContext
  /\ pc[k] \in {"idle", "open", "date", "make", "build", "return", "shown"} =>
       bond[k] = Nothing
  /\ pc[k] \in {"open", "date", "make", "build"} => done[k] = <<>>
  /\ pc[k] \in {"open", "date", "make", "build", "ask", "write"} =>
       /\ refusal[k] = "OK"
       /\ result[k] \in {Empty, Nothing}
  /\ pc[k] \in {"open", "date", "make", "build", "ask"} => function[k] # "version"
  /\ pc[k] \in {"make", "build"} => context[k].date = args[k].date
  /\ pc[k] = "ask" => bond[k] = [date |-> args[k].date]
  /\ pc[k] = "write" => /\ done[k] = Plan(function[k])
                        /\ function[k] # "version" => bond[k] = [date |-> args[k].date]
  /\ pc[k] \in {"close", "return", "shown"} => Outcome(k, result[k])
  /\ pc[k] = "shown" => cell[k] = result[k]

IInv == TypeInv /\ HeapInv /\ NothingLeaks /\ \A k \in Calls : CallInv(k)

------------------------------------------------------------------------------
(* The heap.                                                                *)

\* Blocks of one call that the table is asked for: the others' stay as they are.
LEMMA AllocateKeeps ==
  ASSUME TypeInv, HeapInv, NEW k \in Calls, NEW ws \in SUBSET (Kinds \ CrtKinds),
         Allocate(Of(k, ws))
  PROVE  /\ heap' \in [Blocks -> Families \cup {Dead}] /\ table' = table
         /\ HeapInv'
         /\ Owned(k)' = Owned(k) \cup ws
         /\ \A j \in Calls \ {k} : Owned(j)' = Owned(j)
<1>1. table["malloc"] \in Families /\ table["malloc"] # Dead
  BY FamiliesAssumption DEF TypeInv, Entries
<1>2. \A o \in Owners, w \in Kinds : <<o, w>> \in Blocks
  BY DEF Blocks
<1>3. \A o \in Owners, w \in Kinds :
        heap'[<<o, w>>] = IF o = k /\ w \in ws THEN table["malloc"] ELSE heap[<<o, w>>]
  BY <1>2 DEF Allocate, Made, Of
<1>4. heap' \in [Blocks -> Families \cup {Dead}] /\ table' = table
  BY <1>1 DEF Allocate, Made, TypeInv
<1>5. HeapInv'
  BY <1>1, <1>3, <1>4 DEF HeapInv, Allocate, FreedByMaker
<1>6. k \in Owners /\ Calls \subseteq Owners
  BY CallsAssumption
<1> QED
  BY <1>1, <1>3, <1>4, <1>5, <1>6 DEF Owned

LEMMA ReleaseKeeps ==
  ASSUME TypeInv, HeapInv, NEW k \in Calls,
         NEW ws \in SUBSET (Owned(k) \ CrtKinds), Release(Of(k, ws))
  PROVE  /\ heap' \in [Blocks -> Families \cup {Dead}] /\ table' = table
         /\ HeapInv'
         /\ Owned(k)' = Owned(k) \ ws
         /\ \A j \in Calls \ {k} : Owned(j)' = Owned(j)
<1>1. k \in Owners /\ Calls \subseteq Owners /\ Owned(k) \subseteq Kinds
  BY CallsAssumption DEF Owned
<1>2. \A o \in Owners, w \in Kinds : <<o, w>> \in Blocks
  BY DEF Blocks
<1>3. \A o \in Owners, w \in Kinds :
        heap'[<<o, w>>] = IF o = k /\ w \in ws THEN Dead ELSE heap[<<o, w>>]
  BY <1>2 DEF Release, Freed, Of
<1>4. heap' \in [Blocks -> Families \cup {Dead}] /\ table' = table
  BY DEF Release, Freed, TypeInv
<1>5. \A x \in Of(k, ws) : heap[x] = table["free"]
  BY <1>1 DEF HeapInv, Of, Owned
<1>6. misfreed' = misfreed /\ settled' = settled
  BY <1>5 DEF Release, Freed
<1>7. HeapInv'
  BY <1>3, <1>4, <1>6 DEF HeapInv, FreedByMaker
<1> QED
  BY <1>1, <1>3, <1>4, <1>7 DEF Owned

LEMMA CrtAllocateKeeps ==
  ASSUME TypeInv, HeapInv, NEW k \in Calls, NEW ws \in SUBSET CrtKinds,
         CrtAllocate(Of(k, ws))
  PROVE  /\ heap' \in [Blocks -> Families \cup {Dead}] /\ table' = table
         /\ HeapInv'
         /\ Owned(k)' = Owned(k) \cup ws
         /\ \A j \in Calls \ {k} : Owned(j)' = Owned(j)
<1>1. Crt \in Families /\ Crt # Dead
  BY FamiliesAssumption
<1>2. k \in Owners /\ Calls \subseteq Owners /\ ws \subseteq Kinds
  BY CallsAssumption DEF CrtKinds
<1>3. \A o \in Owners, w \in Kinds : <<o, w>> \in Blocks
  BY DEF Blocks
<1>4. \A o \in Owners, w \in Kinds :
        heap'[<<o, w>>] = IF o = k /\ w \in ws THEN Crt ELSE heap[<<o, w>>]
  BY <1>3 DEF CrtAllocate, Made, Of
<1>5. heap' \in [Blocks -> Families \cup {Dead}] /\ table' = table
  BY <1>1 DEF CrtAllocate, Made, TypeInv
<1>6. HeapInv'
  BY <1>4, <1>5 DEF HeapInv, CrtAllocate, FreedByMaker
<1> QED
  BY <1>1, <1>2, <1>4, <1>5, <1>6 DEF Owned

LEMMA CrtReleaseKeeps ==
  ASSUME TypeInv, HeapInv, NEW k \in Calls,
         NEW ws \in SUBSET (Owned(k) \cap CrtKinds), CrtRelease(Of(k, ws))
  PROVE  /\ heap' \in [Blocks -> Families \cup {Dead}] /\ table' = table
         /\ HeapInv'
         /\ Owned(k)' = Owned(k) \ ws
         /\ \A j \in Calls \ {k} : Owned(j)' = Owned(j)
<1>1. k \in Owners /\ Calls \subseteq Owners /\ Owned(k) \subseteq Kinds
  BY CallsAssumption DEF Owned
<1>2. \A o \in Owners, w \in Kinds : <<o, w>> \in Blocks
  BY DEF Blocks
<1>3. \A o \in Owners, w \in Kinds :
        heap'[<<o, w>>] = IF o = k /\ w \in ws THEN Dead ELSE heap[<<o, w>>]
  BY <1>2 DEF CrtRelease, Freed, Of
<1>4. heap' \in [Blocks -> Families \cup {Dead}] /\ table' = table
  BY DEF CrtRelease, Freed, TypeInv
<1>5. \A x \in Of(k, ws) : heap[x] = Crt
  BY <1>1 DEF HeapInv, Of, Owned
<1>6. misfreed' = misfreed /\ settled' = settled
  BY <1>5 DEF CrtRelease, Freed
<1>7. HeapInv'
  BY <1>3, <1>4, <1>6 DEF HeapInv, FreedByMaker
<1> QED
  BY <1>1, <1>3, <1>4, <1>7 DEF Owned

LEMMA HeapStays ==
  ASSUME TypeInv, HeapInv, UNCHANGED heapVars
  PROVE  /\ heap' \in [Blocks -> Families \cup {Dead}] /\ table' = table
         /\ HeapInv'
         /\ \A j \in Calls : Owned(j)' = Owned(j)
BY DEF TypeInv, HeapInv, FreedByMaker, Owned, heapVars

------------------------------------------------------------------------------
(* One call's step leaves the other calls alone.                            *)

OthersStay(k) ==
  \A j \in Calls \ {k} :
    /\ pc'[j] = pc[j] /\ function'[j] = function[j] /\ args'[j] = args[j]
    /\ context'[j] = context[j] /\ bond'[j] = bond[j] /\ done'[j] = done[j]
    /\ result'[j] = result[j] /\ cell'[j] = cell[j] /\ refusal'[j] = refusal[j]

LEMMA OthersKeep ==
  ASSUME IInv, NEW k \in Calls, OthersStay(k), NEW j \in Calls \ {k}
  PROVE  Reachable(j)' = Reachable(j) /\ CallInv(j)'
<1> USE DEF OthersStay
<1>1. Reachable(j)' = Reachable(j)
  BY DEF Reachable, Payload, SessionBlocks, ContextOf
<1>2. CallInv(j)'
  BY DEF IInv, CallInv, Outcome
<1> QED  BY <1>1, <1>2

LEMMA StepKeeps ==
  ASSUME IInv, NEW k \in Calls, OthersStay(k), TypeInv', HeapInv', CallInv(k)',
         \A j \in Calls \ {k} : Owned(j)' = Owned(j),
         Owned(k)' = Reachable(k)', pc'[k] = "idle" => Reachable(k)' = {}
  PROVE  IInv'
<1>1. \A j \in Calls \ {k} : Reachable(j)' = Reachable(j) /\ CallInv(j)'
  BY OthersKeep
<1>2. \A j \in Calls : CallInv(j)'
  BY <1>1
<1>3. \A j \in Calls \ {k} : Owned(j)' = Reachable(j)'
  BY <1>1 DEF IInv, NothingLeaks
<1>4. \A j \in Calls \ {k} : pc'[j] = "idle" => Reachable(j)' = {}
  BY <1>1 DEF IInv, NothingLeaks, OthersStay
<1> QED
  BY <1>2, <1>3, <1>4 DEF IInv, NothingLeaks

\* What a result holds is never nothing at all.
LEMMA ContentsExist ==
  /\ Nothing \notin Bonds /\ Nothing \notin Contents
  /\ Empty \in Contents
  /\ \A s \in Statuses : Error(XlError(s)) \in Contents
  /\ \A b \in Bonds \cup {Nothing}, f \in Functions : Value(b, Plan(f)) \in Contents
  /\ \A d \in Dates : [date |-> d] \in Bonds
BY NothingAssumption DEF Contents, Bonds

\* The two updates most steps make: a status recorded in the call's context,
\* and an error put into its result.
LEMMA RecordedInContext ==
  ASSUME TypeInv, NEW k \in Calls, NEW s \in Statuses,
         context' = [context EXCEPT ![k].last = s]
  PROVE  /\ context' \in [Calls -> [date : Dates \cup {0}, last : Statuses \cup {"none"}]]
         /\ context'[k].date = context[k].date /\ context'[k] # NoContext
         /\ \A j \in Calls \ {k} : context'[j] = context[j]
<1>1. context'[k] = [date |-> context[k].date, last |-> s]
  BY DEF TypeInv
<1>2. "none" \notin Statuses
  BY DEF Statuses
<1> QED
  BY <1>1, <1>2 DEF TypeInv, NoContext

LEMMA FailShows ==
  ASSUME TypeInv, NEW k \in Calls, NEW s \in Statuses \ {"OK"}, NEW p \in Places,
         Fail(k, s, p)
  PROVE  /\ pc' \in [Calls -> Places] /\ pc'[k] = p
         /\ result' \in [Calls -> Contents \cup {Nothing}]
         /\ result'[k] = IF result[k] = Nothing THEN Nothing ELSE Error(XlError(s))
         /\ refusal' \in [Calls -> Statuses] /\ refusal'[k] = s
         /\ Outcome(k, result[k])'
         /\ result'[k] # Nothing => result'[k].type # "value"
         /\ \A j \in Calls \ {k} : /\ pc'[j] = pc[j] /\ result'[j] = result[j]
                                   /\ refusal'[j] = refusal[j]
<1>1. /\ pc' \in [Calls -> Places] /\ pc'[k] = p
      /\ refusal' \in [Calls -> Statuses] /\ refusal'[k] = s
      /\ \A j \in Calls \ {k} : pc'[j] = pc[j] /\ refusal'[j] = refusal[j]
  BY DEF Fail, Goto, TypeInv
<1>2. Error(XlError(s)) \in Contents /\ Error(XlError(s)).type = "error"
  BY ContentsExist DEF Error
<1>3. /\ result' \in [Calls -> Contents \cup {Nothing}]
      /\ result'[k] = IF result[k] = Nothing THEN Nothing ELSE Error(XlError(s))
      /\ \A j \in Calls \ {k} : result'[j] = result[j]
  BY <1>2 DEF Fail, Put, TypeInv
<1> QED
  BY <1>1, <1>2, <1>3 DEF Outcome

\* An empty result has no block of its own.
LEMMA EmptyIsEmpty == Empty.type # "value" /\ NoContext.date = 0
BY DEF Empty, NoContext

LEMMA OpenContextKeeps ==
  ASSUME IInv, NEW k \in Calls, OpenContext(k)  PROVE IInv'
<1> USE DEF IInv, OpenContext, Goto, ContextOf
<1>1. /\ heap' \in [Blocks -> Families \cup {Dead}] /\ table' = table
      /\ HeapInv'
      /\ Owned(k)' = Owned(k) \cup {"context"}
      /\ \A j \in Calls \ {k} : Owned(j)' = Owned(j)
  BY CallsAssumption, AllocateKeeps DEF CrtKinds
<1>2. TypeInv'
  BY <1>1 DEF TypeInv, Places, Statuses, NewContext
<1>3. OthersStay(k)
  BY DEF TypeInv, OthersStay
<1>4. CallInv(k)'
  BY DEF TypeInv, CallInv, NewContext, NoContext
<1>5. Owned(k)' = Reachable(k)'
  BY <1>1 DEF TypeInv, NothingLeaks, CallInv, Reachable, Payload, SessionBlocks,
              NewContext, NoContext
<1> QED
  BY <1>1, <1>2, <1>3, <1>4, <1>5, StepKeeps DEF TypeInv

LEMMA SetDateKeeps ==
  ASSUME IInv, NEW k \in Calls, SetDate(k)  PROVE IInv'
<1> USE DEF IInv, ContextOf
<1>1. /\ heap' \in [Blocks -> Families \cup {Dead}] /\ table' = table
      /\ HeapInv'
      /\ Owned(k)' = Owned(k)
      /\ \A j \in Calls \ {k} : Owned(j)' = Owned(j)
  BY HeapStays DEF SetDate
<1>2. CASE "valuation" \notin args[k].doubtful
  <2>1. context' = [context EXCEPT ![k] = [date |-> args[k].date, last |-> "OK"]]
    BY <1>2 DEF SetDate
  <2>2. /\ context' \in [Calls -> [date : Dates \cup {0}, last : Statuses \cup {"none"}]]
        /\ context'[k] = [date |-> args[k].date, last |-> "OK"]
        /\ \A j \in Calls \ {k} : context'[j] = context[j]
    BY <2>1 DEF TypeInv, Statuses
  <2>3. /\ pc[k] = "date" /\ pc' = [pc EXCEPT ![k] = "make"]
        /\ UNCHANGED <<function, args, bond, done, result, cell, refusal>>
    BY <1>2 DEF SetDate, Goto
  <2>6. TypeInv'
    BY <1>1, <1>2, <2>2, <2>3, ContentsExist DEF TypeInv, Places, Statuses
  <2>7. OthersStay(k)
    BY <1>1, <1>2, <2>2, <2>3 DEF TypeInv, OthersStay
  <2>8. CallInv(k)'
    BY <1>1, <1>2, <2>2, <2>3, EmptyIsEmpty, ContentsExist DEF TypeInv, CallInv, NoContext
  <2>9. Owned(k)' = Reachable(k)' /\ (pc'[k] = "idle" => Reachable(k)' = {})
    BY <1>1, <1>2, <2>2, <2>3, EmptyIsEmpty, ContentsExist
    DEF TypeInv, NothingLeaks, CallInv, Reachable, Payload, SessionBlocks, NoContext
  <2> QED
    BY <1>1, <2>6, <2>7, <2>8, <2>9, StepKeeps DEF TypeInv
<1>3. CASE "valuation" \in args[k].doubtful
  <2>1. Fail(k, "BAD_DATE", "close") /\ UNCHANGED <<function, args, bond, done, cell>>
    BY <1>3 DEF SetDate
  <2>2. /\ pc' \in [Calls -> Places] /\ pc'[k] = "close"
        /\ result' \in [Calls -> Contents \cup {Nothing}]
        /\ result'[k] = Nothing <=> result[k] = Nothing
        /\ refusal' \in [Calls -> Statuses] /\ Outcome(k, result[k])'
        /\ result'[k] # Nothing => result'[k].type # "value"
        /\ \A j \in Calls \ {k} : /\ pc'[j] = pc[j] /\ result'[j] = result[j]
                                  /\ refusal'[j] = refusal[j]
    BY <2>1, FailShows, ContentsExist DEF Places, Statuses
  <2>3. /\ context' \in [Calls -> [date : Dates \cup {0}, last : Statuses \cup {"none"}]]
        /\ context'[k].date = context[k].date /\ context'[k] # NoContext
        /\ \A j \in Calls \ {k} : context'[j] = context[j]
    BY <1>3, RecordedInContext DEF SetDate, Statuses
  <2>4. pc[k] = "date"
    BY DEF SetDate
  <2>6. TypeInv'
    BY <1>1, <1>3, <2>1, <2>2, <2>3, <2>4, ContentsExist DEF TypeInv, Places, Statuses
  <2>7. OthersStay(k)
    BY <1>1, <1>3, <2>1, <2>2, <2>3, <2>4 DEF TypeInv, OthersStay
  <2>8. CallInv(k)'
    BY <1>1, <1>3, <2>1, <2>2, <2>3, <2>4, EmptyIsEmpty, ContentsExist DEF TypeInv, CallInv, NoContext
  <2>9. Owned(k)' = Reachable(k)' /\ (pc'[k] = "idle" => Reachable(k)' = {})
    BY <1>1, <1>3, <2>1, <2>2, <2>3, <2>4, EmptyIsEmpty, ContentsExist
    DEF TypeInv, NothingLeaks, CallInv, Reachable, Payload, SessionBlocks, NoContext
  <2> QED
    BY <1>1, <2>6, <2>7, <2>8, <2>9, StepKeeps DEF TypeInv
<1> QED  BY <1>2, <1>3 DEF SetDate

LEMMA MakeBondKeeps ==
  ASSUME IInv, NEW k \in Calls, MakeBond(k)  PROVE IInv'
<1> USE DEF IInv, ContextOf
<1>1. /\ heap' \in [Blocks -> Families \cup {Dead}] /\ table' = table
      /\ HeapInv'
      /\ Owned(k)' = Owned(k) \cup {"bond"}
      /\ \A j \in Calls \ {k} : Owned(j)' = Owned(j)
  BY CallsAssumption, AllocateKeeps DEF CrtKinds, MakeBond
<1>2. /\ context' \in [Calls -> [date : Dates \cup {0}, last : Statuses \cup {"none"}]]
      /\ context'[k].date = context[k].date /\ context'[k] # NoContext
      /\ \A j \in Calls \ {k} : context'[j] = context[j]
  BY RecordedInContext DEF MakeBond, Statuses
<1>3. /\ pc[k] = "make" /\ pc' = [pc EXCEPT ![k] = "build"]
      /\ UNCHANGED <<function, args, bond, done, result, cell, refusal>>
  BY DEF MakeBond, Goto
<1>6. TypeInv'
  BY <1>1, <1>2, <1>3, ContentsExist DEF TypeInv, Places, Statuses
<1>7. OthersStay(k)
  BY <1>1, <1>2, <1>3 DEF TypeInv, OthersStay
<1>8. CallInv(k)'
  BY <1>1, <1>2, <1>3, EmptyIsEmpty, ContentsExist DEF TypeInv, CallInv, NoContext
<1>9. Owned(k)' = Reachable(k)' /\ (pc'[k] = "idle" => Reachable(k)' = {})
  BY <1>1, <1>2, <1>3, EmptyIsEmpty, ContentsExist
  DEF TypeInv, NothingLeaks, CallInv, Reachable, Payload, SessionBlocks, NoContext
<1> QED
  BY <1>1, <1>6, <1>7, <1>8, <1>9, StepKeeps DEF TypeInv

LEMMA BondBuiltKeeps ==
  ASSUME IInv, NEW k \in Calls, BondBuilt(k)  PROVE IInv'
<1> USE DEF IInv, ContextOf
<1>1. /\ heap' \in [Blocks -> Families \cup {Dead}] /\ table' = table
      /\ HeapInv'
      /\ Owned(k)' = Owned(k) \cup {"periods", "flows", "scratch"}
      /\ \A j \in Calls \ {k} : Owned(j)' = Owned(j)
  BY CallsAssumption, AllocateKeeps DEF CrtKinds, BondBuilt
<1>2. context[k].date \in Dates
  BY DEF TypeInv, BondBuilt, BuildStatuses
<1>3. /\ pc[k] = "build" /\ pc' = [pc EXCEPT ![k] = "ask"]
      /\ bond' = [bond EXCEPT ![k] = [date |-> context[k].date]]
      /\ UNCHANGED <<function, args, context, done, result, cell, refusal>>
  BY DEF BondBuilt, Goto
<1>6. TypeInv'
  BY <1>1, <1>2, <1>3, ContentsExist DEF TypeInv, Places, Statuses
<1>7. OthersStay(k)
  BY <1>1, <1>2, <1>3 DEF TypeInv, OthersStay
<1>8. CallInv(k)'
  BY <1>1, <1>2, <1>3, EmptyIsEmpty, ContentsExist DEF TypeInv, CallInv, NoContext
<1>9. Owned(k)' = Reachable(k)' /\ (pc'[k] = "idle" => Reachable(k)' = {})
  BY <1>1, <1>2, <1>3, EmptyIsEmpty, ContentsExist
  DEF TypeInv, NothingLeaks, CallInv, Reachable, Payload, SessionBlocks, NoContext
<1> QED
  BY <1>1, <1>6, <1>7, <1>8, <1>9, StepKeeps DEF TypeInv

LEMMA BondRefusedKeeps ==
  ASSUME IInv, NEW k \in Calls, BondRefused(k)  PROVE IInv'
<1> USE DEF IInv, ContextOf
<1>0. "bond" \in Owned(k)
  BY DEF BondRefused, NothingLeaks, Reachable
<1>1. /\ heap' \in [Blocks -> Families \cup {Dead}] /\ table' = table
      /\ HeapInv'
      /\ Owned(k)' = Owned(k) \ {"bond"}
      /\ \A j \in Calls \ {k} : Owned(j)' = Owned(j)
  BY <1>0, ReleaseKeeps DEF CrtKinds, BondRefused
<1>2. PICK s \in Statuses \ {"OK"} :
        /\ context' = [context EXCEPT ![k].last = s]
        /\ Fail(k, context'[k].last, "close")
  BY DEF BondRefused, BuildStatuses, Statuses
<1>3. context'[k].last = s
  BY <1>2 DEF TypeInv
<1>4. /\ context' \in [Calls -> [date : Dates \cup {0}, last : Statuses \cup {"none"}]]
      /\ context'[k].date = context[k].date /\ context'[k] # NoContext
      /\ \A j \in Calls \ {k} : context'[j] = context[j]
  BY <1>2, RecordedInContext
<1>5. /\ pc' \in [Calls -> Places] /\ pc'[k] = "close"
      /\ result' \in [Calls -> Contents \cup {Nothing}]
      /\ result'[k] = Nothing <=> result[k] = Nothing
      /\ refusal' \in [Calls -> Statuses] /\ Outcome(k, result[k])'
      /\ result'[k] # Nothing => result'[k].type # "value"
      /\ \A j \in Calls \ {k} : /\ pc'[j] = pc[j] /\ result'[j] = result[j]
                                /\ refusal'[j] = refusal[j]
  BY <1>2, <1>3, FailShows, ContentsExist DEF Places, Statuses
<1>a. pc[k] = "build" /\ UNCHANGED <<function, args, bond, done, cell>>
  BY DEF BondRefused
<1>6. TypeInv'
  BY <1>1, <1>4, <1>5, <1>a, ContentsExist DEF TypeInv, Places, Statuses
<1>7. OthersStay(k)
  BY <1>1, <1>4, <1>5, <1>a DEF TypeInv, OthersStay
<1>8. CallInv(k)'
  BY <1>1, <1>4, <1>5, <1>a, EmptyIsEmpty, ContentsExist DEF TypeInv, CallInv, NoContext
<1>9. Owned(k)' = Reachable(k)' /\ (pc'[k] = "idle" => Reachable(k)' = {})
  BY <1>1, <1>4, <1>5, <1>a, EmptyIsEmpty, ContentsExist
  DEF TypeInv, NothingLeaks, CallInv, Reachable, Payload, SessionBlocks, NoContext
<1> QED
  BY <1>1, <1>6, <1>7, <1>8, <1>9, StepKeeps DEF TypeInv

LEMMA AnsweredKeeps ==
  ASSUME IInv, NEW k \in Calls, Answered(k)  PROVE IInv'
<1> USE DEF IInv, ContextOf
<1>1. /\ heap' \in [Blocks -> Families \cup {Dead}] /\ table' = table
      /\ HeapInv'
      /\ Owned(k)' = Owned(k)
      /\ \A j \in Calls \ {k} : Owned(j)' = Owned(j)
  BY HeapStays DEF Answered
<1>2. /\ pc[k] = "ask" /\ pc'[k] \in {"ask", "write"}
      /\ pc'[k] = "write" => done'[k] = Plan(function[k])
      /\ pc' \in [Calls -> Places] /\ done' = [j \in Calls |-> done'[j]]
      /\ \A j \in Calls \ {k} : pc'[j] = pc[j] /\ done'[j] = done[j]
  BY DEF Answered, Goto, TypeInv, Places
<1>3. UNCHANGED <<function, args, context, bond, result, cell, refusal>>
  BY DEF Answered
<1>6. TypeInv'
  BY <1>1, <1>2, <1>3, ContentsExist DEF TypeInv, Places, Statuses
<1>7. OthersStay(k)
  BY <1>1, <1>2, <1>3 DEF TypeInv, OthersStay
<1>8. CallInv(k)'
  BY <1>1, <1>2, <1>3, EmptyIsEmpty, ContentsExist DEF TypeInv, CallInv, NoContext
<1>9. Owned(k)' = Reachable(k)' /\ (pc'[k] = "idle" => Reachable(k)' = {})
  BY <1>1, <1>2, <1>3, EmptyIsEmpty, ContentsExist
  DEF TypeInv, NothingLeaks, CallInv, Reachable, Payload, SessionBlocks, NoContext
<1> QED
  BY <1>1, <1>6, <1>7, <1>8, <1>9, StepKeeps DEF TypeInv

LEMMA NotAnsweredKeeps ==
  ASSUME IInv, NEW k \in Calls, NotAnswered(k)  PROVE IInv'
<1> USE DEF IInv, ContextOf
<1>1. /\ heap' \in [Blocks -> Families \cup {Dead}] /\ table' = table
      /\ HeapInv'
      /\ Owned(k)' = Owned(k)
      /\ \A j \in Calls \ {k} : Owned(j)' = Owned(j)
  BY HeapStays DEF NotAnswered
<1>2. PICK s \in Statuses \ {"OK"} : Fail(k, s, "close")
  BY DEF NotAnswered, Refusals, Statuses
<1>3. /\ pc' \in [Calls -> Places] /\ pc'[k] = "close"
      /\ result' \in [Calls -> Contents \cup {Nothing}]
      /\ result'[k] = Nothing <=> result[k] = Nothing
      /\ refusal' \in [Calls -> Statuses] /\ Outcome(k, result[k])'
      /\ result'[k] # Nothing => result'[k].type # "value"
      /\ \A j \in Calls \ {k} : /\ pc'[j] = pc[j] /\ result'[j] = result[j]
                                /\ refusal'[j] = refusal[j]
  BY <1>2, FailShows, ContentsExist DEF Places, Statuses
<1>4. pc[k] = "ask" /\ UNCHANGED <<function, args, context, bond, done, cell>>
  BY DEF NotAnswered
<1>6. TypeInv'
  BY <1>1, <1>3, <1>4, ContentsExist DEF TypeInv, Places, Statuses
<1>7. OthersStay(k)
  BY <1>1, <1>3, <1>4 DEF TypeInv, OthersStay
<1>8. CallInv(k)'
  BY <1>1, <1>3, <1>4, EmptyIsEmpty, ContentsExist DEF TypeInv, CallInv, NoContext
<1>9. Owned(k)' = Reachable(k)' /\ (pc'[k] = "idle" => Reachable(k)' = {})
  BY <1>1, <1>3, <1>4, EmptyIsEmpty, ContentsExist
  DEF TypeInv, NothingLeaks, CallInv, Reachable, Payload, SessionBlocks, NoContext
<1> QED
  BY <1>1, <1>6, <1>7, <1>8, <1>9, StepKeeps DEF TypeInv

LEMMA WriteKeeps ==
  ASSUME IInv, NEW k \in Calls, Write(k)  PROVE IInv'
<1> USE DEF IInv, ContextOf
<1>1. /\ pc[k] = "write" /\ UNCHANGED <<function, args, context, bond, done, cell>>
      /\ done[k] = Plan(function[k])
      /\ function[k] # "version" => bond[k] = [date |-> args[k].date]
      /\ function[k] \in Functions /\ bond[k] \in Bonds \cup {Nothing}
      /\ refusal[k] = "OK" /\ result[k] \in {Empty, Nothing}
  BY DEF Write, CallInv, TypeInv
<1>2. CASE /\ Goto(k, "close") /\ Put(k, Value(bond[k], done[k]))
           /\ IF NeedsBlock(function[k]) /\ result[k] # Nothing
                THEN CrtAllocate(Of(k, {"payload"})) ELSE UNCHANGED heapVars
           /\ UNCHANGED refusal
  <2> DEFINE v  == Value(bond[k], done[k])
             ws == IF NeedsBlock(function[k]) /\ result[k] # Nothing
                     THEN {"payload"} ELSE {}
  <2>1. v \in Contents /\ v.type = "value"
    BY <1>1, ContentsExist DEF Value
  <2>2. /\ result' \in [Calls -> Contents \cup {Nothing}]
        /\ result'[k] = IF result[k] = Nothing THEN Nothing ELSE v
        /\ \A j \in Calls \ {k} : result'[j] = result[j]
    BY <1>2, <2>1 DEF Put, TypeInv
  <2>3. /\ heap' \in [Blocks -> Families \cup {Dead}] /\ table' = table
        /\ HeapInv'
        /\ Owned(k)' = Owned(k) \cup ws
        /\ \A j \in Calls \ {k} : Owned(j)' = Owned(j)
    BY <1>2, CrtAllocateKeeps, HeapStays DEF CrtKinds
  <2>4. pc' = [pc EXCEPT ![k] = "close"] /\ refusal' = refusal
    BY <1>2 DEF Goto
  <2>5. Outcome(k, result[k])'
    BY <1>1, <2>2, <2>4 DEF Outcome
  <2> HIDE DEF v
  <2>6. TypeInv'
    BY <1>1, <2>2, <2>3, <2>4 DEF TypeInv, Places
  <2>7. OthersStay(k)
    BY <1>1, <2>2, <2>4 DEF TypeInv, OthersStay
  <2>8. CallInv(k)'
    BY <1>1, <2>2, <2>4, <2>5 DEF TypeInv, CallInv
  <2>9. Owned(k)' = Reachable(k)' /\ pc'[k] # "idle"
    BY <1>1, <2>1, <2>2, <2>3, <2>4, EmptyIsEmpty, ContentsExist
    DEF TypeInv, NothingLeaks, Reachable, Payload, SessionBlocks
  <2> QED
    BY <2>3, <2>6, <2>7, <2>8, <2>9, StepKeeps DEF TypeInv
<1>3. CASE /\ NeedsBlock(function[k]) /\ result[k] # Nothing
           /\ Fail(k, "ALLOC", "close") /\ UNCHANGED heapVars
  <2>1. /\ heap' \in [Blocks -> Families \cup {Dead}] /\ table' = table
        /\ HeapInv'
        /\ \A j \in Calls : Owned(j)' = Owned(j)
    BY <1>3, HeapStays
  <2>2. /\ pc' \in [Calls -> Places] /\ pc'[k] = "close"
        /\ result' \in [Calls -> Contents \cup {Nothing}]
        /\ result'[k] = Nothing <=> result[k] = Nothing
        /\ refusal' \in [Calls -> Statuses] /\ Outcome(k, result[k])'
        /\ result'[k] # Nothing => result'[k].type # "value"
        /\ \A j \in Calls \ {k} : /\ pc'[j] = pc[j] /\ result'[j] = result[j]
                                  /\ refusal'[j] = refusal[j]
    BY <1>3, FailShows, ContentsExist DEF Places, Statuses
  <2>6. TypeInv'
    BY <1>1, <2>1, <2>2 DEF TypeInv
  <2>7. OthersStay(k)
    BY <1>1, <2>2 DEF TypeInv, OthersStay
  <2>8. CallInv(k)'
    BY <1>1, <2>2 DEF TypeInv, CallInv
  <2>9. Owned(k)' = Reachable(k)' /\ pc'[k] # "idle"
    BY <1>1, <2>1, <2>2, EmptyIsEmpty, ContentsExist
    DEF TypeInv, NothingLeaks, Reachable, Payload, SessionBlocks
  <2> QED
    BY <2>1, <2>6, <2>7, <2>8, <2>9, StepKeeps DEF TypeInv
<1> QED  BY <1>2, <1>3 DEF Write

LEMMA CloseKeeps ==
  ASSUME IInv, NEW k \in Calls, Close(k)  PROVE IInv'
<1> USE DEF IInv, ContextOf
<1>0. SessionBlocks(k) \subseteq Owned(k) \ CrtKinds
  BY DEF NothingLeaks, Reachable, SessionBlocks, CrtKinds
<1>1. /\ heap' \in [Blocks -> Families \cup {Dead}] /\ table' = table
      /\ HeapInv'
      /\ Owned(k)' = Owned(k) \ SessionBlocks(k)
      /\ \A j \in Calls \ {k} : Owned(j)' = Owned(j)
  BY <1>0, ReleaseKeeps DEF Close
<1>2. /\ pc[k] = "close" /\ pc' = [pc EXCEPT ![k] = "return"]
      /\ context' = [context EXCEPT ![k] = NoContext]
      /\ bond' = [bond EXCEPT ![k] = Nothing]
      /\ UNCHANGED <<function, args, done, result, cell, refusal>>
  BY DEF Close, Goto
<1>3. NoContext \in [date : Dates \cup {0}, last : Statuses \cup {"none"}]
  BY DEF NoContext
<1>4. TypeInv'
  BY <1>1, <1>2, <1>3 DEF TypeInv, Places
<1>5. OthersStay(k)
  BY <1>2 DEF TypeInv, OthersStay
<1>6. CallInv(k)'
  BY <1>2 DEF TypeInv, CallInv, Outcome
<1>7. SessionBlocks(k)' = {}
  BY <1>2 DEF SessionBlocks, TypeInv
<1>8. Owned(k)' = Reachable(k)' /\ pc'[k] # "idle"
  <2>1. Owned(k) = (IF result[k] = Nothing THEN {} ELSE {"result"} \cup Payload(k))
                   \cup SessionBlocks(k)
    BY <1>2 DEF NothingLeaks, Reachable
  <2>2. Payload(k)' = Payload(k) /\ result'[k] = result[k] /\ pc'[k] = "return"
    BY <1>2 DEF Payload, TypeInv
  <2>3. (({"result"} \cup Payload(k)) \cap SessionBlocks(k)) = {}
    BY DEF Payload, SessionBlocks
  <2> QED
    BY <1>1, <1>7, <2>1, <2>2, <2>3 DEF Reachable
<1> QED
  BY <1>1, <1>4, <1>5, <1>6, <1>8, StepKeeps DEF TypeInv

LEMMA ExcelReadsKeeps ==
  ASSUME IInv, NEW k \in Calls, ExcelReads(k)  PROVE IInv'
<1> USE DEF IInv, ContextOf
<1>1. /\ heap' \in [Blocks -> Families \cup {Dead}] /\ table' = table
      /\ HeapInv'
      /\ \A j \in Calls : Owned(j)' = Owned(j)
  BY HeapStays DEF ExcelReads
<1>2. /\ pc[k] = "return" /\ pc' = [pc EXCEPT ![k] = "shown"]
      /\ cell' = [cell EXCEPT ![k] = result[k]]
      /\ UNCHANGED <<function, args, context, bond, done, result, refusal>>
  BY DEF ExcelReads, Goto
<1>3. TypeInv'
  BY <1>1, <1>2 DEF TypeInv, Places
<1>4. OthersStay(k)
  BY <1>2 DEF TypeInv, OthersStay
<1>5. CallInv(k)'
  BY <1>2 DEF TypeInv, CallInv, Outcome
<1>6. Owned(k)' = Reachable(k)' /\ pc'[k] # "idle"
  BY <1>1, <1>2 DEF TypeInv, NothingLeaks, Reachable, Payload, SessionBlocks
<1> QED
  BY <1>1, <1>3, <1>4, <1>5, <1>6, StepKeeps DEF TypeInv

LEMMA AutoFreeKeeps ==
  ASSUME IInv, NEW k \in Calls, AutoFree(k)  PROVE IInv'
<1> USE DEF IInv, ContextOf
<1> DEFINE ws == IF result[k] = Nothing THEN {} ELSE {"result"} \cup Payload(k)
<1>1. /\ pc[k] = "shown" /\ pc' = [pc EXCEPT ![k] = "idle"]
      /\ result' = [result EXCEPT ![k] = Nothing]
      /\ args' = [args EXCEPT ![k] = NoArgs]
      /\ done' = [done EXCEPT ![k] = <<>>]
      /\ cell' = [cell EXCEPT ![k] = Nothing]
      /\ function' = [function EXCEPT ![k] = "version"]
      /\ refusal' = [refusal EXCEPT ![k] = "OK"]
      /\ UNCHANGED <<context, bond>>
  BY DEF AutoFree, Goto
<1>2. context[k] = NoContext /\ bond[k] = Nothing
  BY <1>1 DEF CallInv
<1>3. Owned(k) = ws
  BY <1>1, <1>2 DEF NothingLeaks, Reachable, SessionBlocks
<1>4. ws \subseteq CrtKinds
  BY DEF Payload, CrtKinds
<1>5. /\ heap' \in [Blocks -> Families \cup {Dead}] /\ table' = table
      /\ HeapInv'
      /\ Owned(k)' = Owned(k) \ ws
      /\ \A j \in Calls \ {k} : Owned(j)' = Owned(j)
  <2>1. CASE result[k] = Nothing
    BY <2>1, HeapStays DEF AutoFree
  <2>2. CASE result[k] # Nothing
    BY <2>2, <1>3, <1>4, CrtReleaseKeeps DEF AutoFree
  <2> QED  BY <2>1, <2>2
<1>6. NoArgs \in [date : Dates \cup {0}, doubtful : SUBSET Arguments]
  BY DEF NoArgs
<1>7. TypeInv'
  BY <1>1, <1>5, <1>6 DEF TypeInv, Places, Functions, Statuses
<1>8. OthersStay(k)
  BY <1>1 DEF TypeInv, OthersStay
<1>9. CallInv(k)'
  BY <1>1, <1>2 DEF TypeInv, CallInv
<1>10. Owned(k)' = Reachable(k)' /\ Reachable(k)' = {}
  BY <1>1, <1>2, <1>3, <1>5 DEF TypeInv, Reachable, SessionBlocks
<1> QED
  BY <1>5, <1>7, <1>8, <1>9, <1>10, StepKeeps DEF TypeInv

LEMMA BeginKeeps ==
  ASSUME IInv, NEW r \in Requests, Begin(r)  PROVE IInv'
<1> USE DEF IInv, ContextOf
<1> DEFINE k       == r.call
           failed  == ReadAs(r, "error") # {}
           content == IF failed THEN Error(XlError("BAD_ARG")) ELSE Empty
           new     == [date |-> r.date, doubtful |-> ReadAs(r, "doubtful")]
<1>1. k \in Calls /\ r.function \in Functions /\ r.date \in Dates
  BY RequestsAssumption DEF RequestType
<1>2. /\ pc[k] = "idle"
      /\ pc' = [pc EXCEPT ![k] = IF failed THEN "return"
                                 ELSE IF r.function = "version" THEN "write" ELSE "open"]
      /\ function' = [function EXCEPT ![k] = r.function]
      /\ args' = [args EXCEPT ![k] = new]
      /\ refusal' = [refusal EXCEPT ![k] = IF failed THEN "BAD_ARG" ELSE "OK"]
      /\ UNCHANGED <<context, bond, done, cell>>
  BY DEF Begin, Goto
<1>3. \/ /\ CrtAllocate(Of(k, {"result"}))
         /\ result' = [result EXCEPT ![k] = content]
      \/ UNCHANGED <<heapVars, result>>
  BY DEF Begin
<1>4. /\ result[k] = Nothing /\ done[k] = <<>>
      /\ context[k] = NoContext /\ bond[k] = Nothing /\ Owned(k) = {}
  BY <1>1, <1>2 DEF CallInv, NothingLeaks
<1>5. /\ heap' \in [Blocks -> Families \cup {Dead}] /\ table' = table
      /\ HeapInv'
      /\ Owned(k)' = IF result'[k] = Nothing THEN {} ELSE {"result"}
      /\ result'[k] \in {Nothing, content}
      /\ result' \in [Calls -> Contents \cup {Nothing}]
      /\ \A j \in Calls \ {k} : Owned(j)' = Owned(j) /\ result'[j] = result[j]
  <2>1. content \in Contents /\ content # Nothing
    BY ContentsExist DEF Statuses
  <2>2. CASE CrtAllocate(Of(k, {"result"})) /\ result' = [result EXCEPT ![k] = content]
    <3>1. {"result"} \in SUBSET CrtKinds /\ Owned(k) \cup {"result"} = {"result"}
      BY <1>4 DEF CrtKinds
    <3>2. /\ heap' \in [Blocks -> Families \cup {Dead}] /\ table' = table
          /\ HeapInv'
          /\ Owned(k)' = {"result"}
          /\ \A j \in Calls \ {k} : Owned(j)' = Owned(j)
      BY <1>1, <2>2, <3>1, CrtAllocateKeeps
    <3>3. /\ result' \in [Calls -> Contents \cup {Nothing}] /\ result'[k] = content
          /\ \A j \in Calls \ {k} : result'[j] = result[j]
      BY <1>1, <2>1, <2>2 DEF TypeInv
    <3> QED  BY <2>1, <3>2, <3>3
  <2>3. CASE UNCHANGED <<heapVars, result>>
    BY <1>1, <1>4, <2>3, HeapStays DEF TypeInv
  <2> QED  BY <1>3, <2>2, <2>3
<1>6. new \in [date : Dates \cup {0}, doubtful : SUBSET Arguments]
  <2>1. Uses(r.function) \subseteq Arguments
    BY DEF Uses
  <2> QED  BY <1>1, <2>1 DEF ReadAs
<1>7. content.type # "value"
  BY EmptyIsEmpty DEF Error
<1>8. /\ failed => content = Error(XlError("BAD_ARG"))
      /\ ~failed => content = Empty
  OBVIOUS
<1> HIDE DEF content, new, failed
<1>9. TypeInv'
  BY <1>1, <1>2, <1>5, <1>6 DEF TypeInv, Places, Statuses
<1>10. OthersStay(k)
  BY <1>1, <1>2, <1>5 DEF TypeInv, OthersStay
<1>11. Plan("version") = <<>>
  BY DEF Plan
<1>12. CallInv(k)'
  BY <1>1, <1>2, <1>4, <1>5, <1>8, <1>11 DEF TypeInv, CallInv, Outcome
<1>13. Owned(k)' = Reachable(k)' /\ pc'[k] # "idle"
  BY <1>1, <1>2, <1>4, <1>5, <1>7 DEF TypeInv, Reachable, Payload, SessionBlocks
<1> QED
  BY <1>1, <1>5, <1>9, <1>10, <1>12, <1>13, StepKeeps DEF TypeInv

------------------------------------------------------------------------------
(* The host's own calls.                                                    *)

\* The calls' variables stay, so only the heap has to be looked at.
LEMMA CallsStay ==
  ASSUME IInv, UNCHANGED callVars, HeapInv',
         table' \in [Entries -> Families], heap' \in [Blocks -> Families \cup {Dead}],
         \A j \in Calls, w \in Kinds : heap'[<<j, w>>] = heap[<<j, w>>]
  PROVE  IInv'
<1>1. TypeInv'
  BY DEF IInv, TypeInv, callVars
<1>2. \A j \in Calls : Owned(j)' = Owned(j) /\ Reachable(j)' = Reachable(j)
  BY DEF Owned, Reachable, Payload, SessionBlocks, callVars, ContextOf
<1>3. \A j \in Calls : CallInv(j)'
  BY DEF IInv, CallInv, Outcome, callVars
<1> QED
  BY <1>1, <1>2, <1>3 DEF IInv, NothingLeaks, callVars

LEMMA HostKeeps ==
  ASSUME IInv, HostStep, UNCHANGED callVars  PROVE IInv'
<1> USE DEF IInv
<1>1. \A o \in Owners, w \in Kinds : <<o, w>> \in Blocks
  BY DEF Blocks
<1>2. /\ Host \in Owners /\ Buffer \in Kinds /\ Host \notin Calls
      /\ Calls \subseteq Owners /\ Buffer \notin CrtKinds
  BY CallsAssumption, OwnersAssumption DEF CrtKinds, Buffer
<1>3. /\ table["malloc"] \in Families /\ table["free"] \in Families
      /\ Dead \notin Families
      /\ table["realloc"] = table["free"] /\ table["malloc"] = table["free"]
  BY FamiliesAssumption DEF TypeInv, HeapInv, Entries
<1>4. CASE InstallFirst
  <2>1. table' \in [Entries -> Families] /\ heap' = heap
        /\ table'["malloc"] = table'["free"] /\ table'["realloc"] = table'["free"]
    BY <1>4 DEF InstallFirst, SetAllocators, TypeInv, HeapInv, Entries
  <2>2. HeapInv'
    BY <1>4, <2>1 DEF InstallFirst, SetAllocators, HeapInv, FreedByMaker
  <2> QED  BY <2>1, <2>2, CallsStay DEF TypeInv
<1>5. CASE HostMalloc
  <2>1. \A o \in Owners, w \in Kinds :
          heap'[<<o, w>>] = IF o = Host /\ w = Buffer THEN table["malloc"] ELSE heap[<<o, w>>]
    BY <1>1, <1>5 DEF HostMalloc, Allocate, Made
  <2>2. /\ heap' \in [Blocks -> Families \cup {Dead}]
        /\ table' = table /\ settled' = TRUE /\ misfreed' = misfreed
    BY <1>3, <1>5 DEF HostMalloc, Allocate, Made, TypeInv
  <2>3. HeapInv'
    BY <1>2, <1>3, <2>1, <2>2 DEF HeapInv, FreedByMaker
  <2> QED  BY <1>2, <2>1, <2>2, <2>3, CallsStay DEF TypeInv
<1>6. CASE HostRealloc
  <2>1. \A o \in Owners, w \in Kinds :
          heap'[<<o, w>>] = IF o = Host /\ w = Buffer THEN table["realloc"] ELSE heap[<<o, w>>]
    BY <1>1, <1>6 DEF HostRealloc, TypeInv
  <2>2. /\ heap' \in [Blocks -> Families \cup {Dead}]
        /\ table' = table /\ settled' = settled
    BY <1>3, <1>6 DEF HostRealloc, TypeInv
  <2>3. settled /\ heap[<<Host, Buffer>>] = table["realloc"]
    BY <1>2, <1>3, <1>6 DEF HostRealloc, HeapInv
  <2>4. misfreed' = misfreed
    BY <1>6, <2>3 DEF HostRealloc
  <2>5. HeapInv'
    BY <1>2, <1>3, <2>1, <2>2, <2>3, <2>4 DEF HeapInv, FreedByMaker
  <2> QED  BY <1>2, <2>1, <2>2, <2>5, CallsStay DEF TypeInv
<1>7. CASE HostFree
  <2>1. \A o \in Owners, w \in Kinds :
          heap'[<<o, w>>] = IF o = Host /\ w = Buffer THEN Dead ELSE heap[<<o, w>>]
    BY <1>1, <1>7 DEF HostFree, Release, Freed
  <2>2. /\ heap' \in [Blocks -> Families \cup {Dead}]
        /\ table' = table /\ settled' = settled
    BY <1>7 DEF HostFree, Release, Freed, TypeInv
  <2>3. heap[<<Host, Buffer>>] = table["free"]
    BY <1>2, <1>7 DEF HostFree, HeapInv
  <2>4. misfreed' = misfreed
    BY <1>7, <2>3 DEF HostFree, Release, Freed
  <2>5. HeapInv'
    BY <2>1, <2>2, <2>4 DEF HeapInv, FreedByMaker
  <2> QED  BY <1>2, <2>1, <2>2, <2>5, CallsStay DEF TypeInv
<1> QED  BY <1>4, <1>5, <1>6, <1>7 DEF HostStep

------------------------------------------------------------------------------
LEMMA InitHolds == Init => IInv
<1> SUFFICES ASSUME Init PROVE IInv
  OBVIOUS
<1> USE DEF Init, HeapInit
<1>1. TypeInv
  <2>1. NoArgs \in [date : Dates \cup {0}, doubtful : SUBSET Arguments]
        /\ NoContext \in [date : Dates \cup {0}, last : Statuses \cup {"none"}]
    BY DEF NoArgs, NoContext
  <2> QED
    BY <2>1, FamiliesAssumption DEF TypeInv, Places, Functions, Statuses
<1>2. HeapInv
  BY DEF HeapInv, FreedByMaker, Blocks, Entries
<1>3. \A k \in Calls : CallInv(k)
  BY DEF CallInv
<1>4. \A k \in Calls : Owned(k) = {}
  BY CallsAssumption DEF Owned, Blocks
<1>5. \A k \in Calls : Reachable(k) = {}
  BY DEF Reachable, SessionBlocks, ContextOf
<1> QED  BY <1>1, <1>2, <1>3, <1>4, <1>5 DEF IInv, NothingLeaks

\* The invariant of any number of calls: types, blocks, sessions and results
\* stay in step at every point of every call.
THEOREM CallsInvariant == Spec => []IInv
<1>1. ASSUME IInv, [Next]_vars  PROVE IInv'
  <2>1. CASE \E r \in Requests : Begin(r)
    BY <1>1, <2>1, BeginKeeps
  <2>2. CASE \E k \in Calls : Step(k)
    BY <1>1, <2>2, OpenContextKeeps, SetDateKeeps, MakeBondKeeps, BondBuiltKeeps,
       BondRefusedKeeps, AnsweredKeeps, NotAnsweredKeeps, WriteKeeps, CloseKeeps,
       ExcelReadsKeeps, AutoFreeKeeps DEF Step
  <2>3. CASE HostStep /\ UNCHANGED callVars
    BY <1>1, <2>3, HostKeeps
  <2>4. CASE UNCHANGED vars
    BY <1>1, <2>4, CallsStay, HeapStays DEF IInv, TypeInv, vars, heapVars
  <2> QED  BY <1>1, <2>1, <2>2, <2>3, <2>4 DEF Next
<1> QED  BY <1>1, InitHolds, PTL DEF Spec

\* Every early return releases what its call had allocated, and nothing is
\* freed that somebody still points to (Session, Result, free_result).
THEOREM EveryCallCleansUp == Spec => []NothingLeaks
BY CallsInvariant, PTL DEF IInv

\* A set of allocators that is installed before the first allocation serves
\* every block that is not the C runtime's, and no block changes hands.
THEOREM BlocksReturnToTheirMaker == Spec => []FreedByMaker
<1>1. IInv => FreedByMaker
  BY DEF IInv, HeapInv
<1> QED  BY <1>1, CallsInvariant, PTL

\* Calls recalculated side by side do not see one another: a cell shows the
\* numbers of its own bond at its own date, or its own error.
THEOREM CellsShowTheirOwn == Spec => []CellShowsItsOwn
<1>1. ASSUME IInv PROVE CellShowsItsOwn
  <2> SUFFICES ASSUME NEW k \in Calls, pc[k] = "shown", cell[k] # Nothing
               PROVE  \/ /\ refusal[k] = "OK"
                         /\ cell[k].type = "value"
                         /\ cell[k].calls = Plan(function[k])
                         /\ function[k] # "version" => cell[k].bond = [date |-> args[k].date]
                      \/ /\ refusal[k] # "OK"
                         /\ cell[k] = Error(XlError(refusal[k]))
                         /\ cell[k].error # "#NULL!"
    BY DEF CellShowsItsOwn
  <2>1. Outcome(k, cell[k])
    BY <1>1 DEF IInv, CallInv
  <2>2. \A s \in Statuses : s # "OK" => Error(XlError(s)).error # "#NULL!"
    BY DEF Error, XlError
  <2>3. refusal[k] \in Statuses
    BY <1>1 DEF IInv, TypeInv
  <2>4. CASE refusal[k] = "OK"
    <3>1. PICK b \in Bonds \cup {Nothing} :
            /\ cell[k] = Value(b, Plan(function[k]))
            /\ function[k] # "version" => b = [date |-> args[k].date]
      BY <2>1, <2>4 DEF Outcome
    <3>2. /\ cell[k].type = "value" /\ cell[k].bond = b
          /\ cell[k].calls = Plan(function[k])
      BY <3>1 DEF Value
    <3> QED  BY <2>4, <3>1, <3>2
  <2>5. CASE refusal[k] # "OK"
    BY <2>1, <2>2, <2>3, <2>5 DEF Outcome
  <2> QED  BY <2>4, <2>5
<1> QED  BY <1>1, CallsInvariant, PTL
------------------------------------------------------------------------------
(* Calls end.                                                               *)

LibraryCalls == Measures \cup {"count", "flows"}

\* While it asks, a call has had some first answers of its plan and lacks some.
Asking(k) ==
  pc[k] = "ask" =>
    /\ done[k] \in Seq(LibraryCalls)
    /\ Len(done[k]) < Len(Plan(function[k]))
    /\ \A i \in 1..Len(done[k]) : done[k][i] = Plan(function[k])[i]

AskInv == IInv /\ \A k \in Calls : Asking(k)

Lacking(k) == Len(Plan(function[k])) - Len(done[k])

\* The most steps a call still has to make, the answers it lacks among them.
StepsLeft(k) ==
  CASE pc[k] = "open"   -> 14
    [] pc[k] = "date"   -> 13
    [] pc[k] = "make"   -> 12
    [] pc[k] = "build"  -> 11
    [] pc[k] = "ask"    -> 4 + Lacking(k)
    [] pc[k] = "write"  -> 4
    [] pc[k] = "close"  -> 3
    [] pc[k] = "return" -> 2
    [] pc[k] = "shown"  -> 1
    [] OTHER            -> 0

\* A call is over when no step is left; its own steps leave it fewer, and what
\* other calls or the host do leaves it as many.
WorksheetCallsRunOut ==
  [][\A k \in Calls :
       /\ StepsLeft(k) \in 0..14 /\ (StepsLeft(k) = 0 <=> pc[k] = "idle")
       /\ Step(k) => StepsLeft(k)' < StepsLeft(k)
       /\ pc[k] # "idle" /\ ~Step(k) => StepsLeft(k)' = StepsLeft(k)]_vars

LEMMA PlanFacts ==
  ASSUME NEW f \in Functions
  PROVE  /\ Plan(f) \in Seq(LibraryCalls)
         /\ Len(Plan(f)) \in 0..6
         /\ f # "version" => Len(Plan(f)) > 0
<1> USE DEF Plan, Functions, Measures, LibraryCalls
<1>1. CASE f \in Measures \ {"dirty"}
  <2>1. Plan(f) = <<f>> /\ f \in LibraryCalls
    BY <1>1
  <2>2. Len(<<f>>) = 1 /\ <<f>> \in Seq(LibraryCalls)
    BY <2>1
  <2> HIDE DEF Plan, Functions, Measures
  <2> QED  BY <2>1, <2>2
<1>2. CASE f = "dirty"
  BY <1>2
<1>5. CASE f = "cashflows"
  BY <1>5
<1>3. CASE f = "risk"
  BY <1>3
<1>4. CASE f = "version"
  BY <1>4
<1> QED  BY <1>1, <1>2, <1>3, <1>4, <1>5

LEMMA Counting ==
  /\ \A n \in 0..6, m \in Nat : m < n => n - m \in 1..6
  /\ \A n \in 0..6, m \in Nat : n - (m + 1) = (n - m) - 1
OBVIOUS

\* A call that asks lacks answers.
LEMMA AsksForSome ==
  ASSUME AskInv, NEW k \in Calls, pc[k] = "ask"
  PROVE  Lacking(k) \in 1..6
<1>1. Len(Plan(function[k])) \in 0..6
  BY PlanFacts DEF AskInv, IInv, TypeInv
<1>2. done[k] \in Seq(LibraryCalls) /\ Len(done[k]) < Len(Plan(function[k]))
  BY DEF AskInv, Asking
<1>3. Len(done[k]) \in Nat
  BY <1>2
<1> QED
  BY <1>1, <1>2, <1>3, Counting DEF Lacking

\* What is left, place by place.
LEMMA LeftAt ==
  ASSUME NEW k \in Calls
  PROVE  /\ pc[k] = "open" => StepsLeft(k) = 14
         /\ pc[k] = "date" => StepsLeft(k) = 13
         /\ pc[k] = "make" => StepsLeft(k) = 12
         /\ pc[k] = "build" => StepsLeft(k) = 11
         /\ pc[k] = "ask" => StepsLeft(k) = 4 + Lacking(k)
         /\ pc[k] = "write" => StepsLeft(k) = 4
         /\ pc[k] = "close" => StepsLeft(k) = 3
         /\ pc[k] = "return" => StepsLeft(k) = 2
         /\ pc[k] = "shown" => StepsLeft(k) = 1
         /\ pc[k] = "idle" => StepsLeft(k) = 0
BY DEF StepsLeft

LEMMA LeftAtNext ==
  ASSUME NEW k \in Calls
  PROVE  /\ pc'[k] = "date" => StepsLeft(k)' = 13
         /\ pc'[k] = "make" => StepsLeft(k)' = 12
         /\ pc'[k] = "build" => StepsLeft(k)' = 11
         /\ pc'[k] = "ask" => StepsLeft(k)' = 4 + Lacking(k)'
         /\ pc'[k] = "write" => StepsLeft(k)' = 4
         /\ pc'[k] = "close" => StepsLeft(k)' = 3
         /\ pc'[k] = "return" => StepsLeft(k)' = 2
         /\ pc'[k] = "shown" => StepsLeft(k)' = 1
         /\ pc'[k] = "idle" => StepsLeft(k)' = 0
BY DEF StepsLeft

\* An answer is the next one of the plan: either it completes it, or there are
\* still fewer.
LEMMA AnswerIsNext ==
  ASSUME AskInv, NEW k \in Calls, Answered(k)
  PROVE  \/ pc'[k] = "write"
         \/ /\ pc'[k] = "ask" /\ Asking(k)'
            /\ Len(done'[k]) = Len(done[k]) + 1
<1> DEFINE p == Plan(function[k])  s == done[k]  t == Append(s, p[Len(s) + 1])
<1>1. pc[k] = "ask" /\ function' = function /\ function[k] \in Functions
  BY DEF Answered, AskInv, IInv, TypeInv
<1>2. p \in Seq(LibraryCalls) /\ Len(p) \in 0..6
  BY <1>1, PlanFacts
<1>3. s \in Seq(LibraryCalls) /\ Len(s) < Len(p) /\ \A i \in 1..Len(s) : s[i] = p[i]
  BY <1>1 DEF AskInv, Asking
<1>4. done' = [done EXCEPT ![k] = Append(@, p[Len(s) + 1])]
  BY DEF Answered, NextCall
<1>5. done'[k] = t
  BY <1>4 DEF AskInv, IInv, TypeInv
<1>6. pc'[k] = IF t = p THEN "write" ELSE "ask"
  BY <1>5 DEF Answered, Goto, AskInv, IInv, TypeInv
<1>7. p[Len(s) + 1] \in LibraryCalls
  BY <1>2, <1>3
<1> HIDE DEF p, s
<1>8. t \in Seq(LibraryCalls) /\ Len(t) = Len(s) + 1 /\ \A i \in 1..Len(t) : t[i] = p[i]
  BY <1>2, <1>3, <1>7
<1> HIDE DEF t
<1>9. Len(t) = Len(p) => t = p
  BY <1>2, <1>8, SeqEqual
<1>10. t # p => Len(t) < Len(p)
  BY <1>2, <1>3, <1>8, <1>9
<1>11. p' = p
  BY <1>1 DEF p
<1>12. Asking(k)' <=> (pc'[k] = "ask" => /\ done'[k] \in Seq(LibraryCalls)
                                        /\ Len(done'[k]) < Len(p)
                                        /\ \A i \in 1..Len(done'[k]) : done'[k][i] = p[i])
  BY <1>1 DEF Asking, p
<1> QED
  BY <1>3, <1>5, <1>6, <1>8, <1>10, <1>12 DEF p, s

\* A call's own steps touch nothing of another's.
LEMMA StepIsOwn ==
  ASSUME AskInv, NEW j \in Calls, Step(j), NEW k \in Calls \ {j}
  PROVE  pc'[k] = pc[k] /\ function'[k] = function[k] /\ done'[k] = done[k]
<1> USE DEF AskInv, IInv, TypeInv, Goto, Fail
<1>1. CASE OpenContext(j) \/ SetDate(j) \/ MakeBond(j) \/ BondBuilt(j) \/ BondRefused(j)
  BY <1>1 DEF OpenContext, SetDate, MakeBond, BondBuilt, BondRefused
<1>2. CASE Answered(j) \/ NotAnswered(j) \/ Write(j)
  BY <1>2 DEF Answered, NotAnswered, Write
<1>3. CASE Close(j) \/ ExcelReads(j) \/ AutoFree(j)
  BY <1>3 DEF Close, ExcelReads, AutoFree
<1> QED  BY <1>1, <1>2, <1>3 DEF Step

LEMMA BeginIsOwn ==
  ASSUME AskInv, NEW r \in Requests, Begin(r), NEW k \in Calls
  PROVE  IF k = r.call THEN pc[k] = "idle" /\ pc'[k] # "ask"
         ELSE pc'[k] = pc[k] /\ function'[k] = function[k] /\ done'[k] = done[k]
<1>1. r.call \in Calls
  BY RequestsAssumption DEF RequestType
<1> QED
  BY <1>1 DEF AskInv, IInv, TypeInv, Goto, Begin

\* Every step leads a call to where fewer are left.
LEMMA StepLeaves ==
  ASSUME AskInv, NEW k \in Calls, Step(k)
  PROVE  Asking(k)' /\ StepsLeft(k)' < StepsLeft(k)
<1>0. /\ pc \in [Calls -> Places] /\ function[k] \in Functions
      /\ Len(Plan(function[k])) \in 0..6
  BY PlanFacts DEF AskInv, IInv, TypeInv
<1>1. ASSUME \/ pc[k] = "open" /\ pc'[k] = "date"
             \/ pc[k] = "date" /\ pc'[k] \in {"make", "close"}
             \/ pc[k] = "make" /\ pc'[k] = "build"
             \/ pc[k] = "build" /\ pc'[k] = "close"
             \/ pc[k] = "write" /\ pc'[k] = "close"
             \/ pc[k] = "close" /\ pc'[k] = "return"
             \/ pc[k] = "return" /\ pc'[k] = "shown"
             \/ pc[k] = "shown" /\ pc'[k] = "idle"
      PROVE  Asking(k)' /\ StepsLeft(k)' < StepsLeft(k)
  <2>1. Asking(k)'
    BY <1>1 DEF Asking
  <2>2. StepsLeft(k)' < StepsLeft(k)
    BY <1>1, LeftAt, LeftAtNext
  <2> QED
    BY <2>1, <2>2
<1>2. CASE OpenContext(k) \/ SetDate(k) \/ MakeBond(k)
  BY <1>0, <1>1, <1>2 DEF OpenContext, SetDate, MakeBond, Goto, Fail, Places
<1>3. CASE BondBuilt(k)
  <2>1. /\ pc[k] = "build" /\ pc'[k] = "ask" /\ function' = function /\ done'[k] = done[k]
    BY <1>0, <1>3 DEF BondBuilt, Goto
  <2>2. done[k] = <<>> /\ function[k] # "version"
    BY <2>1 DEF AskInv, IInv, CallInv
  <2>3. done'[k] = <<>> /\ Len(<<>>) = 0 /\ <<>> \in Seq(LibraryCalls)
    BY <2>1, <2>2
  <2>4. Asking(k)'
    BY <1>0, <2>1, <2>2, <2>3, PlanFacts DEF Asking
  <2>5. Lacking(k)' = Len(Plan(function[k])) - 0 /\ 0 < Len(Plan(function[k]))
    BY <1>0, <2>1, <2>2, <2>3, PlanFacts DEF Lacking
  <2>6. Lacking(k)' \in 1..6
    BY <1>0, <2>5, Counting
  <2>7. StepsLeft(k) = 11 /\ StepsLeft(k)' = 4 + Lacking(k)'
    BY <2>1, LeftAt, LeftAtNext
  <2> QED
    BY <2>4, <2>6, <2>7
<1>4. CASE BondRefused(k)
  BY <1>0, <1>1, <1>4 DEF BondRefused, Fail, Goto, Places
<1>5. CASE Answered(k)
  <2>1. pc[k] = "ask" /\ function' = function
    BY <1>5 DEF Answered
  <2>2. StepsLeft(k) = 4 + Lacking(k) /\ Lacking(k) \in 1..6
    BY <2>1, LeftAt, AsksForSome
  <2>3. CASE pc'[k] = "write"
    <3>1. Asking(k)' /\ StepsLeft(k)' = 4
      BY <2>3, LeftAtNext DEF Asking
    <3> QED
      BY <2>2, <3>1
  <2>4. CASE pc'[k] = "ask" /\ Asking(k)' /\ Len(done'[k]) = Len(done[k]) + 1
    <3>1. Len(done[k]) \in Nat
      BY <2>1 DEF AskInv, Asking
    <3>2. Lacking(k)' = Len(Plan(function[k])) - (Len(done[k]) + 1)
      BY <2>1, <2>4 DEF Lacking
    <3>3. Lacking(k)' = Lacking(k) - 1
      BY <1>0, <3>1, <3>2, Counting DEF Lacking
    <3>4. StepsLeft(k)' = 4 + Lacking(k)'
      BY <2>4, LeftAtNext
    <3> QED
      BY <2>2, <2>4, <3>3, <3>4
  <2> QED
    BY <1>5, <2>3, <2>4, AnswerIsNext
<1>6. CASE NotAnswered(k)
  <2>1. pc[k] = "ask" /\ pc'[k] = "close"
    BY <1>0, <1>6 DEF NotAnswered, Fail, Goto
  <2>2. /\ StepsLeft(k) = 4 + Lacking(k) /\ Lacking(k) \in 1..6
        /\ StepsLeft(k)' = 3
    BY <2>1, LeftAt, LeftAtNext, AsksForSome
  <2> QED
    BY <2>1, <2>2 DEF Asking
<1>7. CASE Write(k) \/ Close(k) \/ ExcelReads(k) \/ AutoFree(k)
  BY <1>0, <1>1, <1>7 DEF Write, Close, ExcelReads, AutoFree, Fail, Goto, Places
<1> QED  BY <1>2, <1>3, <1>4, <1>5, <1>6, <1>7 DEF Step

LEMMA OthersLeaveIt ==
  ASSUME AskInv, [Next]_vars, NEW k \in Calls, ~Step(k)
  PROVE  /\ Asking(k)'
         /\ pc[k] # "idle" => StepsLeft(k)' = StepsLeft(k)
<1>1. \/ pc[k] = "idle" /\ pc'[k] # "ask"
      \/ pc'[k] = pc[k] /\ function'[k] = function[k] /\ done'[k] = done[k]
  BY StepIsOwn, BeginIsOwn DEF Next, vars, callVars
<1>2. CASE pc[k] = "idle" /\ pc'[k] # "ask"
  BY <1>2 DEF Asking
<1>3. CASE pc'[k] = pc[k] /\ function'[k] = function[k] /\ done'[k] = done[k]
  BY <1>3 DEF AskInv, Asking, StepsLeft, Lacking
<1> QED  BY <1>1, <1>2, <1>3

\* A worksheet call is over within fifteen steps, its result freed, whichever
\* of them fail and whatever is recalculated beside it.
THEOREM EveryWorksheetCallEnds == Spec => WorksheetCallsRunOut
<1>1. Init => \A k \in Calls : Asking(k)
  BY DEF Init, Asking
<1>2. ASSUME AskInv, [Next]_vars, NEW k \in Calls  PROVE Asking(k)'
  BY <1>2, StepLeaves, OthersLeaveIt
<1>3. ASSUME AskInv, NEW k \in Calls
      PROVE  StepsLeft(k) \in 0..14 /\ (StepsLeft(k) = 0 <=> pc[k] = "idle")
  <2>1. pc[k] \in Places
    BY <1>3 DEF AskInv, IInv, TypeInv
  <2>2. pc[k] = "ask" => Lacking(k) \in 1..6
    BY <1>3, AsksForSome
  <2> QED
    BY <2>1, <2>2, LeftAt DEF Places
<1>4. AskInv /\ [Next]_vars =>
        [\A k \in Calls :
           /\ StepsLeft(k) \in 0..14 /\ (StepsLeft(k) = 0 <=> pc[k] = "idle")
           /\ Step(k) => StepsLeft(k)' < StepsLeft(k)
           /\ pc[k] # "idle" /\ ~Step(k) => StepsLeft(k)' = StepsLeft(k)]_vars
  BY <1>3, StepLeaves, OthersLeaveIt
<1>5. (\A k \in Calls : Asking(k)) /\ IInv /\ [Next]_vars => (\A k \in Calls : Asking(k))'
  BY <1>2 DEF AskInv
<1>6. (\A k \in Calls : Asking(k)) /\ IInv => AskInv
  BY DEF AskInv
<1> QED
  BY <1>1, <1>4, <1>5, <1>6, CallsInvariant, PTL DEF Spec, WorksheetCallsRunOut
=============================================================================
