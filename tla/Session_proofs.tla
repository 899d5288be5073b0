--------------------------- MODULE Session_proofs ---------------------------
(***************************************************************************)
(* For any number of contexts and bonds and any depth of calls within      *)
(* calls: the Python properties tell the truth, each risk number is made   *)
(* with one size, and exceptions carry the message of their own call.      *)
(***************************************************************************)
EXTENDS Session, SequenceTheorems, TLAPS

NumberType == [sizes : SUBSET Sizes, held : Sizes, shown : Sizes]
AnswerType == [call : Calls \cup {"nobody"}, status : Statuses,
               exception : Exceptions, text : Messages]

(* The parts of a step. *)

LEMMA MessageType ==
  ASSUME NEW status \in Statuses, NEW call \in Calls
  PROVE  Message(status, call) \in Messages /\ Clear \in Messages
BY DEF Message, Messages, Clear, Statuses

LEMMA AnswerTyped ==
  ASSUME NEW call \in Calls, NEW status \in Statuses, NEW text \in Messages
  PROVE  Answer(call, status, text) \in AnswerType /\ Returned \in AnswerType
BY DEF Answer, AnswerType, ExceptionOf, Exceptions, Returned, Messages, Clear,
       Statuses, Calls, ContextCalls

\* A call that records its status and ends has the right types, and if it
\* failed its own message.
LEMMA RecordedCall ==
  ASSUME TypeOK, NEW c \in Contexts, NEW call \in Calls, NEW status \in Statuses,
         Record(c, call, status), Ended(c, call, status)
  PROVE  /\ err' \in [Contexts -> Messages]
         /\ answer' \in AnswerType
         /\ number' = NoNumber
         /\ answer'.status # "OK" =>
              answer'.text = Message(answer'.status, answer'.call)
<1>1. err' \in [Contexts -> Messages]
  BY MessageType DEF TypeOK, Record
<1>2. err'[c] = IF status = "OK" THEN Clear ELSE Message(status, call)
  BY DEF TypeOK, Record
<1>3. (IF status = "OK" THEN Clear ELSE err'[c]) \in Messages
  BY <1>2, MessageType
<1>4. answer' \in AnswerType
  BY <1>3, AnswerTyped DEF Ended
<1>5. answer'.status # "OK" => answer'.text = Message(answer'.status, answer'.call)
  BY <1>2 DEF Ended, Answer
<1>6. QED
  BY <1>1, <1>4, <1>5 DEF Ended

\* The calls below a returning one are what they were.
LEMMA BelowType ==
  ASSUME TypeOK, stack # <<>>
  PROVE  /\ Len(stack) \in Nat \ {0} /\ Top \in Frames
         /\ Below \in Seq(Frames)
         /\ Len(Below) = Len(stack) - 1
         /\ \A i \in 1..Len(Below) : Below[i] = stack[i]
<1>1. stack \in Seq(Frames)
  BY DEF TypeOK
<1>2. Len(stack) \in Nat \ {0}
  BY <1>1, EmptySeq, LenProperties
<1>3. Top \in Frames
  BY <1>1, <1>2, ElementOfSeq DEF Top
<1>4. \A i \in 1..(Len(stack) - 1) : stack[i] \in Frames
  BY <1>1, <1>2, ElementOfSeq
<1>5. Below = [i \in 1..(Len(stack) - 1) |-> stack[i]]
  BY <1>1, <1>2 DEF Below
<1>6. Len(stack) - 1 \in Nat
  BY <1>2
<1>7. Below \in Seq(Frames) /\ Len(Below) = Len(stack) - 1
  BY <1>4, <1>5, <1>6
<1>8. QED
  BY <1>2, <1>3, <1>5, <1>7

-----------------------------------------------------------------------------
(* FramesTrue, by what happens to the stack.                               *)

LEMMA StackKept ==
  ASSUME FramesTrue, UNCHANGED stack, built \subseteq built'
  PROVE  FramesTrue'
BY DEF FramesTrue

LEMMA StackPopped ==
  ASSUME TypeOK, FramesTrue, stack # <<>>, stack' = Below, UNCHANGED built
  PROVE  FramesTrue' /\ stack' \in Seq(Frames)
<1>1. \A i \in 1..Len(stack') : i \in 1..Len(stack) /\ stack'[i] = stack[i]
  BY BelowType
<1>2. QED
  BY <1>1, BelowType DEF FramesTrue

\* A step that records a context call and touches neither stack nor contexts
\* keeps what is said of calls in progress, numbers and messages.
LEMMA RecordedStep ==
  ASSUME TypeOK, FramesTrue, UNCHANGED <<built, stack>>,
         NEW c \in Contexts, NEW call \in Calls, NEW status \in Statuses,
         Record(c, call, status), Ended(c, call, status)
  PROVE  FramesTrue' /\ NumbersAtOneSize' /\ DiagnosticIsOwn'
<1>1. FramesTrue'
  BY StackKept
<1>2. number' = NoNumber /\ DiagnosticIsOwn'
  BY RecordedCall DEF DiagnosticIsOwn
<1>3. QED
  BY <1>1, <1>2 DEF NumbersAtOneSize

\* The same of a step that ends nothing.
LEMMA QuietStep ==
  ASSUME answer' = Returned, number' = NoNumber
  PROVE  /\ NumbersAtOneSize' /\ DiagnosticIsOwn'
         /\ answer' \in AnswerType
<1>1. Returned \in AnswerType
  BY AnswerTyped, MessageType DEF Statuses, Calls, ContextCalls
<1>2. Returned.status = "OK"
  BY DEF Returned, Answer
<1>3. QED
  BY <1>1, <1>2 DEF NumbersAtOneSize, DiagnosticIsOwn

-----------------------------------------------------------------------------
(* One lemma for each kind of step.                                        *)

\* A step may start from here.
IInv == SessionInv /\ DiagnosticIsOwn

LEMMA InitInv == Init => IInv
<1> SUFFICES ASSUME Init PROVE IInv
  OBVIOUS
<1>1. Fresh \in Settings
  BY ValuesAssumption DEF Fresh, Settings
<1>2. Clear \in Messages
  BY MessageType DEF Statuses, Calls, ContextCalls
<1>3. answer \in AnswerType /\ answer.status = "OK"
  BY <1>2, AnswerTyped DEF Init, Returned, Answer, Statuses, Calls, ContextCalls
<1>4. stack \in Seq(Frames) /\ Len(stack) = 0
  BY EmptySeq DEF Init
<1>5. TypeOK
  BY <1>1, <1>2, <1>3, <1>4 DEF Init, TypeOK, AnswerType
<1>6. QED
  BY <1>3, <1>4, <1>5 DEF Init, IInv, SessionInv, MirrorsTrue, FramesTrue,
     NumbersAtOneSize, DiagnosticIsOwn

LEMMA PythonRefusesInv ==
  ASSUME IInv, NEW exception \in {"TypeError", "ValueError"},
         PythonRefuses(exception)
  PROVE  IInv'
<1> USE DEF IInv, SessionInv
<1>1. Clear \in Messages
  BY MessageType DEF Statuses, Calls, ContextCalls
<1>2. answer' \in AnswerType /\ answer'.status = "OK"
  BY <1>1 DEF PythonRefuses, AnswerType, Calls, Statuses, Exceptions
<1>3. TypeOK'
  BY <1>2 DEF TypeOK, PythonRefuses, settingVars, AnswerType
<1>4. MirrorsTrue'
  BY DEF MirrorsTrue, PythonRefuses, settingVars
<1>5. FramesTrue'
  BY StackKept DEF PythonRefuses, settingVars
<1>6. QED
  BY <1>2, <1>3, <1>4, <1>5 DEF PythonRefuses, NumbersAtOneSize, DiagnosticIsOwn

LEMMA PriceBondInv ==
  ASSUME IInv, NEW b \in Bonds, NEW status \in {"OK", "BAD_ARG", "NO_CONVERGENCE"},
         PriceBond(b, status)
  PROVE  IInv'
<1> USE DEF IInv, SessionInv
<1>1. status \in Statuses /\ "price" \in Calls
  BY DEF Statuses, Calls
<1>2. answer' \in AnswerType
  BY <1>1, MessageType, AnswerTyped DEF PriceBond
<1>3. DiagnosticIsOwn'
  BY DEF PriceBond, Answer, DiagnosticIsOwn
<1>4. TypeOK'
  BY <1>2 DEF TypeOK, PriceBond, settingVars, AnswerType
<1>5. MirrorsTrue'
  BY DEF MirrorsTrue, PriceBond, settingVars
<1>6. FramesTrue'
  BY StackKept DEF PriceBond, settingVars
<1>7. QED
  BY <1>3, <1>4, <1>5, <1>6 DEF PriceBond, NumbersAtOneSize

LEMMA NewContextInv ==
  ASSUME IInv, NEW c \in Contexts, NEW args \in Arguments, NewContext(c, args)
  PROVE  IInv'
<1> USE DEF IInv, SessionInv
<1>1. [date |-> args.date, bump |-> args.bump] \in Settings
  <2>1. args.date # Refused /\ args.bump # Refused
    BY DEF NewContext, FirstRefusal, Message, Clear
  <2>2. QED
    BY <2>1 DEF Arguments, Settings
<1>2. Clear \in Messages
  BY MessageType DEF Statuses, Calls, ContextCalls
<1>3. NumbersAtOneSize' /\ DiagnosticIsOwn' /\ answer' \in AnswerType
  BY QuietStep DEF NewContext
<1>4. TypeOK'
  BY <1>1, <1>2, <1>3 DEF TypeOK, NewContext, AnswerType
<1>5. MirrorsTrue'
  BY DEF TypeOK, MirrorsTrue, NewContext
<1>6. FramesTrue'
  BY StackKept DEF NewContext
<1>7. QED
  BY <1>3, <1>4, <1>5, <1>6

LEMMA NewContextFailsInv ==
  ASSUME IInv, NEW c \in Contexts, NEW args \in Arguments, NewContextFails(c, args)
  PROVE  IInv'
<1> USE DEF IInv, SessionInv
<1> DEFINE refusal == FirstRefusal(args)
<1>1. /\ refusal.status \in Statuses /\ refusal.of \in Calls
      /\ refusal = Message(refusal.status, refusal.of)
      /\ refusal \in Messages
  BY DEF NewContextFails, FirstRefusal, Message, Messages, Clear, Statuses,
     Calls, ContextCalls
<1>2. answer' = Answer(refusal.of, refusal.status, refusal)
  BY DEF NewContextFails
<1> HIDE DEF refusal
<1>3. answer' \in AnswerType
  BY <1>1, <1>2, AnswerTyped
<1>4. DiagnosticIsOwn'
  BY <1>1, <1>2 DEF DiagnosticIsOwn, Answer
<1>5. TypeOK'
  BY <1>3 DEF TypeOK, NewContextFails, settingVars, AnswerType
<1>6. MirrorsTrue'
  BY DEF MirrorsTrue, NewContextFails, settingVars
<1>7. FramesTrue'
  BY StackKept DEF NewContextFails, settingVars
<1>8. QED
  BY <1>4, <1>5, <1>6, <1>7 DEF NewContextFails, NumbersAtOneSize

\* What a native setter does, whoever called it.
LEMMA SetNativeInv ==
  ASSUME IInv, NEW c \in Contexts, NEW field \in Fields,
         NEW v \in Accepted(field) \cup {Refused}, SetNative(c, field, v)
  PROVE  /\ FramesTrue' /\ NumbersAtOneSize' /\ DiagnosticIsOwn'
         /\ err' \in [Contexts -> Messages]
         /\ answer' \in AnswerType
         /\ number' = NoNumber
         /\ native' \in [Contexts -> Settings]
         /\ v \in Accepted(field) => native' = [native EXCEPT ![c][field] = v]
         /\ v \notin Accepted(field) => native' = native
<1> USE DEF IInv, SessionInv
<1>1. /\ SetterOf(field) \in Calls
      /\ SetterStatus(field, v) \in Statuses
  BY DEF SetterOf, SetterStatus, Calls, ContextCalls, Statuses
<1>2. FramesTrue' /\ NumbersAtOneSize' /\ DiagnosticIsOwn'
  BY <1>1, RecordedStep DEF SetNative
<1>3. /\ err' \in [Contexts -> Messages] /\ answer' \in AnswerType
      /\ number' = NoNumber
  BY <1>1, RecordedCall DEF SetNative
<1>4. ASSUME v \in Accepted(field)
      PROVE  [native EXCEPT ![c][field] = v] \in [Contexts -> Settings]
  <2>1. native[c] \in Settings
    BY DEF TypeOK
  <2>2. [native[c] EXCEPT ![field] = v] \in Settings
    BY <1>4, <2>1 DEF Settings, Fields, Accepted
  <2>3. QED
    BY <2>2 DEF TypeOK
<1>5. QED
  BY <1>2, <1>3, <1>4 DEF SetNative, TypeOK

LEMMA AssignInv ==
  ASSUME IInv, NEW c \in Contexts, NEW field \in Fields,
         NEW v \in Accepted(field) \cup {Refused}, Assign(c, field, v)
  PROVE  IInv'
<1> USE DEF IInv, SessionInv
<1>1. CASE v \in Accepted(field)
  <2>1. /\ mirror' = [mirror EXCEPT ![c][field] = v]
        /\ native' = [native EXCEPT ![c][field] = v]
        /\ bypassed' = bypassed \ {<<c, field>>}
    BY <1>1, SetNativeInv DEF Assign
  <2>2. mirror' \in [Contexts -> Settings]
    <3>1. mirror[c] \in Settings
      BY DEF TypeOK
    <3>2. [mirror[c] EXCEPT ![field] = v] \in Settings
      BY <1>1, <3>1 DEF Settings, Fields, Accepted
    <3>3. QED
      BY <2>1, <3>2 DEF TypeOK
  <2>3. MirrorsTrue'
    <3> SUFFICES ASSUME NEW k \in built', NEW g \in Fields,
                        <<k, g>> \notin bypassed'
                 PROVE  mirror'[k][g] = native'[k][g]
      BY DEF MirrorsTrue
    <3>1. k \in built /\ k \in Contexts
      BY DEF Assign, SetNative, TypeOK
    <3>2. /\ native[k] \in Settings /\ mirror[k] \in Settings
          /\ native[c] \in Settings /\ mirror[c] \in Settings
      BY <3>1 DEF TypeOK
    <3>3. CASE k = c /\ g = field
      BY <2>1, <3>2, <3>3 DEF TypeOK, Settings, Fields
    <3>4. CASE k = c /\ g # field
      BY <2>1, <3>1, <3>2, <3>4 DEF TypeOK, Settings, Fields, MirrorsTrue
    <3>5. CASE k # c
      BY <2>1, <3>1, <3>5 DEF TypeOK, MirrorsTrue
    <3>6. QED
      BY <3>3, <3>4, <3>5
  <2>4. TypeOK'
    BY <2>1, <2>2, SetNativeInv DEF TypeOK, Assign, SetNative, AnswerType
  <2>5. QED
    BY <2>3, <2>4, SetNativeInv DEF Assign
<1>2. CASE v \notin Accepted(field)
  <2>1. UNCHANGED <<built, mirror, native, bypassed>>
    BY <1>2, SetNativeInv DEF Assign, SetNative
  <2>2. MirrorsTrue'
    BY <2>1 DEF MirrorsTrue
  <2>3. TypeOK'
    BY <2>1, SetNativeInv DEF TypeOK, Assign, SetNative, AnswerType
  <2>4. QED
    BY <2>2, <2>3, SetNativeInv DEF Assign
<1>3. QED
  BY <1>1, <1>2

LEMMA SetInheritedInv ==
  ASSUME IInv, NEW c \in Contexts, NEW field \in Fields,
         NEW v \in Accepted(field) \cup {Refused}, SetInherited(c, field, v)
  PROVE  IInv'
<1> USE DEF IInv, SessionInv
<1>1. MirrorsTrue'
  <2> SUFFICES ASSUME NEW k \in built', NEW g \in Fields,
                      <<k, g>> \notin bypassed'
               PROVE  mirror'[k][g] = native'[k][g]
    BY DEF MirrorsTrue
  <2>1. k \in built /\ k \in Contexts
    BY DEF SetInherited, SetNative, TypeOK
  <2>2. mirror'[k][g] = native[k][g]
    BY <2>1 DEF SetInherited, MirrorsTrue
  <2>3. CASE v \notin Accepted(field)
    BY <2>2, <2>3, SetNativeInv DEF SetInherited
  <2>4. CASE v \in Accepted(field)
    <3>1. k # c \/ g # field
      BY <2>4 DEF SetInherited
    <3>2. native' = [native EXCEPT ![c][field] = v]
      BY <2>4, SetNativeInv DEF SetInherited
    <3>3. native'[k][g] = native[k][g]
      BY <2>1, <3>1, <3>2 DEF TypeOK, Settings, Fields
    <3>4. QED
      BY <2>2, <3>3
  <2>5. QED
    BY <2>3, <2>4
<1>2. bypassed' \subseteq Contexts \X Fields
  <2>1. <<c, field>> \in Contexts \X Fields
    OBVIOUS
  <2>2. bypassed' \subseteq bypassed \cup {<<c, field>>}
    BY DEF SetInherited
  <2>3. QED
    BY <2>1, <2>2 DEF TypeOK
<1>3. UNCHANGED <<built, mirror, bonds, stack>>
  BY DEF SetInherited, SetNative
<1>4. TypeOK'
  BY <1>2, <1>3, SetNativeInv DEF TypeOK, SetInherited, AnswerType
<1>5. QED
  BY <1>1, <1>4, SetNativeInv DEF SetInherited

LEMMA SetSolverInv ==
  ASSUME IInv, NEW c \in Contexts, NEW status \in {"OK", "BAD_ARG"},
         SetSolver(c, status)
  PROVE  IInv'
<1> USE DEF IInv, SessionInv
<1>1. "solver" \in Calls /\ status \in Statuses
  BY DEF Calls, ContextCalls, Statuses
<1>2. FramesTrue' /\ NumbersAtOneSize' /\ DiagnosticIsOwn'
  BY <1>1, RecordedStep DEF SetSolver, settingVars
<1>3. TypeOK'
  BY <1>1, RecordedCall DEF TypeOK, SetSolver, settingVars, AnswerType
<1>4. MirrorsTrue'
  BY DEF MirrorsTrue, SetSolver, settingVars
<1>5. QED
  BY <1>2, <1>3, <1>4

LEMMA BuildBondInv ==
  ASSUME IInv, NEW b \in Bonds, NEW c \in Contexts, NEW status \in Statuses,
         BuildBond(b, c, status)
  PROVE  IInv'
<1> USE DEF IInv, SessionInv
<1>1. "bond" \in Calls
  BY DEF Calls, ContextCalls
<1>2. FramesTrue' /\ NumbersAtOneSize' /\ DiagnosticIsOwn'
  BY <1>1, RecordedStep DEF BuildBond, settingVars
<1>3. bonds' \in [Bonds -> [ctx : Contexts, date : Dates] \cup {NoBond}]
  <2>1. CASE status # "OK"
    BY <2>1 DEF BuildBond, TypeOK
  <2>2. CASE status = "OK"
    <3>1. native[c].date \in Dates
      BY <2>2 DEF BuildBond, BuildStatuses, TypeOK, Settings
    <3>2. QED
      BY <2>2, <3>1 DEF BuildBond, TypeOK
  <2>3. QED
    BY <2>1, <2>2
<1>4. TypeOK'
  BY <1>1, <1>3, RecordedCall DEF TypeOK, BuildBond, settingVars, AnswerType
<1>5. MirrorsTrue'
  BY DEF MirrorsTrue, BuildBond, settingVars
<1>6. QED
  BY <1>2, <1>4, <1>5

\* A risk call on a context of the program.
LEMMA RiskContextType ==
  ASSUME TypeOK, NEW b \in Bonds, NEW given \in Contexts \cup {NoBond},
         bonds[b] # NoBond
  PROVE  RiskContext(b, given) \in Contexts
<1>1. bonds[b] \in [ctx : Contexts, date : Dates]
  BY DEF TypeOK
<1>2. QED
  BY <1>1 DEF RiskContext

LEMMA RefuseRiskInv ==
  ASSUME IInv, NEW b \in Bonds, NEW c \in Contexts, RefuseRisk(b, c)
  PROVE  IInv'
<1> USE DEF IInv, SessionInv
<1>1. "risk" \in Calls /\ "NO_BUMP_SUPPORT" \in Statuses
  BY DEF Calls, ContextCalls, Statuses
<1>2. FramesTrue' /\ NumbersAtOneSize' /\ DiagnosticIsOwn'
  BY <1>1, RecordedStep DEF RefuseRisk, settingVars
<1>3. TypeOK'
  BY <1>1, RecordedCall DEF TypeOK, RefuseRisk, settingVars, AnswerType
<1>4. MirrorsTrue'
  BY DEF MirrorsTrue, RefuseRisk, settingVars
<1>5. QED
  BY <1>2, <1>3, <1>4

LEMMA RiskOfNothingInv ==
  ASSUME IInv, NEW b \in Bonds, NEW c \in Contexts, RiskOfNothing(b, c)
  PROVE  IInv'
<1> USE DEF IInv, SessionInv
<1>1. NumbersAtOneSize' /\ DiagnosticIsOwn' /\ answer' \in AnswerType
      /\ number' = NoNumber
  BY QuietStep DEF RiskOfNothing, Quiet
<1>2. Clear \in Messages
  BY MessageType DEF Statuses, Calls, ContextCalls
<1>3. TypeOK'
  BY <1>1, <1>2 DEF TypeOK, RiskOfNothing, settingVars, AnswerType
<1>4. MirrorsTrue'
  BY DEF MirrorsTrue, RiskOfNothing, settingVars
<1>5. FramesTrue'
  BY StackKept DEF RiskOfNothing, settingVars
<1>6. QED
  BY <1>1, <1>3, <1>4, <1>5

LEMMA StartRiskInv ==
  ASSUME IInv, NEW b \in Bonds, NEW c \in Contexts, StartRisk(b, c)
  PROVE  IInv'
<1> USE DEF IInv, SessionInv
<1> DEFINE frame == [ctx |-> c, bump |-> native[c].bump, turn |-> "base",
                     sizes |-> {}, held |-> native[c].bump,
                     shown |-> mirror[c].bump]
<1>1. native[c] \in Settings /\ mirror[c] \in Settings /\ c \in built
  BY DEF TypeOK, StartRisk, CanCallRisk
<1>2. frame \in Frames
  BY <1>1 DEF Frames, Settings
<1>3. frame.held = frame.bump
  OBVIOUS
<1>4. stack' = Append(stack, frame) /\ stack \in Seq(Frames)
  BY DEF StartRisk, TypeOK
<1>5. frame.sizes \subseteq {frame.bump} /\ frame.ctx \in built
  BY <1>1
<1> HIDE DEF frame
<1>6. /\ stack' \in Seq(Frames) /\ Len(stack') = Len(stack) + 1
      /\ \A i \in 1..Len(stack) : stack'[i] = stack[i]
      /\ stack'[Len(stack) + 1] = frame
  BY <1>2, <1>4, AppendProperties
<1>7. FramesTrue'
  <2>1. ASSUME NEW i \in 1..Len(stack')
        PROVE  i \in 1..Len(stack) \/ i = Len(stack) + 1
    BY <1>4, <1>6, LenProperties
  <2>2. built' = built
    BY DEF StartRisk, settingVars
  <2>3. QED
    BY <1>3, <1>5, <1>6, <2>1, <2>2 DEF FramesTrue
<1>8. NumbersAtOneSize' /\ DiagnosticIsOwn' /\ answer' \in AnswerType
      /\ number' = NoNumber
  BY QuietStep DEF StartRisk, Quiet
<1>9. Clear \in Messages
  BY MessageType DEF Statuses, Calls, ContextCalls
<1>10. TypeOK'
  BY <1>6, <1>8, <1>9 DEF TypeOK, StartRisk, settingVars, AnswerType
<1>11. MirrorsTrue'
  BY DEF MirrorsTrue, StartRisk, settingVars
<1>12. QED
  BY <1>7, <1>8, <1>10, <1>11

LEMMA ProceedInv ==
  ASSUME IInv, Proceed
  PROVE  IInv'
<1> USE DEF IInv, SessionInv
<1> DEFINE n == Len(stack)
           next == [Top EXCEPT !.turn = IF Top.turn = "up" THEN "down" ELSE "up",
                               !.sizes = IF Top.turn = "base" THEN Top.sizes
                                         ELSE Top.sizes \cup {SizeInUse(Top)}]
<1>1. /\ n \in Nat \ {0} /\ Top \in Frames /\ Top = stack[n]
      /\ stack \in Seq(Frames)
  BY BelowType DEF Proceed, Top, TypeOK
<1>2. stack' = [stack EXCEPT ![n] = next]
  BY DEF Proceed, Top
<1>3. SizeInUse(Top) = Top.bump /\ Top.bump \in Sizes
  BY <1>1 DEF SizeInUse, Frames
<1>4. next \in Frames
  BY <1>1, <1>3 DEF Frames
<1>5. next.ctx = Top.ctx /\ next.bump = Top.bump /\ next.held = Top.held
  BY <1>1 DEF Frames
<1>6. next.sizes \subseteq Top.sizes \cup {Top.bump}
  BY <1>1, <1>3 DEF Frames
<1>7. n \in 1..n
  BY <1>1
<1> HIDE DEF next
<1>8. /\ stack' \in Seq(Frames) /\ Len(stack') = n
      /\ \A i \in 1..n : stack'[i] = IF i = n THEN next ELSE stack[i]
  BY <1>1, <1>2, <1>4, <1>7, ExceptSeq
<1>9. built' = built
  BY DEF Proceed, settingVars
<1>10. FramesTrue'
  BY <1>1, <1>5, <1>6, <1>7, <1>8, <1>9 DEF FramesTrue
<1>11. NumbersAtOneSize' /\ DiagnosticIsOwn' /\ answer' \in AnswerType
       /\ number' = NoNumber
  BY QuietStep DEF Proceed, Quiet
<1>12. TypeOK'
  BY <1>8, <1>11 DEF TypeOK, Proceed, settingVars, AnswerType
<1>13. MirrorsTrue'
  BY DEF MirrorsTrue, Proceed, settingVars
<1>14. QED
  BY <1>10, <1>11, <1>12, <1>13

LEMMA FinishInv ==
  ASSUME IInv, Finish
  PROVE  IInv'
<1> USE DEF IInv, SessionInv
<1>1. /\ Top \in Frames /\ Len(stack) \in 1..Len(stack)
  BY BelowType DEF Finish
<1>2. Top.sizes \subseteq {Top.bump} /\ Top.held = Top.bump
  BY <1>1 DEF FramesTrue, Top
<1>3. number'.sizes = {Top.bump} /\ number'.held = Top.held
  BY <1>2 DEF Finish, SizeInUse
<1>4. number' \in NumberType
  BY <1>1 DEF Finish, SizeInUse, Frames, NumberType
<1>5. NumbersAtOneSize'
  BY <1>2, <1>3 DEF NumbersAtOneSize
<1>6. answer' \in AnswerType /\ answer'.status = "OK"
  BY AnswerTyped, MessageType
     DEF Finish, Returned, Answer, Statuses, Calls, ContextCalls
<1>7. FramesTrue' /\ stack' \in Seq(Frames)
  BY StackPopped DEF Finish, settingVars
<1>8. TypeOK'
  BY <1>4, <1>6, <1>7 DEF TypeOK, Finish, settingVars, AnswerType, NumberType
<1>9. MirrorsTrue'
  BY DEF MirrorsTrue, Finish, settingVars
<1>10. QED
  BY <1>5, <1>6, <1>7, <1>8, <1>9 DEF DiagnosticIsOwn

LEMMA UnwindInv ==
  ASSUME IInv, Unwind
  PROVE  IInv'
<1> USE DEF IInv, SessionInv
<1>1. Top.ctx \in Contexts
  BY BelowType DEF Unwind, Frames
<1>2. "risk" \in Calls /\ "BAD_ARG" \in Statuses
  BY DEF Calls, ContextCalls, Statuses
<1>3. /\ err' \in [Contexts -> Messages] /\ answer' \in AnswerType
      /\ number' = NoNumber /\ DiagnosticIsOwn'
  BY <1>1, <1>2, RecordedCall DEF Unwind, DiagnosticIsOwn
<1>4. FramesTrue' /\ stack' \in Seq(Frames)
  BY StackPopped DEF Unwind, settingVars
<1>5. TypeOK'
  BY <1>3, <1>4 DEF TypeOK, Unwind, settingVars, AnswerType
<1>6. MirrorsTrue'
  BY DEF MirrorsTrue, Unwind, settingVars
<1>7. QED
  BY <1>3, <1>4, <1>5, <1>6 DEF NumbersAtOneSize

-----------------------------------------------------------------------------
(* The whole.                                                              *)

LEMMA NextInv ==
  ASSUME IInv, [Next]_vars
  PROVE  IInv'
<1> USE DEF IInv, SessionInv
<1>1. ASSUME NEW c \in Contexts, ContextStep(c)
      PROVE  IInv'
  <2>1. ASSUME NEW args \in Arguments,
               NewContext(c, args) \/ NewContextFails(c, args)
        PROVE  IInv'
    BY <2>1, NewContextInv, NewContextFailsInv
  <2>2. ASSUME NEW field \in Fields, NEW v \in Accepted(field) \cup {Refused},
               Assign(c, field, v) \/ SetInherited(c, field, v)
        PROVE  IInv'
    BY <2>2, AssignInv, SetInheritedInv
  <2>3. ASSUME NEW status \in {"OK", "BAD_ARG"}, SetSolver(c, status)
        PROVE  IInv'
    BY <2>3, SetSolverInv
  <2>4. QED
    BY <1>1, <2>1, <2>2, <2>3 DEF ContextStep
<1>2. ASSUME NEW b \in Bonds, BondStep(b)
      PROVE  IInv'
  <2>1. ASSUME NEW c \in Contexts, NEW status \in Statuses,
               BuildBond(b, c, status)
        PROVE  IInv'
    BY <2>1, BuildBondInv
  <2>2. ASSUME NEW status \in {"OK", "BAD_ARG", "NO_CONVERGENCE"},
               PriceBond(b, status)
        PROVE  IInv'
    BY <2>2, PriceBondInv
  <2>3. ASSUME bonds[b] # NoBond, NEW given \in Contexts \cup {NoBond},
               \/ RefuseRisk(b, RiskContext(b, given))
               \/ RiskOfNothing(b, RiskContext(b, given))
               \/ StartRisk(b, RiskContext(b, given))
        PROVE  IInv'
    <3>1. RiskContext(b, given) \in Contexts
      BY <2>3, RiskContextType
    <3>2. QED
      BY <2>3, <3>1, RefuseRiskInv, RiskOfNothingInv, StartRiskInv
  <2>4. QED
    BY <1>2, <2>1, <2>2, <2>3 DEF BondStep
<1>3. ASSUME NEW exception \in {"TypeError", "ValueError"},
             PythonRefuses(exception)
      PROVE  IInv'
  BY <1>3, PythonRefusesInv
<1>4. ASSUME CallbackStep
      PROVE  IInv'
  BY <1>4, ProceedInv, FinishInv, UnwindInv DEF CallbackStep
<1>5. CASE UNCHANGED vars
  BY <1>5 DEF vars, TypeOK, MirrorsTrue, FramesTrue, NumbersAtOneSize,
     DiagnosticIsOwn, Top
<1>6. QED
  BY <1>1, <1>2, <1>3, <1>4, <1>5 DEF Next

LEMMA Invariance == Spec => []IInv
<1>1. Init => IInv
  BY InitInv
<1>2. IInv /\ [Next]_vars => IInv'
  BY NextInv
<1>3. QED
  BY <1>1, <1>2, PTL DEF Spec

\* The settings a Python context shows, the calls in progress on it and the
\* numbers they return stay consistent through every sequence of assignments,
\* refusals, bonds and calls within calls.
THEOREM SessionInvariant == Spec => []SessionInv
<1>1. IInv => SessionInv
  BY DEF IInv
<1>2. QED
  BY <1>1, Invariance, PTL

\* Context.valuation_date and Context.bump_size never disagree with the
\* library, as long as the settings are changed through them.
THEOREM MirrorsStayTrue == Spec => []MirrorsTrue
<1>1. IInv => MirrorsTrue
  BY DEF IInv, SessionInv
<1>2. QED
  BY <1>1, Invariance, PTL

\* A risk number is made with one bump size, the one its context held when the
\* call was made, whatever its callbacks do to the context.
THEOREM NumbersAreAtOneSize == Spec => []NumbersAtOneSize
<1>1. IInv => NumbersAtOneSize
  BY DEF IInv, SessionInv
<1>2. QED
  BY <1>1, Invariance, PTL

\* An exception carries the message its own call recorded, however many calls
\* its callbacks made on the same context.
THEOREM DiagnosticsAreOwn == Spec => []DiagnosticIsOwn
<1>1. IInv => DiagnosticIsOwn
  BY DEF IInv
<1>2. QED
  BY <1>1, Invariance, PTL
=============================================================================
