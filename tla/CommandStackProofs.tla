------------------------- MODULE CommandStackProofs -------------------------
(***************************************************************************)
(* Proofs about CommandStack, for all commands, all numbers of control     *)
(* functions and all bounds.                                               *)
(***************************************************************************)
EXTENDS CommandStack, SequenceTheorems, TLAPS

-----------------------------------------------------------------------------
(***************************************************************************)
(* The three ways the call stack changes.                                  *)
(***************************************************************************)

\* A call adds one frame and leaves the others alone.
LEMMA PushFrame ==
  ASSUME jsStack \in Seq(Frames), NEW f \in Frames, Push(f)
  PROVE  /\ jsStack' \in Seq(Frames)
         /\ Len(jsStack') = Len(jsStack) + 1
         /\ jsStack'[Len(jsStack) + 1] = f
         /\ \A d \in 1 .. Len(jsStack) : jsStack'[d] = jsStack[d]
BY DEF Push

\* A step of the innermost frame replaces that frame and no other.
LEMMA StepFrame ==
  ASSUME jsStack \in Seq(Frames), jsStack # <<>>, NEW f \in Frames, SetTop(f)
  PROVE  /\ jsStack' \in Seq(Frames)
         /\ Len(jsStack') = Len(jsStack)
         /\ jsStack'[Len(jsStack)] = f
         /\ \A d \in 1 .. Len(jsStack) - 1 : jsStack'[d] = jsStack[d]
BY DEF SetTop

\* A return takes the innermost frame away.
LEMMA PopFrame ==
  ASSUME jsStack \in Seq(Frames), jsStack # <<>>, Pop
  PROVE  /\ jsStack' \in Seq(Frames)
         /\ Len(jsStack') = Len(jsStack) - 1
         /\ \A d \in 1 .. Len(jsStack) - 1 : jsStack'[d] = jsStack[d]
<1>1. /\ Len(jsStack) \in Nat \ {0}
      /\ 1 \in Int /\ Len(jsStack) - 1 \in Int
      /\ \A i \in 1 .. Len(jsStack) - 1 : jsStack[i] \in Frames
  OBVIOUS
<1>2. \A i \in 1 .. Len(jsStack) - 1 : 1 + i - 1 = i
  OBVIOUS
<1>. DEFINE n == Len(jsStack) - 1
<1>. HIDE DEF n
<1>3. /\ SubSeq(jsStack, 1, n) \in Seq(Frames)
      /\ Len(SubSeq(jsStack, 1, n)) = IF 1 <= n THEN n - 1 + 1 ELSE 0
      /\ \A i \in 1 .. n - 1 + 1 : SubSeq(jsStack, 1, n)[i] = jsStack[1 + i - 1]
  <2>1. n \in Int /\ \A i \in 1 .. n : jsStack[i] \in Frames
    BY <1>1 DEF n
  <2>2. QED
    BY <2>1, <1>1, SubSeqProperties
<1>4. n \in Nat /\ n - 1 + 1 = n
  BY <1>1 DEF n
<1>5. \A i \in 1 .. n : SubSeq(jsStack, 1, n)[i] = jsStack[i]
  BY <1>2, <1>3, <1>4 DEF n
<1>6. QED
  BY <1>3, <1>4, <1>5 DEF Pop, n

\* The innermost frame is a frame.
LEMMA TopIsFrame ==
  ASSUME jsStack \in Seq(Frames), jsStack # <<>>
  PROVE  /\ Len(jsStack) \in Nat \ {0}
         /\ Top \in Frames
BY DEF Top

\* What requestHandler and dispatchToECF put on the call stack is a frame.
LEMMA NewFrameIsFrame ==
  ASSUME NEW c \in Cmds, NEW pc \in RequestPcs \cup ErrorPcs,
         NEW k \in Keys \cup {NoKey}, NEW b \in BOOLEAN,
         handler \in {"engine", "stub"}
  PROVE  NewFrame(c, pc, k, b) \in Frames
BY DEF NewFrame, Frames, Generators, Undefined

\* The generators the engine installs.
LEMMA GeneratorTypes ==
  /\ Undefined \in Generators
  /\ Spent \in Generators
  /\ \A k \in Keys \cup {NoKey} : OneShot(k) \in Generators
BY DEF Undefined, Spent, OneShot, Generators

-----------------------------------------------------------------------------
(***************************************************************************)
(* What a change of the call stack does to the frames of requestHandler.   *)
(* OneStackAtATime makes every case simple: such a frame is the only one.  *)
(***************************************************************************)

\* A step of requestHandler itself.
LEMMA RequestStep ==
  ASSUME TypeOK, OneStackAtATime, jsStack # <<>>, IsRequest(Top),
         NEW f \in Frames, IsRequest(f), SetTop(f)
  PROVE  /\ jsStack' \in Seq(Frames)
         /\ RequestDepths = {Len(jsStack)}
         /\ RequestDepths' = {Len(jsStack)}
         /\ jsStack'[Len(jsStack)] = f
<1>1. Len(jsStack) \in Nat \ {0}
  BY TopIsFrame DEF TypeOK
<1>2. RequestDepths = {Len(jsStack)}
  BY <1>1 DEF OneStackAtATime, RequestDepths, Depths, Top
<1>3. /\ jsStack' \in Seq(Frames)
      /\ Len(jsStack') = Len(jsStack)
      /\ jsStack'[Len(jsStack)] = f
      /\ \A d \in 1 .. Len(jsStack) - 1 : jsStack'[d] = jsStack[d]
  BY StepFrame DEF TypeOK
<1>4. RequestDepths' = {Len(jsStack)}
  BY <1>1, <1>2, <1>3 DEF RequestDepths, Depths, IsRequest
<1>5. QED
  BY <1>2, <1>3, <1>4

\* requestHandler returns, or a ValCF throws out of it.
LEMMA RequestPop ==
  ASSUME TypeOK, OneStackAtATime, jsStack # <<>>, IsRequest(Top), Pop
  PROVE  /\ jsStack' \in Seq(Frames)
         /\ RequestDepths = {Len(jsStack)}
         /\ RequestDepths' = {}
<1>1. Len(jsStack) \in Nat \ {0}
  BY TopIsFrame DEF TypeOK
<1>2. RequestDepths = {Len(jsStack)}
  BY <1>1 DEF OneStackAtATime, RequestDepths, Depths, Top
<1>3. /\ jsStack' \in Seq(Frames)
      /\ Len(jsStack') = Len(jsStack) - 1
      /\ \A d \in 1 .. Len(jsStack) - 1 : jsStack'[d] = jsStack[d]
  BY PopFrame DEF TypeOK
<1>4. RequestDepths' = {}
  BY <1>1, <1>2, <1>3 DEF RequestDepths, Depths, IsRequest
<1>5. QED
  BY <1>2, <1>3, <1>4

\* requestHandler is entered while no other frame of it is on the call stack.
LEMMA RequestPush ==
  ASSUME TypeOK, RequestDepths = {}, NEW f \in Frames, IsRequest(f), Push(f)
  PROVE  /\ jsStack' \in Seq(Frames)
         /\ RequestDepths' = {Len(jsStack) + 1}
         /\ jsStack'[Len(jsStack) + 1] = f
<1>1. /\ jsStack' \in Seq(Frames)
      /\ Len(jsStack') = Len(jsStack) + 1
      /\ jsStack'[Len(jsStack) + 1] = f
      /\ \A d \in 1 .. Len(jsStack) : jsStack'[d] = jsStack[d]
  BY PushFrame DEF TypeOK
<1>2. Len(jsStack) \in Nat
  BY DEF TypeOK
<1>3. RequestDepths' = {Len(jsStack) + 1}
  BY <1>1, <1>2 DEF RequestDepths, Depths, IsRequest
<1>4. QED
  BY <1>1, <1>3

\* The frames of requestHandler are the same after the step as before it.
SameRequests ==
  /\ jsStack' \in Seq(Frames)
  /\ RequestDepths' = RequestDepths
  /\ \A d \in RequestDepths : jsStack'[d] = jsStack[d]

\* dispatchToECF comes, steps and goes without touching them.
LEMMA ErrorPush ==
  ASSUME TypeOK, NEW f \in Frames, ~IsRequest(f), Push(f)
  PROVE  SameRequests
<1>1. /\ jsStack' \in Seq(Frames)
      /\ Len(jsStack') = Len(jsStack) + 1
      /\ jsStack'[Len(jsStack) + 1] = f
      /\ \A d \in 1 .. Len(jsStack) : jsStack'[d] = jsStack[d]
  BY PushFrame DEF TypeOK
<1>2. Len(jsStack) \in Nat
  BY DEF TypeOK
<1>3. QED
  BY <1>1, <1>2 DEF SameRequests, RequestDepths, Depths, IsRequest

LEMMA ErrorStep ==
  ASSUME TypeOK, jsStack # <<>>, ~IsRequest(Top),
         NEW f \in Frames, ~IsRequest(f), SetTop(f)
  PROVE  SameRequests
<1>1. Len(jsStack) \in Nat \ {0}
  BY TopIsFrame DEF TypeOK
<1>2. /\ jsStack' \in Seq(Frames)
      /\ Len(jsStack') = Len(jsStack)
      /\ jsStack'[Len(jsStack)] = f
      /\ \A d \in 1 .. Len(jsStack) - 1 : jsStack'[d] = jsStack[d]
  BY StepFrame DEF TypeOK
<1>3. QED
  BY <1>1, <1>2 DEF SameRequests, RequestDepths, Depths, IsRequest, Top

LEMMA ErrorPop ==
  ASSUME TypeOK, jsStack # <<>>, ~IsRequest(Top), Pop
  PROVE  SameRequests
<1>1. Len(jsStack) \in Nat \ {0}
  BY TopIsFrame DEF TypeOK
<1>2. /\ jsStack' \in Seq(Frames)
      /\ Len(jsStack') = Len(jsStack) - 1
      /\ \A d \in 1 .. Len(jsStack) - 1 : jsStack'[d] = jsStack[d]
  BY PopFrame DEF TypeOK
<1>3. QED
  BY <1>1, <1>2 DEF SameRequests, RequestDepths, Depths, IsRequest, Top

-----------------------------------------------------------------------------
(***************************************************************************)
(* The invariant.  Most steps leave the execution objects alone; the two   *)
(* lemmas below do the common part of their proofs.                        *)
(***************************************************************************)
SameObjects ==
  UNCHANGED <<handler, execState, execCmd, numCalled, execCount, log, poisoned, exited>>

OtherTypes ==
  /\ gen \in Generators
  /\ globalKey \in BOOLEAN
  /\ inFlight \in [Keys -> Nat]
  /\ taken \in Nat

LEMMA QuietStep ==
  ASSUME IInv, SameRequests, SameObjects, OtherTypes'
  PROVE  IInv'
<1> USE DEF SameRequests, SameObjects, OtherTypes
<1>1. TypeOK'
  BY DEF IInv, TypeOK
<1>2. OneStackAtATime'
  BY DEF IInv, OneStackAtATime
<1>3. HandlerInv'
  BY DEF IInv, HandlerInv
<1>4. ObjectsInv'
  BY DEF IInv, ObjectsInv
<1>5. FramesInv'
  BY DEF IInv, FramesInv, FrameInv
<1>6. QED
  BY <1>1, <1>2, <1>3, <1>4, <1>5 DEF IInv

LEMMA MoveStep ==
  ASSUME IInv, jsStack # <<>>, IsRequest(Top),
         NEW f \in Frames, IsRequest(f), f.saved = Top.saved, SetTop(f), FrameInv(f),
         SameObjects, OtherTypes'
  PROVE  IInv'
<1> USE DEF SameObjects, OtherTypes
<1> DEFINE D == Len(jsStack)
<1>1. /\ jsStack' \in Seq(Frames)
      /\ RequestDepths = {D}
      /\ RequestDepths' = {D}
      /\ jsStack'[D] = f
  BY RequestStep DEF IInv
<1>2. TypeOK'
  BY <1>1 DEF IInv, TypeOK
<1>3. OneStackAtATime'
  BY <1>1 DEF OneStackAtATime
<1>4. HandlerInv'
  BY <1>1 DEF IInv, HandlerInv, Top
<1>5. ObjectsInv'
  BY DEF IInv, ObjectsInv
<1>6. FramesInv'
  BY <1>1 DEF FramesInv, FrameInv
<1>7. QED
  BY <1>2, <1>3, <1>4, <1>5, <1>6 DEF IInv

\* A step that leaves the call stack alone.
LEMMA NoFrameStep ==
  ASSUME TypeOK, UNCHANGED jsStack
  PROVE  SameRequests
BY DEF TypeOK, SameRequests, RequestDepths, Depths, IsRequest

LEMMA InitIInv == Init => IInv
<1> SUFFICES ASSUME Init PROVE IInv
  OBVIOUS
<1>1. RequestDepths = {}
  BY DEF Init, RequestDepths, Depths
<1>2. TypeOK
  <2>1. jsStack \in Seq(Frames) /\ gen \in Generators
    BY GeneratorTypes DEF Init
  <2>2. /\ execState \in [Keys -> {"absent", "live", "null"}]
        /\ execCmd \in [Keys -> Cmds \cup {NoCmd}]
        /\ numCalled \in [Keys -> Nat]
        /\ inFlight \in [Keys -> Nat]
    BY DEF Init
  <2>3. log \in [Keys -> Seq(Nat \ {0})]
    <3>1. <<>> \in Seq(Nat \ {0})
      OBVIOUS
    <3>2. QED
      BY <3>1 DEF Init
  <2>4. execCount \in 0 .. MaxExecs
    BY ConstantsAssumption DEF Init
  <2>5. QED
    BY <2>1, <2>2, <2>3, <2>4 DEF Init, TypeOK
<1>3. ObjectsInv
  BY ConstantsAssumption DEF Init, ObjectsInv, Keys
<1>4. OneStackAtATime /\ HandlerInv /\ FramesInv
  BY <1>1 DEF Init, OneStackAtATime, HandlerInv, FramesInv
<1>5. QED
  BY <1>2, <1>3, <1>4 DEF IInv

\* requestHandler is entered, for a new stack or for a suspended one.
LEMMA EnterIInv ==
  ASSUME IInv, NEW c \in Cmds, NEW pc \in {"val", "dispatch"},
         NEW k \in Keys \cup {NoKey}, NEW b \in BOOLEAN,
         handler = "engine", EnterHandler(c, pc, k, b),
         FrameInv(NewFrame(c, pc, k, b)),
         UNCHANGED <<gen, execState, execCmd, numCalled, execCount, log, poisoned, exited>>,
         OtherTypes'
  PROVE  IInv'
<1> USE DEF OtherTypes
<1> DEFINE f == NewFrame(c, pc, k, b)
           D == Len(jsStack) + 1
<1>1. f \in Frames /\ IsRequest(f) /\ f.saved = "engine"
  BY NewFrameIsFrame DEF IInv, TypeOK, RequestPcs, ValPcs, IsRequest, NewFrame
<1>2. RequestDepths = {}
  BY DEF IInv, HandlerInv
<1>3. /\ jsStack' \in Seq(Frames)
      /\ RequestDepths' = {D}
      /\ jsStack'[D] = f
  BY <1>1, <1>2, RequestPush DEF IInv, EnterHandler
<1>4. TypeOK'
  BY <1>3 DEF IInv, TypeOK, EnterHandler
<1>5. OneStackAtATime' /\ HandlerInv'
  BY <1>1, <1>3 DEF OneStackAtATime, HandlerInv, EnterHandler
<1>6. ObjectsInv'
  BY DEF IInv, ObjectsInv
<1>7. FramesInv'
  BY <1>3 DEF FramesInv, FrameInv
<1>8. QED
  BY <1>4, <1>5, <1>6, <1>7 DEF IInv

LEMMA ApplicationIInv == IInv /\ Application => IInv'
<1> SUFFICES ASSUME IInv, Application PROVE IInv'
  OBVIOUS
<1>. USE DEF OtherTypes
<1>1. ASSUME NEW c \in Cmds, HandleRequest(c) PROVE IInv'
  <2>1. FrameInv(NewFrame(c, "val", NoKey, FALSE))
    BY DEF FrameInv, NewFrame, ValPcs, DataPcs, ViewPcs
  <2>2. NoKey \in Keys \cup {NoKey} /\ FALSE \in BOOLEAN
    OBVIOUS
  <2>3. QED
    BY <1>1, <2>1, <2>2, EnterIInv DEF HandleRequest, IInv, TypeOK, historyVars
<1>2. ASSUME NEW c \in Cmds, RefuseRequest(c) PROVE IInv'
  <2>1. SameRequests
    BY <1>2, NoFrameStep DEF IInv, RefuseRequest, vars
  <2>2. QED
    BY <1>2, <2>1, QuietStep
       DEF RefuseRequest, vars, engineVars, historyVars, SameObjects, IInv, TypeOK
<1>3. ASSUME NEW c \in Cmds, HandleError(c) PROVE IInv'
  <2>1. /\ NewFrame(c, "ecf", NoKey, FALSE) \in Frames
        /\ ~IsRequest(NewFrame(c, "ecf", NoKey, FALSE))
    BY NewFrameIsFrame
       DEF IInv, TypeOK, ErrorPcs, IsRequest, RequestPcs, ValPcs, DataPcs, ViewPcs, NewFrame
  <2>2. SameRequests
    BY <1>3, <2>1, ErrorPush DEF IInv, HandleError
  <2>3. QED
    BY <1>3, <2>2, QuietStep
       DEF HandleError, engineVars, historyVars, SameObjects, IInv, TypeOK
<1>4. CASE MakeCall
  <2>1. SameRequests
    BY <1>4, NoFrameStep DEF IInv, MakeCall
  <2>2. gen' \in Generators
    BY <1>4, GeneratorTypes DEF MakeCall
  <2>3. inFlight' \in [Keys -> Nat]
    <3>1. inFlight \in [Keys -> Nat]
      BY DEF IInv, TypeOK
    <3>2. inFlight' = [inFlight EXCEPT ![gen.key] = inFlight[gen.key] + 1]
      BY <1>4 DEF MakeCall
    <3>3. CASE gen.key \in Keys
      BY <3>1, <3>2, <3>3
    <3>4. CASE gen.key \notin Keys
      BY <3>1, <3>2, <3>4
    <3>5. QED
      BY <3>3, <3>4
  <2>4. taken' \in Nat
    BY <1>4 DEF MakeCall, IInv, TypeOK
  <2>5. globalKey' \in BOOLEAN
    BY <1>4 DEF MakeCall, IInv, TypeOK
  <2>6. QED
    BY <1>4, <2>1, <2>2, <2>3, <2>4, <2>5, QuietStep DEF MakeCall, SameObjects
<1>5. CASE AssignGlobalKey
  <2>1. SameRequests
    BY <1>5, NoFrameStep DEF IInv, AssignGlobalKey
  <2>2. QED
    BY <1>5, <2>1, QuietStep
       DEF AssignGlobalKey, engineVars, historyVars, SameObjects, IInv, TypeOK
<1>6. QED
  BY <1>1, <1>2, <1>3, <1>4, <1>5 DEF Application

-----------------------------------------------------------------------------
(***************************************************************************)
(* Answers.                                                                *)
(***************************************************************************)

\* The count of unanswered calls stays a count.
LEMMA AnsweredTypes ==
  ASSUME TypeOK, NEW k \in Keys, NEW last \in BOOLEAN, Answered(k, last)
  PROVE  inFlight' \in [Keys -> Nat]
<1>1. inFlight[k] \in Nat \ {0}
  BY DEF TypeOK, Answered
<1>2. inFlight[k] - 1 \in Nat
  BY <1>1
<1>3. CASE last
  BY <1>2, <1>3 DEF TypeOK, Answered
<1>4. CASE ~last
  BY <1>4 DEF TypeOK, Answered
<1>5. QED
  BY <1>3, <1>4

LEMMA AnswersIInv == IInv /\ NativeAnswers => IInv'
<1> SUFFICES ASSUME IInv, NativeAnswers PROVE IInv'
  OBVIOUS
<1> USE DEF OtherTypes
<1>1. ASSUME NEW k \in Keys, NEW last \in BOOLEAN, Complete(k, last) PROVE IInv'
  <2>1. inFlight' \in [Keys -> Nat]
    BY <1>1, AnsweredTypes DEF IInv, Complete
  <2>2. execCmd[k] \in Cmds
    BY <1>1 DEF Complete, IInv, ObjectsInv
  <2>3. FrameInv(NewFrame(execCmd[k], "dispatch", k, TRUE))
    BY <1>1 DEF Complete, FrameInv, NewFrame, ValPcs, DataPcs, ViewPcs
  <2>4. UNCHANGED <<gen, execState, execCmd, numCalled, execCount, log, poisoned, exited>>
    BY <1>1 DEF Complete, historyVars
  <2>5. /\ handler = "engine"
        /\ EnterHandler(execCmd[k], "dispatch", k, TRUE)
    BY <1>1 DEF Complete
  <2>6. OtherTypes'
    BY <1>1, <2>1 DEF Complete, IInv, TypeOK, historyVars
  <2>7. "dispatch" \in {"val", "dispatch"} /\ k \in Keys \cup {NoKey} /\ TRUE \in BOOLEAN
    OBVIOUS
  <2>8. QED
    BY <2>2, <2>3, <2>4, <2>5, <2>6, <2>7, EnterIInv
<1>2. ASSUME NEW k \in Keys, DropAnswer(k) PROVE IInv'
  <2>1. inFlight' \in [Keys -> Nat]
    BY <1>2, AnsweredTypes DEF IInv, DropAnswer
  <2>2. SameRequests
    BY <1>2, NoFrameStep DEF IInv, DropAnswer
  <2>3. QED
    BY <1>2, <2>1, <2>2, QuietStep
       DEF DropAnswer, engineVars, historyVars, SameObjects, IInv, TypeOK
<1>3. QED
  BY <1>1, <1>2 DEF NativeAnswers

-----------------------------------------------------------------------------
(***************************************************************************)
(* Steps of requestHandler that change neither the execution objects nor   *)
(* the handler: each moves the frame on to one that satisfies FrameInv.    *)
(***************************************************************************)

\* The numbers of control functions are numbers.
LEMMA FunctionCounts ==
  ASSUME NEW c \in Cmds
  PROVE  /\ NumValCFs[c] \in Nat
         /\ NumDCFs[c] \in Nat
         /\ NumVCFs[c] \in Nat
         /\ NumECFs[c] \in Nat
BY ConstantsAssumption

\* The fields of the innermost frame.
LEMMA TopFields ==
  ASSUME TypeOK, jsStack # <<>>
  PROVE  /\ Top \in Frames
         /\ Top.cmd \in Cmds
         /\ Top.i \in Nat
         /\ Top.i + 1 \in Nat
         /\ Top.key \in Keys \cup {NoKey}
         /\ Top.resumed \in BOOLEAN
         /\ Top.saved \in {"engine", "stub"}
         /\ Top.cached \in Generators
         /\ Top.local \in Generators
<1>1. Top \in Frames
  BY TopIsFrame DEF TypeOK
<1>2. QED
  BY <1>1 DEF Frames

\* The innermost frame, when it is one of requestHandler, keeps the invariant.
LEMMA TopFrameInv ==
  ASSUME IInv, jsStack # <<>>, IsRequest(Top)
  PROVE  FrameInv(Top)
<1>1. Len(jsStack) \in Nat \ {0}
  BY TopIsFrame DEF IInv, TypeOK
<1>2. Len(jsStack) \in RequestDepths
  BY <1>1 DEF RequestDepths, Depths, Top
<1>3. QED
  BY <1>2 DEF IInv, FramesInv, Top

\* Such a step when it changes nothing but the frame.
LEMMA PlainMove ==
  ASSUME IInv, jsStack # <<>>, IsRequest(Top),
         NEW f \in Frames, IsRequest(f), f.saved = Top.saved, SetTop(f), FrameInv(f),
         UNCHANGED <<engineVars, globalKey, inFlight, historyVars>>
  PROVE  IInv'
BY MoveStep DEF IInv, TypeOK, SameObjects, OtherTypes, engineVars, historyVars

LEMMA ValCFIInv ==
  ASSUME IInv, CallValCF \/ EndValidation \/ ValCFReturns
  PROVE  IInv'
<1> USE DEF RequestPcs, ValPcs, DataPcs, ViewPcs, ErrorPcs, IsRequest
<1>1. /\ jsStack # <<>> /\ Top.pc \in ValPcs
      /\ UNCHANGED <<engineVars, globalKey, inFlight, historyVars>>
  BY DEF CallValCF, EndValidation, ValCFReturns, At
<1>2. Top \in Frames /\ Top.i + 1 \in Nat /\ FrameInv(Top)
  BY <1>1, TopFields, TopFrameInv DEF IInv
<1>3. ASSUME NEW pc \in {"inVal", "dispatch", "done"}, SetTop([Top EXCEPT !.pc = pc])
      PROVE  IInv'
  <2> DEFINE f == [Top EXCEPT !.pc = pc]
  <2>1. f \in Frames /\ IsRequest(f) /\ f.saved = Top.saved /\ f.pc = pc
        /\ f.resumed = Top.resumed /\ f.key = Top.key
    BY <1>2 DEF Frames
  <2>2. FrameInv(f)
    BY <1>1, <1>2, <2>1 DEF FrameInv
  <2>3. QED
    BY <1>1, <1>3, <2>1, <2>2, PlainMove
<1>4. ASSUME SetTop([Top EXCEPT !.pc = "val", !.i = @ + 1])
      PROVE  IInv'
  <2> DEFINE f == [Top EXCEPT !.pc = "val", !.i = @ + 1]
  <2>1. f \in Frames /\ IsRequest(f) /\ f.saved = Top.saved /\ f.pc = "val"
        /\ f.resumed = Top.resumed /\ f.key = Top.key
    BY <1>2 DEF Frames
  <2>2. FrameInv(f)
    BY <1>1, <1>2, <2>1 DEF FrameInv
  <2>3. QED
    BY <1>1, <1>4, <2>1, <2>2, PlainMove
<1>5. QED
  BY <1>3, <1>4 DEF CallValCF, EndValidation, ValCFReturns

LEMMA VCFIInv ==
  ASSUME IInv, CallVCF \/ EndVCFs \/ VCFReturns
  PROVE  IInv'
<1> USE DEF RequestPcs, ValPcs, DataPcs, ViewPcs, ErrorPcs, IsRequest
<1>1. /\ jsStack # <<>> /\ Top.pc \in ViewPcs
      /\ UNCHANGED <<engineVars, globalKey, inFlight, historyVars>>
  BY DEF CallVCF, EndVCFs, VCFReturns, At
<1>2. Top \in Frames /\ Top.i + 1 \in Nat /\ FrameInv(Top)
  BY <1>1, TopFields, TopFrameInv DEF IInv
<1>3. ASSUME NEW pc \in {"inVCF", "done"}, SetTop([Top EXCEPT !.pc = pc])
      PROVE  IInv'
  <2> DEFINE f == [Top EXCEPT !.pc = pc]
  <2>1. f \in Frames /\ IsRequest(f) /\ f.saved = Top.saved /\ f.pc = pc
        /\ f.key = Top.key /\ f.cmd = Top.cmd
    BY <1>2 DEF Frames
  <2>2. FrameInv(f)
    BY <1>1, <1>2, <2>1 DEF FrameInv
  <2>3. QED
    BY <1>1, <1>3, <2>1, <2>2, PlainMove
<1>4. ASSUME SetTop([Top EXCEPT !.pc = "vcf", !.i = @ + 1])
      PROVE  IInv'
  <2> DEFINE f == [Top EXCEPT !.pc = "vcf", !.i = @ + 1]
  <2>1. f \in Frames /\ IsRequest(f) /\ f.saved = Top.saved /\ f.pc = "vcf"
        /\ f.key = Top.key /\ f.cmd = Top.cmd
    BY <1>2 DEF Frames
  <2>2. FrameInv(f)
    BY <1>1, <1>2, <2>1 DEF FrameInv
  <2>3. QED
    BY <1>1, <1>4, <2>1, <2>2, PlainMove
<1>5. QED
  BY <1>3, <1>4 DEF CallVCF, EndVCFs, VCFReturns

-----------------------------------------------------------------------------
(***************************************************************************)
(* dispatchToDCF.                                                          *)
(***************************************************************************)
LEMMA DCFReturnsIInv == IInv /\ DCFReturns => IInv'
<1> SUFFICES ASSUME IInv, DCFReturns PROVE IInv'
  OBVIOUS
<1> USE DEF RequestPcs, ValPcs, DataPcs, ViewPcs, ErrorPcs, IsRequest
<1> DEFINE f == [Top EXCEPT !.pc = "dcf", !.i = @ + 1]
<1>1. jsStack # <<>> /\ Top.pc = "inDCF" /\ SetTop(f)
  BY DEF DCFReturns, At
<1>2. /\ Top \in Frames /\ Top.i + 1 \in Nat /\ Top.local \in Generators
      /\ FrameInv(Top)
  BY <1>1, TopFields, TopFrameInv DEF IInv
<1>3. /\ f \in Frames /\ f.saved = Top.saved /\ f.pc = "dcf"
      /\ f.key = Top.key /\ f.cmd = Top.cmd /\ f.i = Top.i + 1
  BY <1>2 DEF Frames
<1>4. FrameInv(f)
  BY <1>1, <1>2, <1>3 DEF FrameInv
<1>5. OtherTypes' /\ SameObjects
  BY <1>2 DEF DCFReturns, IInv, TypeOK, OtherTypes, SameObjects, historyVars
<1>6. QED
  BY <1>1, <1>3, <1>4, <1>5, MoveStep

LEMMA EndDCFsIInv == IInv /\ EndDCFs => IInv'
<1> SUFFICES ASSUME IInv, EndDCFs PROVE IInv'
  OBVIOUS
<1> USE DEF RequestPcs, ValPcs, DataPcs, ViewPcs, ErrorPcs, IsRequest
<1> DEFINE f == [Top EXCEPT !.pc = "vcf", !.i = 0]
<1>1. jsStack # <<>> /\ Top.pc = "dcf" /\ SetTop(f)
  BY DEF EndDCFs, At
<1>2. /\ Top \in Frames /\ Top.i \in Nat /\ Top.cached \in Generators
      /\ FrameInv(Top)
  BY <1>1, TopFields, TopFrameInv DEF IInv
<1>3. /\ f \in Frames /\ f.saved = Top.saved /\ f.pc = "vcf"
      /\ f.key = Top.key /\ f.cmd = Top.cmd
  BY <1>2 DEF Frames
<1>4. /\ Top.key \in Keys /\ execState[Top.key] = "live"
      /\ execCmd[Top.key] = Top.cmd /\ Top.i = numCalled[Top.key]
  BY <1>1, <1>2 DEF FrameInv
<1>5. numCalled[Top.key] <= NumDCFs[Top.cmd]
  BY <1>4 DEF IInv, ObjectsInv
<1>6. numCalled[Top.key] >= NumDCFs[Top.cmd]
  BY <1>4 DEF EndDCFs
<1>7. numCalled[Top.key] = NumDCFs[Top.cmd]
  <2>1. NumDCFs[Top.cmd] \in Nat
    BY <1>1, TopFields, FunctionCounts DEF IInv
  <2>2. QED
    BY <1>2, <1>4, <1>5, <1>6, <2>1
<1>8. FrameInv(f)
  BY <1>3, <1>4, <1>7 DEF FrameInv
<1>9. OtherTypes' /\ SameObjects
  BY <1>2 DEF EndDCFs, IInv, TypeOK, OtherTypes, SameObjects, historyVars
<1>10. QED
  BY <1>1, <1>3, <1>8, <1>9, MoveStep

LEMMA DCFWaitsIInv == IInv /\ DCFWaitsOrThrows => IInv'
<1> SUFFICES ASSUME IInv, DCFWaitsOrThrows PROVE IInv'
  OBVIOUS
<1> USE DEF RequestPcs, ValPcs, DataPcs, ViewPcs, ErrorPcs, IsRequest
<1> DEFINE f == [Top EXCEPT !.pc = "done"]
<1>1. jsStack # <<>> /\ Top.pc = "inDCF" /\ SetTop(f)
  BY DEF DCFWaitsOrThrows, At
<1>2. Top \in Frames
  BY <1>1, TopFields DEF IInv
<1>3. f \in Frames /\ f.saved = Top.saved /\ f.pc = "done"
  BY <1>2 DEF Frames
<1>4. FrameInv(f)
  BY <1>3 DEF FrameInv
<1>5. QED
  BY <1>1, <1>3, <1>4, PlainMove DEF DCFWaitsOrThrows

\* Calling the next DCF: numFuncsCalled and the history grow together.
LEMMA CallDCFIInv == IInv /\ CallDCF => IInv'
<1> SUFFICES ASSUME IInv, CallDCF PROVE IInv'
  OBVIOUS
<1> USE DEF RequestPcs, ValPcs, DataPcs, ViewPcs, ErrorPcs, IsRequest
<1> DEFINE f == [Top EXCEPT !.pc = "inDCF", !.local = gen]
           D == Len(jsStack)
           k == Top.key
<1>1. jsStack # <<>> /\ Top.pc = "dcf" /\ SetTop(f) /\ Top.i < NumDCFs[Top.cmd]
  BY DEF CallDCF, At
<1>2. /\ Top \in Frames /\ Top.i \in Nat /\ FrameInv(Top) /\ Top.cmd \in Cmds
  BY <1>1, TopFields, TopFrameInv DEF IInv
<1>3. gen \in Generators
  BY DEF IInv, TypeOK
<1>4. /\ f \in Frames /\ IsRequest(f) /\ f.saved = Top.saved /\ f.pc = "inDCF"
      /\ f.key = k /\ f.cmd = Top.cmd /\ f.i = Top.i
  BY <1>2, <1>3 DEF Frames
<1>5. /\ k \in Keys /\ execState[k] = "live"
      /\ execCmd[k] = Top.cmd /\ Top.i = numCalled[k]
  BY <1>1, <1>2 DEF FrameInv
<1>6. /\ jsStack' \in Seq(Frames)
      /\ RequestDepths = {D}
      /\ RequestDepths' = {D}
      /\ jsStack'[D] = f
  BY <1>1, <1>4, RequestStep DEF IInv
<1>7. /\ numCalled' = [numCalled EXCEPT ![k] = numCalled[k] + 1]
      /\ log' = [log EXCEPT ![k] = Append(log[k], Top.i + 1)]
      /\ taken' = 0
      /\ UNCHANGED <<handler, gen, execState, execCmd, execCount, globalKey,
                     inFlight, poisoned, exited>>
  BY DEF CallDCF
<1>8. /\ numCalled \in [Keys -> Nat]
      /\ log \in [Keys -> Seq(Nat \ {0})]
      /\ log[k] = [n \in 1 .. numCalled[k] |-> n]
      /\ log[k] \in Seq(Nat \ {0})
      /\ numCalled[k] \in Nat
  BY <1>5 DEF IInv, TypeOK, ObjectsInv
<1>9. Append(log[k], Top.i + 1) = [n \in 1 .. numCalled[k] + 1 |-> n]
  <2>1. Len(log[k]) = numCalled[k]
    BY <1>8
  <2>2. Append(log[k], Top.i + 1)
          = [n \in 1 .. numCalled[k] + 1 |->
               IF n = numCalled[k] + 1 THEN Top.i + 1 ELSE log[k][n]]
    BY <1>8, <2>1
  <2>3. \A n \in 1 .. numCalled[k] + 1 :
          (IF n = numCalled[k] + 1 THEN Top.i + 1 ELSE log[k][n]) = n
    BY <1>5, <1>8
  <2>4. QED
    BY <2>2, <2>3
<1>10. TypeOK'
  <2>1. numCalled' \in [Keys -> Nat]
    <3>1. numCalled[k] + 1 \in Nat
      BY <1>8
    <3>2. QED
      BY <1>7, <1>8, <3>1
  <2>2. Append(log[k], Top.i + 1) \in Seq(Nat \ {0})
    <3>1. Top.i + 1 \in Nat \ {0}
      BY <1>2
    <3>2. QED
      BY <1>8, <3>1, AppendProperties
  <2>3. log' \in [Keys -> Seq(Nat \ {0})]
    BY <1>7, <1>8, <2>2
  <2>4. QED
    BY <1>6, <1>7, <2>1, <2>3 DEF IInv, TypeOK
<1>11. OneStackAtATime'
  BY <1>6 DEF OneStackAtATime
<1>12. HandlerInv'
  BY <1>4, <1>6, <1>7 DEF IInv, HandlerInv, Top
<1>13. ObjectsInv'
  <2> SUFFICES ASSUME NEW j \in Keys
               PROVE  /\ log'[j] = [n \in 1 .. numCalled'[j] |-> n]
                      /\ execState'[j] = "absent" <=> j > execCount'
                      /\ execState'[j] = "absent" => numCalled'[j] = 0
                      /\ execState'[j] # "absent" =>
                            /\ execCmd'[j] \in Cmds
                            /\ numCalled'[j] <= NumDCFs[execCmd'[j]]
                      /\ j \in exited' => execState'[j] = "null"
    BY DEF ObjectsInv
  <2>1. CASE j = k
    <3>1. numCalled'[k] = numCalled[k] + 1
      BY <1>5, <1>7, <1>8
    <3>2. log'[k] = [n \in 1 .. numCalled[k] + 1 |-> n]
      BY <1>5, <1>7, <1>8, <1>9
    <3>3. numCalled[k] + 1 <= NumDCFs[execCmd[k]]
      <4>1. NumDCFs[Top.cmd] \in Nat
        BY <1>2, FunctionCounts
      <4>2. QED
        BY <1>1, <1>2, <1>5, <4>1
    <3>4. QED
      BY <1>5, <1>7, <2>1, <3>1, <3>2, <3>3 DEF IInv, ObjectsInv
  <2>2. CASE j # k
    <3>1. numCalled'[j] = numCalled[j] /\ log'[j] = log[j]
      BY <1>7, <1>8, <2>2
    <3>2. QED
      BY <1>7, <3>1 DEF IInv, ObjectsInv
  <2>3. QED
    BY <2>1, <2>2
<1>14. FramesInv'
  <2>1. /\ f.i + 1 = numCalled'[f.key]
        /\ execState' = execState /\ execCmd' = execCmd
    BY <1>4, <1>5, <1>7, <1>8
  <2>2. QED
    BY <1>4, <1>5, <1>6, <2>1 DEF FramesInv, FrameInv
<1>15. QED
  BY <1>10, <1>11, <1>12, <1>13, <1>14 DEF IInv

\* STACK_EXIT: the execution object becomes null.
LEMMA DCFExitsIInv == IInv /\ DCFExits => IInv'
<1> SUFFICES ASSUME IInv, DCFExits PROVE IInv'
  OBVIOUS
<1> USE DEF RequestPcs, ValPcs, DataPcs, ViewPcs, ErrorPcs, IsRequest
<1> DEFINE f == [Top EXCEPT !.pc = "done"]
           D == Len(jsStack)
           k == Top.key
<1>1. /\ jsStack # <<>> /\ Top.pc = "inDCF" /\ SetTop(f)
      /\ execState' = [execState EXCEPT ![k] = "null"]
      /\ exited' = exited \cup {k}
      /\ UNCHANGED <<handler, gen, execCmd, numCalled, execCount, globalKey,
                     inFlight, log, poisoned, taken>>
  BY DEF DCFExits, At
<1>2. Top \in Frames /\ FrameInv(Top)
  BY <1>1, TopFields, TopFrameInv DEF IInv
<1>3. f \in Frames /\ IsRequest(f) /\ f.saved = Top.saved /\ f.pc = "done"
  BY <1>2 DEF Frames
<1>4. k \in Keys /\ execState[k] = "live"
  BY <1>1, <1>2 DEF FrameInv
<1>5. /\ jsStack' \in Seq(Frames)
      /\ RequestDepths = {D}
      /\ RequestDepths' = {D}
      /\ jsStack'[D] = f
  BY <1>1, <1>3, RequestStep DEF IInv
<1>6. TypeOK'
  BY <1>1, <1>4, <1>5 DEF IInv, TypeOK
<1>7. OneStackAtATime'
  BY <1>5 DEF OneStackAtATime
<1>8. HandlerInv'
  BY <1>1, <1>3, <1>5 DEF IInv, HandlerInv, Top
<1>9. ObjectsInv'
  BY <1>1, <1>4 DEF IInv, TypeOK, ObjectsInv
<1>10. FramesInv'
  BY <1>3, <1>5 DEF FramesInv, FrameInv
<1>11. QED
  BY <1>6, <1>7, <1>8, <1>9, <1>10 DEF IInv

-----------------------------------------------------------------------------
(***************************************************************************)
(* The prologue of dispatchToDCF.                                          *)
(***************************************************************************)
\* What the prologue leaves of the frame.
LEMMA IntoLoopFrame ==
  ASSUME TypeOK, jsStack # <<>>, Top.pc = "dispatch", NEW k \in Keys,
         IntoLoop(k)
  PROVE  \E f \in Frames :
           /\ SetTop(f)
           /\ f.saved = Top.saved /\ f.key = k /\ f.cmd = Top.cmd
           /\ \/ f.pc = "vcf" /\ NumDCFs[Top.cmd] = 0
              \/ f.pc = "dcf" /\ f.i = numCalled[k]
<1>1. Top \in Frames
  BY TopFields
<1>2. gen \in Generators /\ numCalled[k] \in Nat
  BY DEF TypeOK
<1> DEFINE f == IF NumDCFs[Top.cmd] = 0
                THEN [Top EXCEPT !.pc = "vcf", !.i = 0, !.key = k]
                ELSE [Top EXCEPT !.pc = "dcf", !.i = numCalled[k], !.key = k,
                                 !.cached = gen]
<1>3. CASE NumDCFs[Top.cmd] = 0
  <2>1. /\ f \in Frames /\ f.saved = Top.saved /\ f.key = k /\ f.cmd = Top.cmd
        /\ f.pc = "vcf"
    BY <1>1, <1>3
       DEF Frames, RequestPcs, ValPcs, DataPcs, ViewPcs, ErrorPcs
  <2>2. QED
    BY <1>3, <2>1 DEF IntoLoop
<1>4. CASE NumDCFs[Top.cmd] # 0
  <2>1. /\ f \in Frames /\ f.saved = Top.saved /\ f.key = k /\ f.cmd = Top.cmd
        /\ f.pc = "dcf" /\ f.i = numCalled[k]
    BY <1>1, <1>2, <1>4
       DEF Frames, RequestPcs, ValPcs, DataPcs, ViewPcs, ErrorPcs
  <2>2. QED
    BY <1>4, <2>1 DEF IntoLoop
<1>5. QED
  BY <1>3, <1>4

LEMMA DispatchResumedIInv == IInv /\ DispatchResumed => IInv'
<1> SUFFICES ASSUME IInv, DispatchResumed PROVE IInv'
  OBVIOUS
<1> USE DEF RequestPcs, ValPcs, DataPcs, ViewPcs, ErrorPcs, IsRequest
<1>1. jsStack # <<>> /\ Top.pc = "dispatch" /\ Top.resumed /\ IntoLoop(Top.key)
  BY DEF DispatchResumed, At
<1>2. /\ Top.key \in Keys
      /\ execState[Top.key] = "live"
      /\ execCmd[Top.key] = Top.cmd
  BY <1>1, TopFrameInv DEF FrameInv
<1>3. PICK f \in Frames :
        /\ SetTop(f)
        /\ f.saved = Top.saved /\ f.key = Top.key /\ f.cmd = Top.cmd
        /\ \/ f.pc = "vcf" /\ NumDCFs[Top.cmd] = 0
           \/ f.pc = "dcf" /\ f.i = numCalled[Top.key]
  BY <1>1, <1>2, IntoLoopFrame DEF IInv
<1>4. NumDCFs[Top.cmd] = 0 => numCalled[Top.key] = NumDCFs[Top.cmd]
  <2>1. numCalled[Top.key] \in Nat /\ numCalled[Top.key] <= NumDCFs[Top.cmd]
    BY <1>2 DEF IInv, TypeOK, ObjectsInv
  <2>2. QED
    BY <2>1
<1>5. FrameInv(f)
  BY <1>2, <1>3, <1>4 DEF FrameInv
<1>6. OtherTypes' /\ SameObjects
  BY GeneratorTypes, <1>2
     DEF DispatchResumed, IInv, TypeOK, OtherTypes, SameObjects, historyVars
<1>7. IsRequest(f)
  BY <1>3
<1>8. QED
  BY <1>1, <1>3, <1>5, <1>6, <1>7, MoveStep

LEMMA DispatchFailsIInv == IInv /\ DispatchResumedFails => IInv'
<1> SUFFICES ASSUME IInv, DispatchResumedFails PROVE IInv'
  OBVIOUS
<1> USE DEF RequestPcs, ValPcs, DataPcs, ViewPcs, ErrorPcs, IsRequest
<1> DEFINE f == [Top EXCEPT !.pc = "done"]
<1>1. jsStack # <<>> /\ Top.pc = "dispatch" /\ SetTop(f)
  BY DEF DispatchResumedFails, At
<1>2. Top \in Frames /\ Top.key \in Keys \cup {NoKey}
  BY <1>1, TopFields DEF IInv
<1>3. f \in Frames /\ f.saved = Top.saved /\ f.pc = "done"
  BY <1>2 DEF Frames
<1>4. FrameInv(f)
  BY <1>3 DEF FrameInv
<1>5. OtherTypes' /\ SameObjects
  BY GeneratorTypes, <1>2
     DEF DispatchResumedFails, IInv, TypeOK, OtherTypes, SameObjects, historyVars
<1>6. QED
  BY <1>1, <1>3, <1>4, <1>5, MoveStep

\* A new stack: its execution object appears under a key never used before.
LEMMA DispatchNewIInv == IInv /\ DispatchNew => IInv'
<1> SUFFICES ASSUME IInv, DispatchNew PROVE IInv'
  OBVIOUS
<1> USE DEF RequestPcs, ValPcs, DataPcs, ViewPcs, ErrorPcs, IsRequest
<1> DEFINE k == execCount + 1
           D == Len(jsStack)
<1>1. /\ jsStack # <<>> /\ Top.pc = "dispatch" /\ k \in Keys /\ IntoLoop(k)
      /\ execCount' = k
      /\ gen' = OneShot(k)
      /\ execState' = [execState EXCEPT ![k] = "live"]
      /\ execCmd' = [execCmd EXCEPT ![k] = Top.cmd]
      /\ UNCHANGED <<handler, numCalled, globalKey, inFlight, log, poisoned, exited, taken>>
  BY DEF DispatchNew, At, historyVars
<1>2. Top.cmd \in Cmds /\ execCount \in Nat
  BY <1>1, TopFields, ConstantsAssumption DEF IInv, TypeOK
<1>3. PICK f \in Frames :
        /\ SetTop(f)
        /\ f.saved = Top.saved /\ f.key = k /\ f.cmd = Top.cmd
        /\ \/ f.pc = "vcf" /\ NumDCFs[Top.cmd] = 0
           \/ f.pc = "dcf" /\ f.i = numCalled[k]
  BY <1>1, IntoLoopFrame DEF IInv
<1>4. execState[k] = "absent" /\ numCalled[k] = 0 /\ k \notin exited
  <2>1. k > execCount
    BY <1>2
  <2> HIDE DEF k
  <2>2. /\ execState[k] = "absent" <=> k > execCount
        /\ execState[k] = "absent" => numCalled[k] = 0
        /\ k \in exited => execState[k] = "null"
    BY <1>1 DEF IInv, ObjectsInv
  <2>3. QED
    BY <2>1, <2>2
<1>5. /\ jsStack' \in Seq(Frames)
      /\ RequestDepths = {D}
      /\ RequestDepths' = {D}
      /\ jsStack'[D] = f
  BY <1>1, <1>3, RequestStep DEF IInv
<1>6. /\ execState'[k] = "live" /\ execCmd'[k] = Top.cmd /\ NumDCFs[Top.cmd] \in Nat
      /\ \A j \in Keys \ {k} : execState'[j] = execState[j] /\ execCmd'[j] = execCmd[j]
  BY <1>1, <1>2, FunctionCounts DEF IInv, TypeOK
<1>7. TypeOK'
  <2>1. gen' \in Generators
    BY <1>1, GeneratorTypes
  <2>2. execCount' \in 0 .. MaxExecs
    BY <1>1, <1>2, ConstantsAssumption DEF Keys
  <2>3. QED
    BY <1>1, <1>2, <1>5, <2>1, <2>2 DEF IInv, TypeOK
<1>8. OneStackAtATime'
  BY <1>5 DEF OneStackAtATime
<1>9. HandlerInv'
  BY <1>1, <1>3, <1>5 DEF IInv, HandlerInv, Top
<1>10. ObjectsInv'
  <2> SUFFICES ASSUME NEW j \in Keys
               PROVE  /\ log'[j] = [n \in 1 .. numCalled'[j] |-> n]
                      /\ execState'[j] = "absent" <=> j > execCount'
                      /\ execState'[j] = "absent" => numCalled'[j] = 0
                      /\ execState'[j] # "absent" =>
                            /\ execCmd'[j] \in Cmds
                            /\ numCalled'[j] <= NumDCFs[execCmd'[j]]
                      /\ j \in exited' => execState'[j] = "null"
    BY DEF ObjectsInv
  <2>1. CASE j = k
    BY <1>1, <1>2, <1>4, <1>6, <2>1 DEF IInv, ObjectsInv
  <2>2. CASE j # k
    <3>1. j > execCount' <=> j > execCount
      BY <1>1, <1>2, <2>2 DEF Keys
    <3>2. QED
      BY <1>1, <1>6, <2>2, <3>1 DEF IInv, ObjectsInv
  <2>3. QED
    BY <2>1, <2>2
<1>11. FramesInv'
  <2>1. /\ f.key \in Keys /\ execState'[f.key] = "live" /\ execCmd'[f.key] = f.cmd
        /\ numCalled'[f.key] = 0
        /\ f.pc = "dcf" => f.i = numCalled'[f.key]
        /\ f.pc \in ViewPcs => numCalled'[f.key] = NumDCFs[f.cmd]
        /\ f.pc \in {"vcf", "dcf"}
    BY <1>1, <1>3, <1>4, <1>6
  <2>2. QED
    BY <1>5, <2>1 DEF FramesInv, FrameInv
<1>12. QED
  BY <1>7, <1>8, <1>9, <1>10, <1>11 DEF IInv

-----------------------------------------------------------------------------
(***************************************************************************)
(* requestHandler is left, and dispatchToECF.                              *)
(***************************************************************************)
LEMMA FinishIInv == IInv /\ Finish => IInv'
<1> SUFFICES ASSUME IInv, Finish PROVE IInv'
  OBVIOUS
<1>1. /\ jsStack # <<>> /\ Top.pc = "done" /\ IsRequest(Top) /\ Pop
      /\ handler' = Top.saved
      /\ UNCHANGED <<gen, execState, execCmd, numCalled, execCount, globalKey,
                     inFlight, log, poisoned, exited, taken>>
  BY DEF Finish, At, IsRequest, RequestPcs, historyVars
<1>2. /\ jsStack' \in Seq(Frames)
      /\ RequestDepths = {Len(jsStack)}
      /\ RequestDepths' = {}
  BY <1>1, RequestPop DEF IInv
<1>3. Top.saved = "engine"
  BY <1>2 DEF IInv, HandlerInv, Top
<1>4. TypeOK'
  BY <1>1, <1>2, <1>3 DEF IInv, TypeOK
<1>5. OneStackAtATime' /\ HandlerInv' /\ FramesInv'
  BY <1>1, <1>2, <1>3 DEF OneStackAtATime, HandlerInv, FramesInv
<1>6. ObjectsInv'
  BY <1>1 DEF IInv, ObjectsInv
<1>7. QED
  BY <1>4, <1>5, <1>6 DEF IInv

\* The exception of a ValCF leaves the stub installed, which poisoned records.
LEMMA ValCFThrowsIInv == IInv /\ ValCFThrows => IInv'
<1> SUFFICES ASSUME IInv, ValCFThrows PROVE IInv'
  OBVIOUS
<1>1. /\ jsStack # <<>> /\ Top.pc = "inVal" /\ IsRequest(Top) /\ Pop
      /\ poisoned' = TRUE
      /\ UNCHANGED <<handler, gen, execState, execCmd, numCalled, execCount,
                     globalKey, inFlight, log, exited, taken>>
  BY DEF ValCFThrows, At, IsRequest, RequestPcs, ValPcs, engineVars
<1>2. /\ jsStack' \in Seq(Frames)
      /\ RequestDepths' = {}
  BY <1>1, RequestPop DEF IInv
<1>3. TypeOK'
  BY <1>1, <1>2 DEF IInv, TypeOK
<1>4. OneStackAtATime' /\ HandlerInv' /\ FramesInv'
  BY <1>1, <1>2 DEF OneStackAtATime, HandlerInv, FramesInv
<1>5. ObjectsInv'
  BY <1>1 DEF IInv, ObjectsInv
<1>6. QED
  BY <1>3, <1>4, <1>5 DEF IInv

\* A step of dispatchToECF leaves the frames of requestHandler alone.
LEMMA ECFRequests ==
  ASSUME TypeOK, CallECF \/ ECFReturns \/ EndECFs
  PROVE  SameRequests
<1>1. jsStack # <<>> /\ Top.pc \in ErrorPcs
  BY DEF CallECF, ECFReturns, EndECFs, At, ErrorPcs
<1>2. Top \in Frames /\ Top.i + 1 \in Nat /\ ~IsRequest(Top)
  BY <1>1, TopFields
     DEF IsRequest, ErrorPcs, RequestPcs, ValPcs, DataPcs, ViewPcs
<1>3. CASE Pop
  BY <1>1, <1>2, <1>3, ErrorPop
<1>4. CASE SetTop([Top EXCEPT !.pc = "inECF"])
  <2> DEFINE f == [Top EXCEPT !.pc = "inECF"]
  <2>1. f \in Frames /\ ~IsRequest(f)
    BY <1>2 DEF Frames, IsRequest, ErrorPcs, RequestPcs, ValPcs, DataPcs, ViewPcs
  <2>2. QED
    BY <1>1, <1>2, <1>4, <2>1, ErrorStep
<1>5. CASE SetTop([Top EXCEPT !.pc = "ecf", !.i = @ + 1])
  <2> DEFINE f == [Top EXCEPT !.pc = "ecf", !.i = @ + 1]
  <2>1. f \in Frames /\ ~IsRequest(f)
    BY <1>2 DEF Frames, IsRequest, ErrorPcs, RequestPcs, ValPcs, DataPcs, ViewPcs
  <2>2. QED
    BY <1>1, <1>2, <1>5, <2>1, ErrorStep
<1>6. QED
  BY <1>3, <1>4, <1>5 DEF CallECF, ECFReturns, EndECFs

LEMMA ECFIInv ==
  ASSUME IInv, CallECF \/ ECFReturns \/ EndECFs
  PROVE  IInv'
<1>1. UNCHANGED <<engineVars, globalKey, inFlight, historyVars>>
  BY DEF CallECF, ECFReturns, EndECFs
<1>2. SameRequests
  BY ECFRequests DEF IInv
<1>3. QED
  BY <1>1, <1>2, QuietStep
     DEF IInv, TypeOK, SameObjects, OtherTypes, engineVars, historyVars

-----------------------------------------------------------------------------
(***************************************************************************)
(* The theorems.                                                           *)
(***************************************************************************)

\* Every step keeps the invariant.
LEMMA NextIInv == IInv /\ [Next]_vars => IInv'
<1> SUFFICES ASSUME IInv, [Next]_vars PROVE IInv'
  OBVIOUS
<1>1. CASE Application
  BY <1>1, ApplicationIInv
<1>2. CASE NativeAnswers
  BY <1>2, AnswersIInv
<1>3. CASE Engine
  BY <1>3, ValCFIInv, VCFIInv, ECFIInv, CallDCFIInv, EndDCFsIInv, DispatchNewIInv,
     DispatchResumedIInv, DispatchFailsIInv, FinishIInv DEF Engine
<1>4. CASE FunctionEnds
  BY <1>4, ValCFIInv, ValCFThrowsIInv, VCFIInv, ECFIInv, DCFReturnsIInv, DCFWaitsIInv,
     DCFExitsIInv DEF FunctionEnds
<1>5. CASE UNCHANGED vars
  <2>1. SameRequests
    BY <1>5, NoFrameStep DEF IInv, vars
  <2>2. QED
    BY <1>5, <2>1, QuietStep
       DEF vars, engineVars, historyVars, SameObjects, OtherTypes, IInv, TypeOK
<1>6. QED
  BY <1>1, <1>2, <1>3, <1>4, <1>5 DEF Next

\* The inductive invariant holds throughout, for every application: any number
\* of commands, control functions and nested error functions.
THEOREM InductiveInvariant == Spec => []IInv
<1>1. Init => IInv
  BY InitIInv
<1>2. IInv /\ [Next]_vars => IInv'
  BY NextIInv
<1>3. QED
  BY <1>1, <1>2, PTL DEF Spec

\* Every variable of the engine keeps its type.
THEOREM Typing == Spec => []TypeOK
<1>1. IInv => TypeOK
  BY DEF IInv
<1>2. QED
  BY <1>1, InductiveInvariant, PTL

\* No control function and no native answer can start a command stack inside
\* another: requestHandler is never on the call stack twice.
THEOREM NoNesting == Spec => []OneStackAtATime
<1>1. IInv => OneStackAtATime
  BY DEF IInv
<1>2. QED
  BY <1>1, InductiveInvariant, PTL

\* The refusing stub is installed exactly while a stack runs, except after a
\* ValCF has thrown.
THEOREM StubInstalledOnlyWhileRunning == Spec => []StubOnlyWhileRunning
<1>1. IInv => StubOnlyWhileRunning
  BY DEF IInv, HandlerInv, StubOnlyWhileRunning
<1>2. QED
  BY <1>1, InductiveInvariant, PTL

\* Each DCF of a stack is called once and in its order, however often the stack
\* is suspended and its calls are answered.
THEOREM DataFunctionOrder == Spec => []DataFunctionsInOrder
<1>1. IInv => DataFunctionsInOrder
  <2> SUFFICES ASSUME IInv, NEW k \in Keys
               PROVE  log[k] = [n \in 1 .. Len(log[k]) |-> n]
    BY DEF DataFunctionsInOrder
  <2>1. log[k] = [n \in 1 .. numCalled[k] |-> n] /\ numCalled[k] \in Nat
    BY DEF IInv, ObjectsInv, TypeOK
  <2>2. Len(log[k]) = numCalled[k]
    BY <2>1
  <2>3. QED
    BY <2>1, <2>2
<1>2. QED
  BY <1>1, InductiveInvariant, PTL

\* View functions run only after all data functions of their stack.
THEOREM ViewsRunLast == Spec => []ViewsAfterData
<1>1. IInv => ViewsAfterData
  <2> SUFFICES ASSUME IInv, NEW d \in RequestDepths, jsStack[d].pc \in ViewPcs
               PROVE  Len(log[jsStack[d].key]) = NumDCFs[jsStack[d].cmd]
    BY DEF ViewsAfterData
  <2> DEFINE k == jsStack[d].key
  <2>1. k \in Keys /\ numCalled[k] = NumDCFs[jsStack[d].cmd]
    BY DEF IInv, FramesInv, FrameInv
  <2>2. log[k] = [n \in 1 .. numCalled[k] |-> n] /\ numCalled[k] \in Nat
    BY <2>1 DEF IInv, ObjectsInv, TypeOK
  <2>3. Len(log[k]) = numCalled[k]
    BY <2>2
  <2>4. QED
    BY <2>1, <2>3
<1>2. QED
  BY <1>1, InductiveInvariant, PTL

\* After STACK_EXIT from a DCF no function of the stack runs again.
THEOREM ExitEndsStack == Spec => []ExitIsFinal
<1>1. IInv => ExitIsFinal
  <2> SUFFICES ASSUME IInv, NEW d \in RequestDepths, jsStack[d].key \in exited
               PROVE  jsStack[d].pc = "done"
    BY DEF ExitIsFinal
  <2>1. FrameInv(jsStack[d]) /\ jsStack[d].pc \in RequestPcs
    BY DEF IInv, FramesInv, RequestDepths, IsRequest
  <2>2. jsStack[d].key \in Keys /\ execState[jsStack[d].key] = "null"
    BY DEF IInv, TypeOK, ObjectsInv
  <2>3. QED
    BY <2>1, <2>2
       DEF FrameInv, RequestPcs, ValPcs, DataPcs, ViewPcs, Keys, NoKey
<1>2. QED
  BY <1>1, InductiveInvariant, PTL

-----------------------------------------------------------------------------
(***************************************************************************)
(* The generators.                                                         *)
(***************************************************************************)

\* Frames are added on top of a control function only.
LEMMA CallersStep ==
  ASSUME TypeOK, CallersInv, [Next]_vars
  PROVE  CallersInv'
<1>1. ASSUME NEW f, Push(f), AppRunning PROVE CallersInv'
  <2>1. jsStack \in Seq(Frames) /\ Len(jsStack) \in Nat
    BY DEF TypeOK
  <2>2. jsStack # <<>> => Len(jsStack) \in Nat \ {0} /\ jsStack[Len(jsStack)].pc \in FunctionPcs
    BY <1>1, <2>1, TopIsFrame DEF AppRunning, Top
  <2>3. /\ Len(jsStack') = Len(jsStack) + 1
        /\ \A d \in 1 .. Len(jsStack) : jsStack'[d] = jsStack[d]
    BY <1>1, <2>1 DEF Push
  <2>4. ASSUME NEW d \in 1 .. Len(jsStack') - 1 PROVE jsStack'[d].pc \in FunctionPcs
    <3>1. d \in 1 .. Len(jsStack) /\ jsStack # <<>>
      BY <2>1, <2>3
    <3>2. CASE d = Len(jsStack)
      BY <2>2, <2>3, <3>1, <3>2
    <3>3. CASE d # Len(jsStack)
      <4>1. d \in 1 .. Len(jsStack) - 1
        BY <2>1, <3>1, <3>3
      <4>2. QED
        BY <2>3, <3>1, <4>1 DEF CallersInv
    <3>4. QED
      BY <3>2, <3>3
  <2>5. QED
    BY <2>4 DEF CallersInv
<1>2. ASSUME NEW f, SetTop(f), jsStack # <<>> PROVE CallersInv'
  <2>1. jsStack \in Seq(Frames) /\ Len(jsStack) \in Nat \ {0}
    BY <1>2, TopIsFrame DEF TypeOK
  <2>2. Len(jsStack') = Len(jsStack) /\ \A d \in 1 .. Len(jsStack) - 1 : jsStack'[d] = jsStack[d]
    BY <1>2, <2>1 DEF SetTop
  <2>3. QED
    BY <2>1, <2>2 DEF CallersInv
<1>3. ASSUME Pop, jsStack # <<>> PROVE CallersInv'
  <2>1. Len(jsStack) \in Nat \ {0}
    BY <1>3, TopIsFrame DEF TypeOK
  <2>2. Len(jsStack') = Len(jsStack) - 1 /\ \A d \in 1 .. Len(jsStack) - 1 : jsStack'[d] = jsStack[d]
    BY <1>3, PopFrame DEF TypeOK
  <2>3. QED
    BY <2>1, <2>2 DEF CallersInv
<1>4. ASSUME UNCHANGED jsStack PROVE CallersInv'
  BY <1>4 DEF CallersInv
<1>5. CASE Application
  <2>1. ASSUME NEW c \in Cmds, HandleRequest(c) \/ HandleError(c) PROVE CallersInv'
    BY <1>1, <2>1 DEF HandleRequest, HandleError, EnterHandler
  <2>2. ASSUME NEW c \in Cmds, RefuseRequest(c) PROVE CallersInv'
    BY <1>4, <2>2 DEF RefuseRequest, vars
  <2>3. QED
    BY <1>4, <1>5, <2>1, <2>2 DEF Application, MakeCall, AssignGlobalKey
<1>6. CASE NativeAnswers
  <2>1. ASSUME NEW k \in Keys, NEW last \in BOOLEAN, Complete(k, last) PROVE CallersInv'
    BY <1>1, <2>1 DEF Complete, Answered, AppRunning, EnterHandler
  <2>2. ASSUME NEW k \in Keys, DropAnswer(k) PROVE CallersInv'
    BY <1>4, <2>2 DEF DropAnswer
  <2>3. QED
    BY <1>6, <2>1, <2>2 DEF NativeAnswers
<1>7. CASE Engine
  BY <1>2, <1>3, <1>7
     DEF Engine, At, CallValCF, EndValidation, DispatchNew, DispatchResumed,
         DispatchResumedFails, IntoLoop, CallDCF, EndDCFs, CallVCF, EndVCFs, Finish,
         CallECF, EndECFs
<1>8. CASE FunctionEnds
  BY <1>2, <1>3, <1>8
     DEF FunctionEnds, At, ValCFReturns, ValCFThrows, DCFReturns, DCFWaitsOrThrows,
         DCFExits, VCFReturns, ECFReturns
<1>9. CASE UNCHANGED vars
  BY <1>4, <1>9 DEF vars
<1>10. QED
  BY <1>5, <1>6, <1>7, <1>8, <1>9 DEF Next

\* Frames that stay the same keep the generator's invariant when it is not used.
LEMMA QuietGenerator ==
  ASSUME GeneratorInv, SameRequests, UNCHANGED <<gen, taken>>
  PROVE  GeneratorInv'
BY DEF GeneratorInv, SameRequests

\* A step of requestHandler establishes it for the one frame there is.
LEMMA RequestGenerator ==
  ASSUME TypeOK, OneStackAtATime, jsStack # <<>>, IsRequest(Top),
         NEW f \in Frames, IsRequest(f), SetTop(f),
         f.pc = "dcf" => gen' = OneShot(f.key),
         f.pc = "inDCF" => f.local = OneShot(f.key) /\ gen' = OneShot(f.key) /\ taken' = 0
  PROVE  GeneratorInv'
<1>1. RequestDepths' = {Len(jsStack)} /\ jsStack'[Len(jsStack)] = f
  BY RequestStep
<1>2. QED
  BY <1>1 DEF GeneratorInv

LEMMA ApplicationGenerator ==
  ASSUME IInv, CallersInv, GeneratorInv, Application
  PROVE  GeneratorInv'
<1> USE DEF IInv
<1>1. ASSUME NEW c \in Cmds, HandleRequest(c) PROVE GeneratorInv'
  <2> DEFINE f == NewFrame(c, "val", NoKey, FALSE)
  <2>1. f \in Frames /\ IsRequest(f) /\ f.pc = "val"
    BY NewFrameIsFrame DEF TypeOK, RequestPcs, ValPcs, IsRequest, NewFrame
  <2>2. RequestDepths = {} /\ Push(f)
    BY <1>1 DEF HandleRequest, EnterHandler, HandlerInv
  <2>3. RequestDepths' = {Len(jsStack) + 1} /\ jsStack'[Len(jsStack) + 1] = f
    BY <2>1, <2>2, RequestPush
  <2>4. QED
    BY <2>1, <2>3 DEF GeneratorInv
<1>2. ASSUME NEW c \in Cmds, RefuseRequest(c) PROVE GeneratorInv'
  BY <1>2, NoFrameStep, QuietGenerator DEF RefuseRequest, vars, historyVars, engineVars
<1>3. ASSUME NEW c \in Cmds, HandleError(c) PROVE GeneratorInv'
  <2>1. /\ NewFrame(c, "ecf", NoKey, FALSE) \in Frames
        /\ ~IsRequest(NewFrame(c, "ecf", NoKey, FALSE))
    BY NewFrameIsFrame
       DEF TypeOK, ErrorPcs, IsRequest, RequestPcs, ValPcs, DataPcs, ViewPcs, NewFrame
  <2>2. SameRequests
    BY <1>3, <2>1, ErrorPush DEF HandleError
  <2>3. QED
    BY <1>3, <2>2, QuietGenerator DEF HandleError, historyVars, engineVars
<1>4. CASE MakeCall
  <2>1. SameRequests
    BY <1>4, NoFrameStep DEF MakeCall
  <2>2. ASSUME NEW d \in RequestDepths'
        PROVE  /\ jsStack'[d].pc # "dcf"
               /\ jsStack'[d].pc = "inDCF" =>
                    /\ jsStack'[d].local = OneShot(jsStack'[d].key)
                    /\ gen' = Spent /\ taken' <= 1
    <3>1. d \in RequestDepths /\ jsStack' = jsStack /\ d \in 1 .. Len(jsStack)
      BY <1>4, <2>1, <2>2 DEF SameRequests, MakeCall, RequestDepths, Depths
    <3>2. jsStack[d].pc \in FunctionPcs
      <4>1. jsStack \in Seq(Frames) /\ jsStack # <<>> /\ Len(jsStack) \in Nat \ {0}
        BY <3>1 DEF TypeOK
      <4>2. CASE d = Len(jsStack)
        BY <1>4, <4>1, <4>2 DEF MakeCall, AppRunning, Top
      <4>3. CASE d # Len(jsStack)
        <5>1. d \in 1 .. Len(jsStack) - 1
          BY <3>1, <4>1, <4>3
        <5>2. QED
          BY <5>1 DEF CallersInv
      <4>4. QED
        BY <4>2, <4>3
    <3>3. ASSUME jsStack[d].pc = "inDCF"
          PROVE  /\ jsStack[d].local = OneShot(jsStack[d].key)
                 /\ gen' = Spent /\ taken' <= 1
      <4>1. /\ jsStack[d].local = OneShot(jsStack[d].key)
            /\ \/ gen = OneShot(jsStack[d].key) /\ taken = 0
               \/ gen = Spent /\ taken <= 1
        BY <3>1, <3>3 DEF GeneratorInv
      <4>2. taken = 0
        BY <1>4, <4>1 DEF MakeCall, Spent
      <4>3. InDCF
        BY <3>1, <3>3 DEF InDCF
      <4>4. QED
        BY <1>4, <4>1, <4>2, <4>3 DEF MakeCall
    <3>4. QED
      BY <3>1, <3>2, <3>3 DEF FunctionPcs
  <2>3. QED
    BY <2>2 DEF GeneratorInv
<1>5. CASE AssignGlobalKey
  BY <1>5, NoFrameStep, QuietGenerator DEF AssignGlobalKey, historyVars, engineVars
<1>6. QED
  BY <1>1, <1>2, <1>3, <1>4, <1>5 DEF Application

LEMMA AnswersGenerator ==
  ASSUME IInv, GeneratorInv, NativeAnswers
  PROVE  GeneratorInv'
<1> USE DEF IInv
<1>1. ASSUME NEW k \in Keys, NEW last \in BOOLEAN, Complete(k, last) PROVE GeneratorInv'
  <2> DEFINE f == NewFrame(execCmd[k], "dispatch", k, TRUE)
  <2>1. execCmd[k] \in Cmds
    BY <1>1 DEF Complete, ObjectsInv
  <2>2. f \in Frames /\ IsRequest(f) /\ f.pc = "dispatch"
    BY <2>1, NewFrameIsFrame DEF TypeOK, RequestPcs, ValPcs, IsRequest, NewFrame
  <2>3. RequestDepths = {} /\ Push(f)
    BY <1>1 DEF Complete, EnterHandler, HandlerInv
  <2>4. RequestDepths' = {Len(jsStack) + 1} /\ jsStack'[Len(jsStack) + 1] = f
    BY <2>2, <2>3, RequestPush
  <2>5. QED
    BY <2>2, <2>4 DEF GeneratorInv
<1>2. ASSUME NEW k \in Keys, DropAnswer(k) PROVE GeneratorInv'
  BY <1>2, NoFrameStep, QuietGenerator DEF DropAnswer, historyVars, engineVars
<1>3. QED
  BY <1>1, <1>2 DEF NativeAnswers

\* Outside the loop of dispatchToDCF nothing is claimed of the generator.
LEMMA OutsideLoop ==
  ASSUME TypeOK, OneStackAtATime, jsStack # <<>>, IsRequest(Top),
         NEW pc \in RequestPcs \ DataPcs, NEW i \in Nat,
         \/ SetTop([Top EXCEPT !.pc = pc])
         \/ SetTop([Top EXCEPT !.pc = pc, !.i = i])
  PROVE  GeneratorInv'
<1>1. Top \in Frames
  BY TopFields
<1>2. ASSUME NEW f \in Frames, f.pc = pc, SetTop(f) PROVE GeneratorInv'
  <2>1. IsRequest(f) /\ f.pc # "dcf" /\ f.pc # "inDCF"
    BY <1>2 DEF IsRequest, DataPcs
  <2>2. QED
    BY <1>2, <2>1, RequestGenerator
<1>3. /\ [Top EXCEPT !.pc = pc] \in Frames
      /\ [Top EXCEPT !.pc = pc].pc = pc
      /\ [Top EXCEPT !.pc = pc, !.i = i] \in Frames
      /\ [Top EXCEPT !.pc = pc, !.i = i].pc = pc
  BY <1>1 DEF Frames
<1>4. QED
  BY <1>2, <1>3

LEMMA RequestStepsGenerator ==
  ASSUME IInv, CallValCF \/ EndValidation \/ ValCFReturns \/ CallVCF \/ EndVCFs
               \/ VCFReturns \/ EndDCFs \/ DCFWaitsOrThrows \/ DCFExits
               \/ DispatchResumedFails
  PROVE  GeneratorInv'
<1> USE DEF RequestPcs, ValPcs, DataPcs, ViewPcs, IsRequest
<1>1. jsStack # <<>> /\ IsRequest(Top) /\ TypeOK /\ OneStackAtATime
  BY DEF IInv, At, CallValCF, EndValidation, ValCFReturns, CallVCF, EndVCFs,
         VCFReturns, EndDCFs, DCFWaitsOrThrows, DCFExits, DispatchResumedFails
<1>2. Top.i + 1 \in Nat /\ 0 \in Nat
  BY <1>1, TopFields
<1>3. CASE EndDCFs
  BY <1>1, <1>2, <1>3, OutsideLoop DEF EndDCFs
<1>4. CASE ValCFReturns
  BY <1>1, <1>2, <1>4, OutsideLoop DEF ValCFReturns
<1>5. CASE VCFReturns
  BY <1>1, <1>2, <1>5, OutsideLoop DEF VCFReturns
<1>6. CASE CallValCF \/ EndValidation \/ CallVCF \/ EndVCFs
           \/ DCFWaitsOrThrows \/ DCFExits \/ DispatchResumedFails
  BY <1>1, <1>2, <1>6, OutsideLoop
     DEF CallValCF, EndValidation, CallVCF, EndVCFs, DCFWaitsOrThrows, DCFExits,
         DispatchResumedFails
<1>7. QED
  BY <1>3, <1>4, <1>5, <1>6

\* The three steps into the loop and along it.
LEMMA LoopGenerator ==
  ASSUME IInv, GeneratorInv, DispatchNew \/ DispatchResumed \/ CallDCF \/ DCFReturns
  PROVE  GeneratorInv'
<1> USE DEF RequestPcs, ValPcs, DataPcs, ViewPcs, IsRequest
<1>1. jsStack # <<>> /\ IsRequest(Top) /\ TypeOK /\ OneStackAtATime
  BY DEF IInv, At, DispatchNew, DispatchResumed, CallDCF, DCFReturns
<1>2. Top \in Frames /\ FrameInv(Top) /\ Top.i + 1 \in Nat
  BY <1>1, TopFields, TopFrameInv
<1>3. Len(jsStack) \in RequestDepths /\ Top = jsStack[Len(jsStack)]
  <2>1. Len(jsStack) \in Nat \ {0}
    BY <1>1, TopIsFrame DEF TypeOK
  <2>2. QED
    BY <1>1, <2>1 DEF RequestDepths, Depths, Top
<1>4. ASSUME NEW k \in Keys, At("dispatch"), IntoLoop(k), gen' = OneShot(k)
      PROVE  GeneratorInv'
  <2>1. PICK f \in Frames :
          /\ SetTop(f)
          /\ f.saved = Top.saved /\ f.key = k /\ f.cmd = Top.cmd
          /\ \/ f.pc = "vcf" /\ NumDCFs[Top.cmd] = 0
             \/ f.pc = "dcf" /\ f.i = numCalled[k]
    BY <1>1, <1>4, IntoLoopFrame DEF At
  <2>2. QED
    BY <1>1, <1>4, <2>1, RequestGenerator
<1>5. CASE DispatchNew
  BY <1>4, <1>5 DEF DispatchNew
<1>6. CASE DispatchResumed
  <2>1. Top.key \in Keys
    BY <1>2, <1>6 DEF DispatchResumed, At, FrameInv
  <2>2. QED
    BY <1>4, <1>6, <2>1 DEF DispatchResumed
<1>7. CASE CallDCF
  <2> DEFINE f == [Top EXCEPT !.pc = "inDCF", !.local = gen]
  <2>1. /\ f \in Frames /\ f.pc = "inDCF" /\ f.local = gen /\ f.key = Top.key
    BY <1>1, <1>2 DEF Frames, TypeOK
  <2>2. gen = OneShot(Top.key)
    BY <1>3, <1>7 DEF CallDCF, At, GeneratorInv
  <2>3. gen' = gen /\ taken' = 0 /\ SetTop(f)
    BY <1>7 DEF CallDCF
  <2>4. QED
    BY <1>1, <2>1, <2>2, <2>3, RequestGenerator
<1>8. CASE DCFReturns
  <2> DEFINE f == [Top EXCEPT !.pc = "dcf", !.i = @ + 1]
  <2>1. f \in Frames /\ f.pc = "dcf" /\ f.key = Top.key
    BY <1>2 DEF Frames
  <2>2. Top.local = OneShot(Top.key)
    BY <1>3, <1>8 DEF DCFReturns, At, GeneratorInv
  <2>3. gen' = Top.local /\ SetTop(f)
    BY <1>8 DEF DCFReturns
  <2>4. QED
    BY <1>1, <2>1, <2>2, <2>3, RequestGenerator
<1>9. QED
  BY <1>5, <1>6, <1>7, <1>8

LEMMA ReturnGenerator ==
  ASSUME IInv, GeneratorInv, Finish \/ ValCFThrows \/ CallECF \/ ECFReturns \/ EndECFs
  PROVE  GeneratorInv'
<1>1. CASE Finish \/ ValCFThrows
  <2>1. jsStack # <<>> /\ IsRequest(Top) /\ Pop
    BY <1>1 DEF Finish, ValCFThrows, At, IsRequest, RequestPcs, ValPcs
  <2>2. RequestDepths' = {}
    BY <2>1, RequestPop DEF IInv
  <2>3. QED
    BY <2>2 DEF GeneratorInv
<1>2. CASE CallECF \/ ECFReturns \/ EndECFs
  <2>1. jsStack # <<>> /\ Top.pc \in ErrorPcs /\ UNCHANGED <<gen, taken>>
    BY <1>2 DEF CallECF, ECFReturns, EndECFs, At, ErrorPcs, engineVars, historyVars
  <2>2. SameRequests
    BY <1>2, ECFRequests DEF IInv
  <2>3. QED
    BY <2>1, <2>2, QuietGenerator
<1>3. QED
  BY <1>1, <1>2

\* Every step keeps the invariant of the generators.
LEMMA NextGenerator == IInv /\ CallersInv /\ GeneratorInv /\ [Next]_vars => GeneratorInv'
<1> SUFFICES ASSUME IInv, CallersInv, GeneratorInv, [Next]_vars PROVE GeneratorInv'
  OBVIOUS
<1>1. CASE Application
  BY <1>1, ApplicationGenerator
<1>2. CASE NativeAnswers
  BY <1>2, AnswersGenerator
<1>3. CASE Engine
  BY <1>3, RequestStepsGenerator, LoopGenerator, ReturnGenerator DEF Engine
<1>4. CASE FunctionEnds
  BY <1>4, RequestStepsGenerator, LoopGenerator, ReturnGenerator DEF FunctionEnds
<1>5. CASE UNCHANGED vars
  BY <1>5, NoFrameStep, QuietGenerator DEF IInv, vars, historyVars, engineVars
<1>6. QED
  BY <1>1, <1>2, <1>3, <1>4, <1>5 DEF Next

\* The generators' invariant holds throughout.
THEOREM GeneratorInvariant == Spec => [](CallersInv /\ GeneratorInv)
<1>1. Init => CallersInv /\ GeneratorInv
  BY DEF Init, CallersInv, GeneratorInv, RequestDepths, Depths
<1>2. IInv /\ CallersInv /\ GeneratorInv /\ [Next]_vars => CallersInv' /\ GeneratorInv'
  BY CallersStep, NextGenerator DEF IInv
<1>3. QED
  BY <1>1, <1>2, InductiveInvariant, PTL DEF Spec

\* A DCF cannot make two native calls that would each resume its stack.
THEOREM OneAnswerPerDCF == Spec => []OneKeyPerDCF
<1>1. GeneratorInv => OneKeyPerDCF
  BY DEF GeneratorInv, OneKeyPerDCF
<1>2. QED
  BY <1>1, GeneratorInvariant, PTL

\* A native call made from a DCF is answered to that DCF's stack or to none.
THEOREM AnswersFindTheirStack == Spec => []OwnKeyOnly
<1>1. GeneratorInv => OwnKeyOnly
  <2> SUFFICES ASSUME GeneratorInv, NEW d \in RequestDepths,
                      jsStack[d].pc = "inDCF", gen.mode = "oneShot"
               PROVE  gen.key = jsStack[d].key
    BY DEF OwnKeyOnly
  <2>1. gen = OneShot(jsStack[d].key) \/ gen = Spent
    BY DEF GeneratorInv
  <2>2. QED
    BY <2>1 DEF OneShot, Spent
<1>2. QED
  BY <1>1, GeneratorInvariant, PTL

-----------------------------------------------------------------------------
(***************************************************************************)
(* The engine implements StackLifecycle: every step of CommandStack is one *)
(* step of the stack that has the engine, or changes nothing that          *)
(* StackLifecycle sees.                                                    *)
(***************************************************************************)

(***************************************************************************)
(* What a change of the call stack does to the owner of the engine.        *)
(***************************************************************************)

\* With one frame of requestHandler, its stack has the engine.
LEMMA OneOwner ==
  ASSUME NEW D, RequestDepths = {D}
  PROVE  Owner = jsStack[D].key /\ Viewing = (jsStack[D].pc = "inVCF")
BY DEF Owner, Viewing

LEMMA OneOwnerNext ==
  ASSUME NEW D, RequestDepths' = {D}
  PROVE  Owner' = jsStack'[D].key /\ Viewing' = (jsStack'[D].pc = "inVCF")
BY DEF Owner, Viewing

\* The frame of requestHandler takes a step.
LEMMA OwnerStep ==
  ASSUME TypeOK, OneStackAtATime, jsStack # <<>>, IsRequest(Top),
         NEW f \in Frames, IsRequest(f), SetTop(f)
  PROVE  /\ Owner = Top.key /\ Viewing = (Top.pc = "inVCF")
         /\ Owner' = f.key /\ Viewing' = (f.pc = "inVCF")
<1>1. /\ RequestDepths = {Len(jsStack)}
      /\ RequestDepths' = {Len(jsStack)}
      /\ jsStack'[Len(jsStack)] = f
  BY RequestStep
<1>2. QED
  BY <1>1, OneOwner, OneOwnerNext DEF Top

\* requestHandler is left: nobody has the engine.
LEMMA OwnerPop ==
  ASSUME TypeOK, OneStackAtATime, jsStack # <<>>, IsRequest(Top), Pop
  PROVE  /\ Owner = Top.key /\ Viewing = (Top.pc = "inVCF")
         /\ Owner' = NoKey /\ Viewing' = FALSE
<1>1. RequestDepths = {Len(jsStack)} /\ RequestDepths' = {}
  BY RequestPop
<1>2. QED
  BY <1>1, OneOwner DEF Top, Owner, Viewing

\* requestHandler is entered while nobody has the engine.
LEMMA OwnerPush ==
  ASSUME TypeOK, RequestDepths = {}, NEW f \in Frames, IsRequest(f), Push(f)
  PROVE  /\ Owner = NoKey /\ Viewing = FALSE
         /\ Owner' = f.key /\ Viewing' = (f.pc = "inVCF")
<1>1. /\ RequestDepths' = {Len(jsStack) + 1}
      /\ jsStack'[Len(jsStack) + 1] = f
  BY RequestPush
<1>2. QED
  BY <1>1, OneOwnerNext DEF Owner, Viewing

\* The frames of requestHandler stay as they are.
LEMMA SameOwner ==
  ASSUME SameRequests
  PROVE  UNCHANGED <<Owner, Viewing>>
<1>1. CASE RequestDepths = {}
  BY <1>1 DEF SameRequests, Owner, Viewing
<1>2. CASE RequestDepths # {}
  <2> DEFINE D == CHOOSE d \in RequestDepths : TRUE
  <2>1. D \in RequestDepths
    BY <1>2
  <2>2. Owner = jsStack[D].key /\ Owner' = jsStack'[D].key
    BY <1>2 DEF SameRequests, Owner
  <2>3. Viewing' = Viewing
    BY DEF SameRequests, Viewing
  <2>4. QED
    BY <2>1, <2>2, <2>3 DEF SameRequests
<1>3. QED
  BY <1>1, <1>2

-----------------------------------------------------------------------------
(***************************************************************************)
(* The execution objects as StackLifecycle sees them.                      *)
(***************************************************************************)
LEMMA SameStacks ==
  ASSUME UNCHANGED <<execState, execCmd, log>>
  PROVE  UNCHANGED <<Status, Need, Done>>
BY DEF Status, Need, Done

\* A step that StackLifecycle does not see.
LEMMA Unseen ==
  ASSUME UNCHANGED <<execState, execCmd, log>>, UNCHANGED <<Owner, Viewing>>
  PROVE  UNCHANGED Lifecycle!vars
BY SameStacks DEF Lifecycle!vars

\* A stack with an execution object is open; its DCFs are counted by both.
LEMMA OpenStack ==
  ASSUME IInv, NEW k \in Keys, execState[k] = "live"
  PROVE  /\ Status[k] = "open"
         /\ execCmd[k] \in Cmds
         /\ Need[k] = NumDCFs[execCmd[k]]
         /\ Done[k] = numCalled[k]
<1>1. execCmd[k] \in Cmds /\ log[k] = [n \in 1 .. numCalled[k] |-> n] /\ numCalled[k] \in Nat
  BY DEF IInv, ObjectsInv, TypeOK
<1>2. Len(log[k]) = numCalled[k]
  BY <1>1
<1>3. execCmd[k] # NoCmd
  BY <1>1, ConstantsAssumption
<1>4. QED
  BY <1>1, <1>2, <1>3 DEF Status, Need, Done

-----------------------------------------------------------------------------
(***************************************************************************)
(* The steps that StackLifecycle does not see.                             *)
(***************************************************************************)

\* A step of requestHandler that keeps its key and starts or ends no VCF.
LEMMA UnseenMove ==
  ASSUME IInv, jsStack # <<>>, IsRequest(Top),
         NEW f \in Frames, IsRequest(f), SetTop(f), f.key = Top.key,
         Top.pc # "inVCF", f.pc # "inVCF",
         UNCHANGED <<execState, execCmd, log>>
  PROVE  UNCHANGED Lifecycle!vars
<1>1. UNCHANGED <<Owner, Viewing>>
  BY OwnerStep DEF IInv
<1>2. QED
  BY <1>1, Unseen

LEMMA UnseenSteps ==
  ASSUME IInv,
         \/ CallValCF \/ EndValidation \/ ValCFReturns
         \/ DispatchResumedFails \/ DCFReturns \/ DCFWaitsOrThrows \/ EndDCFs
         \/ EndVCFs
  PROVE  UNCHANGED Lifecycle!vars
<1> USE DEF RequestPcs, ValPcs, DataPcs, ViewPcs, ErrorPcs, IsRequest
<1>1. /\ jsStack # <<>> /\ IsRequest(Top) /\ Top.pc # "inVCF"
      /\ UNCHANGED <<execState, execCmd, log>>
  BY DEF CallValCF, EndValidation, ValCFReturns, DispatchResumedFails, DCFReturns,
         DCFWaitsOrThrows, EndDCFs, EndVCFs, At, engineVars, historyVars
<1>2. Top \in Frames /\ Top.i + 1 \in Nat
  BY <1>1, TopFields DEF IInv
<1> DEFINE f(pc) == [Top EXCEPT !.pc = pc]
           g(pc, i) == [Top EXCEPT !.pc = pc, !.i = i]
           Quiet(h) == h \in Frames /\ IsRequest(h) /\ h.key = Top.key /\ h.pc # "inVCF"
<1>3. /\ Quiet(f("inVal")) /\ Quiet(f("done")) /\ Quiet(f("dispatch"))
      /\ \A i \in Nat : Quiet(g("val", i)) /\ Quiet(g("dcf", i)) /\ Quiet(g("vcf", i))
  BY <1>2 DEF Frames
<1>4. \E h : Quiet(h) /\ SetTop(h)
  <2>1. \/ SetTop(f("inVal")) \/ SetTop(f("done")) \/ SetTop(f("dispatch"))
        \/ SetTop(g("val", Top.i + 1)) \/ SetTop(g("dcf", Top.i + 1)) \/ SetTop(g("vcf", 0))
    BY DEF CallValCF, EndValidation, ValCFReturns, DispatchResumedFails, DCFReturns,
           DCFWaitsOrThrows, EndDCFs, EndVCFs
  <2>2. Top.i + 1 \in Nat /\ 0 \in Nat
    BY <1>2
  <2> HIDE DEF f, g, Quiet
  <2>3. QED
    BY <1>3, <2>1, <2>2
<1>5. QED
  BY <1>1, <1>4, UnseenMove

\* The application's own calls, requestHandler entered for a new stack included:
\* that stack has no key yet.
LEMMA UnseenApplication ==
  ASSUME IInv, Application
  PROVE  UNCHANGED Lifecycle!vars
<1>1. ASSUME NEW c \in Cmds, HandleRequest(c) PROVE UNCHANGED Lifecycle!vars
  <2> DEFINE f == NewFrame(c, "val", NoKey, FALSE)
  <2>1. f \in Frames /\ IsRequest(f) /\ f.key = NoKey /\ f.pc # "inVCF"
    BY NewFrameIsFrame DEF IInv, TypeOK, RequestPcs, ValPcs, IsRequest, NewFrame
  <2>2. RequestDepths = {} /\ Push(f)
    BY <1>1 DEF IInv, HandlerInv, HandleRequest, EnterHandler
  <2>3. UNCHANGED <<Owner, Viewing>>
    BY <2>1, <2>2, OwnerPush DEF IInv
  <2>4. QED
    BY <1>1, <2>3, Unseen DEF HandleRequest, historyVars
<1>2. ASSUME NEW c \in Cmds, HandleError(c) PROVE UNCHANGED Lifecycle!vars
  <2> DEFINE f == NewFrame(c, "ecf", NoKey, FALSE)
  <2>1. f \in Frames /\ ~IsRequest(f)
    BY NewFrameIsFrame
       DEF IInv, TypeOK, RequestPcs, ValPcs, DataPcs, ViewPcs, ErrorPcs, IsRequest, NewFrame
  <2>2. SameRequests
    BY <1>2, <2>1, ErrorPush DEF HandleError, IInv
  <2>3. QED
    BY <1>2, <2>2, SameOwner, Unseen DEF HandleError, engineVars, historyVars
<1>3. ASSUME UNCHANGED <<jsStack, execState, execCmd, log>> PROVE UNCHANGED Lifecycle!vars
  BY <1>3, NoFrameStep, SameOwner, Unseen DEF IInv
<1>4. QED
  BY <1>1, <1>2, <1>3
     DEF Application, RefuseRequest, MakeCall, AssignGlobalKey, vars, engineVars, historyVars

\* dispatchToECF.
LEMMA UnseenErrors ==
  ASSUME IInv, CallECF \/ ECFReturns \/ EndECFs
  PROVE  UNCHANGED Lifecycle!vars
<1>1. SameRequests
  BY ECFRequests DEF IInv
<1>2. QED
  BY <1>1, SameOwner, Unseen DEF CallECF, ECFReturns, EndECFs, engineVars, historyVars

\* A ValCF throws: its stack has no key.
LEMMA UnseenThrow ==
  ASSUME IInv, ValCFThrows
  PROVE  UNCHANGED Lifecycle!vars
<1>1. jsStack # <<>> /\ IsRequest(Top) /\ Top.pc = "inVal" /\ Pop
  BY DEF ValCFThrows, At, IsRequest, RequestPcs, ValPcs
<1>2. Top.key = NoKey
  BY <1>1, TopFrameInv DEF FrameInv, ValPcs
<1>3. UNCHANGED <<Owner, Viewing>>
  BY <1>1, <1>2, OwnerPop DEF IInv
<1>4. QED
  BY <1>3, Unseen DEF ValCFThrows, engineVars

-----------------------------------------------------------------------------
(***************************************************************************)
(* The steps of the stack that has the engine.                             *)
(***************************************************************************)

\* An answer resumes a suspended stack.
LEMMA CompleteResumes ==
  ASSUME IInv, NEW k \in Keys, NEW last \in BOOLEAN, Complete(k, last)
  PROVE  Lifecycle!Resume(k)
<1>1. execState[k] = "live" /\ handler = "engine" /\ UNCHANGED <<execState, execCmd, log>>
  BY DEF Complete, historyVars
<1>2. execCmd[k] \in Cmds /\ Status[k] = "open"
  BY <1>1, OpenStack
<1> DEFINE f == NewFrame(execCmd[k], "dispatch", k, TRUE)
<1>3. f \in Frames /\ IsRequest(f) /\ f.key = k /\ f.pc # "inVCF"
  BY <1>2, NewFrameIsFrame DEF IInv, TypeOK, RequestPcs, IsRequest, NewFrame
<1>4. RequestDepths = {} /\ Push(f)
  BY <1>1 DEF IInv, HandlerInv, Complete, EnterHandler
<1>5. /\ Owner = NoKey /\ Owner' = k
      /\ UNCHANGED Viewing
  BY <1>3, <1>4, OwnerPush DEF IInv
<1>6. QED
  BY <1>1, <1>2, <1>5, SameStacks DEF Lifecycle!Resume

\* The first dispatch gives the stack its key and its execution object.
LEMMA DispatchOpens ==
  ASSUME IInv, DispatchNew
  PROVE  \E k \in Keys : Lifecycle!Open(k)
<1> DEFINE k == execCount + 1
<1>1. /\ jsStack # <<>> /\ Top.pc = "dispatch" /\ ~Top.resumed /\ k \in Keys
      /\ execState' = [execState EXCEPT ![k] = "live"]
      /\ execCmd' = [execCmd EXCEPT ![k] = Top.cmd]
      /\ IntoLoop(k)
      /\ UNCHANGED log
  BY DEF DispatchNew, At, historyVars
<1>2. IsRequest(Top) /\ Top.key = NoKey /\ Top.cmd \in Cmds
  BY <1>1, TopFrameInv, TopFields DEF IInv, FrameInv, IsRequest, RequestPcs
<1>3. PICK f \in Frames :
        SetTop(f) /\ f.key = k /\ (f.pc = "vcf" \/ f.pc = "dcf")
  BY <1>1, IntoLoopFrame DEF IInv
<1>4. Owner = NoKey /\ Owner' = k /\ UNCHANGED Viewing
  BY <1>1, <1>2, <1>3, OwnerStep
     DEF IInv, IsRequest, RequestPcs, DataPcs, ViewPcs
<1>5. /\ execState \in [Keys -> {"absent", "live", "null"}]
      /\ execCmd \in [Keys -> Cmds \cup {NoCmd}]
      /\ execState[k] = "absent"
  BY <1>1 DEF IInv, TypeOK, ObjectsInv
<1>6. /\ Status[k] = "new"
      /\ Status' = [Status EXCEPT ![k] = "open"]
  BY <1>1, <1>5 DEF Status
<1>7. Need'[k] \in Nat /\ Need' = [Need EXCEPT ![k] = Need'[k]]
  <2>1. NumDCFs[Top.cmd] \in Nat /\ Top.cmd # NoCmd
    BY <1>2, FunctionCounts, ConstantsAssumption
  <2>2. Need'[k] = NumDCFs[Top.cmd]
    BY <1>1, <1>5, <2>1 DEF Need
  <2>3. Need' = [Need EXCEPT ![k] = Need'[k]]
    BY <1>1, <1>5 DEF Need
  <2>4. QED
    BY <2>1, <2>2, <2>3
<1>8. UNCHANGED Done
  BY <1>1 DEF Done
<1>9. Lifecycle!Open(k)
  BY <1>4, <1>6, <1>7, <1>8 DEF Lifecycle!Open
<1>10. QED
  BY <1>1, <1>9

\* A later dispatch keeps the key the answer named.
LEMMA UnseenDispatch ==
  ASSUME IInv, DispatchResumed
  PROVE  UNCHANGED Lifecycle!vars
<1>1. /\ jsStack # <<>> /\ Top.pc = "dispatch" /\ Top.resumed /\ IntoLoop(Top.key)
      /\ UNCHANGED <<execState, execCmd, log>>
  BY DEF DispatchResumed, At, historyVars
<1>2. IsRequest(Top) /\ Top.key \in Keys
  BY <1>1, TopFrameInv DEF FrameInv, IsRequest, RequestPcs
<1>3. PICK f \in Frames :
        SetTop(f) /\ f.key = Top.key /\ (f.pc = "vcf" \/ f.pc = "dcf")
  BY <1>1, <1>2, IntoLoopFrame DEF IInv
<1>4. QED
  BY <1>1, <1>2, <1>3, UnseenMove DEF IsRequest, RequestPcs, DataPcs, ViewPcs

\* A DCF is called.
LEMMA CallDCFRunsData ==
  ASSUME IInv, CallDCF
  PROVE  \E k \in Keys : Lifecycle!RunData(k)
<1> USE DEF RequestPcs, DataPcs, IsRequest
<1> DEFINE k == Top.key
           f == [Top EXCEPT !.pc = "inDCF", !.local = gen]
<1>1. /\ jsStack # <<>> /\ Top.pc = "dcf" /\ Top.i < NumDCFs[Top.cmd] /\ SetTop(f)
      /\ log' = [log EXCEPT ![k] = Append(@, Top.i + 1)]
      /\ UNCHANGED <<execState, execCmd>>
  BY DEF CallDCF, At
<1>2. /\ k \in Keys /\ execState[k] = "live" /\ execCmd[k] = Top.cmd
      /\ Top.i = numCalled[k]
  BY <1>1, TopFrameInv DEF FrameInv
<1>3. f \in Frames /\ f.key = k /\ f.pc = "inDCF"
  BY <1>1, TopFields DEF IInv, TypeOK, Frames
<1>4. Owner = k /\ Owner' = k /\ Viewing = FALSE /\ Viewing' = FALSE
  BY <1>1, <1>3, OwnerStep DEF IInv
<1>5. Status[k] = "open" /\ Done[k] < Need[k]
  BY <1>1, <1>2, OpenStack
<1>6. UNCHANGED <<Status, Need>>
  BY <1>1 DEF Status, Need
<1>7. Done' = [Done EXCEPT ![k] = @ + 1]
  <2>1. log \in [Keys -> Seq(Nat \ {0})]
    BY DEF IInv, TypeOK
  <2>2. Len(Append(log[k], Top.i + 1)) = Len(log[k]) + 1
    BY <1>2, <2>1
  <2>3. QED
    BY <1>1, <1>2, <2>1, <2>2 DEF Done
<1>8. Lifecycle!RunData(k)
  BY <1>4, <1>5, <1>6, <1>7 DEF Lifecycle!RunData
<1>9. QED
  BY <1>2, <1>8

\* A DCF returns STACK_EXIT.
LEMMA DCFExitsCloses ==
  ASSUME IInv, DCFExits
  PROVE  \E k \in Keys : Lifecycle!Close(k)
<1> USE DEF RequestPcs, DataPcs, IsRequest
<1> DEFINE k == Top.key
           f == [Top EXCEPT !.pc = "done"]
<1>1. /\ jsStack # <<>> /\ Top.pc = "inDCF" /\ SetTop(f)
      /\ execState' = [execState EXCEPT ![k] = "null"]
      /\ UNCHANGED <<execCmd, log>>
  BY DEF DCFExits, At
<1>2. k \in Keys /\ execState[k] = "live"
  BY <1>1, TopFrameInv DEF FrameInv
<1>3. f \in Frames /\ f.key = k /\ f.pc = "done"
  BY <1>1, TopFields DEF IInv, Frames
<1>4. Owner = k /\ Owner' = k /\ Viewing = FALSE /\ Viewing' = FALSE
  BY <1>1, <1>3, OwnerStep DEF IInv
<1>5. Status[k] = "open"
  BY <1>2, OpenStack
<1>6. Status' = [Status EXCEPT ![k] = "closed"]
  <2>1. execState \in [Keys -> {"absent", "live", "null"}]
    BY DEF IInv, TypeOK
  <2>2. QED
    BY <1>1, <1>2, <2>1 DEF Status
<1>7. UNCHANGED <<Need, Done>>
  BY <1>1 DEF Need, Done
<1>8. Lifecycle!Close(k)
  BY <1>4, <1>5, <1>6, <1>7 DEF Lifecycle!Close
<1>9. QED
  BY <1>2, <1>8

\* A VCF is called, after all DCFs.
LEMMA CallVCFRunsView ==
  ASSUME IInv, CallVCF
  PROVE  \E k \in Keys : Lifecycle!RunView(k)
<1> USE DEF RequestPcs, ViewPcs, IsRequest
<1> DEFINE k == Top.key
           f == [Top EXCEPT !.pc = "inVCF"]
<1>1. /\ jsStack # <<>> /\ Top.pc = "vcf" /\ SetTop(f)
      /\ UNCHANGED <<execState, execCmd, log>>
  BY DEF CallVCF, At, engineVars, historyVars
<1>2. /\ k \in Keys /\ execState[k] = "live" /\ execCmd[k] = Top.cmd
      /\ numCalled[k] = NumDCFs[Top.cmd]
  BY <1>1, TopFrameInv DEF FrameInv
<1>3. f \in Frames /\ f.key = k /\ f.pc = "inVCF"
  BY <1>1, TopFields DEF IInv, Frames
<1>4. Owner = k /\ Owner' = k /\ Viewing' = TRUE
  BY <1>1, <1>3, OwnerStep DEF IInv
<1>5. Status[k] = "open" /\ Done[k] = Need[k]
  BY <1>2, OpenStack
<1>6. Lifecycle!RunView(k)
  BY <1>1, <1>4, <1>5, SameStacks DEF Lifecycle!RunView
<1>7. QED
  BY <1>2, <1>6

\* A VCF ends.
LEMMA VCFReturnsEndsView ==
  ASSUME IInv, VCFReturns
  PROVE  \E k \in Keys : Lifecycle!EndView(k)
<1> USE DEF RequestPcs, ViewPcs, IsRequest
<1> DEFINE k == Top.key
<1>1. /\ jsStack # <<>> /\ Top.pc = "inVCF"
      /\ UNCHANGED <<execState, execCmd, log>>
  BY DEF VCFReturns, At, engineVars, historyVars
<1>2. k \in Keys
  BY <1>1, TopFrameInv DEF FrameInv
<1>3. \E f \in Frames : SetTop(f) /\ IsRequest(f) /\ f.key = k /\ f.pc # "inVCF"
  <2> DEFINE g == [Top EXCEPT !.pc = "vcf", !.i = @ + 1]
             h == [Top EXCEPT !.pc = "done"]
  <2>1. /\ g \in Frames /\ g.key = k /\ g.pc = "vcf"
        /\ h \in Frames /\ h.key = k /\ h.pc = "done"
    BY <1>1, TopFields DEF IInv, Frames
  <2>2. SetTop(g) \/ SetTop(h)
    BY DEF VCFReturns
  <2>3. QED
    BY <2>1, <2>2
<1>4. Owner = k /\ Owner' = k /\ Viewing = TRUE /\ Viewing' = FALSE
  BY <1>1, <1>3, OwnerStep DEF IInv
<1>5. Lifecycle!EndView(k)
  BY <1>1, <1>4, SameStacks DEF Lifecycle!EndView
<1>6. QED
  BY <1>2, <1>5

\* requestHandler returns: a stack that has a key gives the engine up.
LEMMA FinishReleases ==
  ASSUME IInv, Finish
  PROVE  (\E k \in Keys : Lifecycle!Release(k)) \/ UNCHANGED Lifecycle!vars
<1>1. /\ jsStack # <<>> /\ IsRequest(Top) /\ Top.pc = "done" /\ Pop
      /\ UNCHANGED <<execState, execCmd, log>>
  BY DEF Finish, At, IsRequest, RequestPcs, historyVars
<1>2. Owner = Top.key /\ Owner' = NoKey /\ Viewing = FALSE /\ Viewing' = FALSE
  BY <1>1, OwnerPop DEF IInv
<1>3. CASE Top.key = NoKey
  BY <1>1, <1>2, <1>3, Unseen
<1>4. CASE Top.key \in Keys
  <2>1. Lifecycle!Release(Top.key)
    BY <1>1, <1>2, SameStacks DEF Lifecycle!Release
  <2>2. QED
    BY <1>4, <2>1
<1>5. QED
  BY <1>1, <1>3, <1>4, TopFields DEF IInv

-----------------------------------------------------------------------------
LEMMA InitMapsToInit == Init => Lifecycle!Init
<1> SUFFICES ASSUME Init PROVE Lifecycle!Init
  OBVIOUS
<1>1. Owner = NoKey /\ Viewing = FALSE
  BY DEF Init, Owner, Viewing, RequestDepths, Depths
<1>2. Status = [k \in Keys |-> "new"]
  BY DEF Init, Status
<1>3. Need = [k \in Keys |-> 0] /\ Done = [k \in Keys |-> 0]
  BY DEF Init, Need, Done
<1>4. QED
  BY <1>1, <1>2, <1>3 DEF Lifecycle!Init

LEMMA NextMapsToNext == IInv /\ [Next]_vars => [Lifecycle!Next]_Lifecycle!vars
<1> SUFFICES ASSUME IInv, [Next]_vars PROVE [Lifecycle!Next]_Lifecycle!vars
  OBVIOUS
<1>1. CASE Application
  BY <1>1, UnseenApplication
<1>2. CASE NativeAnswers
  <2>1. ASSUME NEW k \in Keys, NEW last \in BOOLEAN, Complete(k, last)
        PROVE  Lifecycle!Next
    BY <2>1, CompleteResumes DEF Lifecycle!Next
  <2>2. ASSUME NEW k \in Keys, DropAnswer(k) PROVE UNCHANGED Lifecycle!vars
    BY <2>2, NoFrameStep, SameOwner, Unseen DEF DropAnswer, IInv, engineVars, historyVars
  <2>3. QED
    BY <1>2, <2>1, <2>2 DEF NativeAnswers
<1>3. CASE Engine
  <2>1. CASE DispatchNew
    BY <2>1, DispatchOpens DEF Lifecycle!Next
  <2>2. CASE CallDCF
    BY <2>2, CallDCFRunsData DEF Lifecycle!Next
  <2>3. CASE CallVCF
    BY <2>3, CallVCFRunsView DEF Lifecycle!Next
  <2>4. CASE Finish
    BY <2>4, FinishReleases DEF Lifecycle!Next
  <2>5. QED
    BY <1>3, <2>1, <2>2, <2>3, <2>4, UnseenSteps, UnseenDispatch, UnseenErrors DEF Engine
<1>4. CASE FunctionEnds
  <2>1. CASE DCFExits
    BY <2>1, DCFExitsCloses DEF Lifecycle!Next
  <2>2. CASE VCFReturns
    BY <2>2, VCFReturnsEndsView DEF Lifecycle!Next
  <2>3. QED
    BY <1>4, <2>1, <2>2, UnseenSteps, UnseenThrow, UnseenErrors DEF FunctionEnds
<1>5. CASE UNCHANGED vars
  BY <1>5, NoFrameStep, SameOwner, Unseen DEF IInv, vars, engineVars, historyVars
<1>6. QED
  BY <1>1, <1>2, <1>3, <1>4, <1>5 DEF Next

\* However control functions, errors, native calls and answers follow one
\* another, stacks do not interleave, a suspended one goes on where it stopped,
\* and a closed one stays closed.
THEOREM EngineIsALifecycle == Spec => ImplementsLifecycle
<1>1. QED
  BY InductiveInvariant, InitMapsToInit, NextMapsToNext, PTL
     DEF Spec, ImplementsLifecycle, Lifecycle!Spec
=============================================================================
