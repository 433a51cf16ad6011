---------------------------- MODULE CommandStack ----------------------------
(***************************************************************************)
(* The command-stack engine of QuickConnect.js.                            *)
(*                                                                         *)
(* A command names a stack of control functions: validation (ValCF), data  *)
(* (DCF) and view (VCF) functions, and error functions (ECF) for an error  *)
(* command.  requestHandler runs them in that order on the single          *)
(* JavaScript thread.  A DCF that has started an asynchronous native call  *)
(* returns WAIT_FOR_DATA; the stack is then suspended in executionMap      *)
(* under its execution key, and handleRequestCompletionFromNative resumes  *)
(* it when the answer comes.                                               *)
(*                                                                         *)
(* The JavaScript call stack is explicit (jsStack), because the hazards    *)
(* are re-entrancy hazards: a control function may itself call             *)
(* qc.handleRequest, qc.handleError or a native facade, and three pieces   *)
(* of global state (requestHandler, generateExecutionKey and the undeclared*)
(* variable `key') are saved, replaced and restored along the way.         *)
(*                                                                         *)
(* Whatever a control function computes is left out; what it may do to the *)
(* engine (which calls it makes, in which order, how it ends) is a free    *)
(* choice of the model.                                                    *)
(***************************************************************************)
EXTENDS Integers, Sequences

CONSTANTS
  Cmds,       \* the commands the application maps
  NoCmd,      \* the command of an execution object that does not exist
  NumValCFs,  \* NumValCFs[c]: how many ValCFs validationMap holds for c
  NumDCFs,    \* likewise for dataMap,
  NumVCFs,    \* viewMap
  NumECFs,    \* and errorMap
  MaxExecs,   \* bound on executionCount: how many stacks are ever started
  MaxDepth,   \* bound on the depth of the JavaScript call stack
  MaxCalls    \* bound on unanswered native calls carrying the same key

ASSUME ConstantsAssumption ==
  /\ NoCmd \notin Cmds
  /\ NumValCFs \in [Cmds -> Nat]
  /\ NumDCFs   \in [Cmds -> Nat]
  /\ NumVCFs   \in [Cmds -> Nat]
  /\ NumECFs   \in [Cmds -> Nat]
  /\ MaxExecs \in Nat
  /\ MaxDepth \in Nat
  /\ MaxCalls \in Nat

VARIABLES
  jsStack,    \* the engine's frames on the JavaScript call stack, innermost last
  handler,    \* window.requestHandler: the engine, or the stub that refuses
  gen,        \* window.generateExecutionKey
  execState,  \* executionMap[k]: no such property, an execution object, or null
  execCmd,    \* executionMap[k]['cmd']
  numCalled,  \* executionMap[k]['numFuncsCalled']
  execCount,  \* executionCount
  globalKey,  \* whether the undeclared global variable `key' has been assigned
  inFlight,   \* how many unanswered native calls carry the execution key k
  log,        \* history: the indices of the DCFs the stack k has called
  poisoned,   \* history: a ValCF has thrown out of requestHandler
  exited,     \* history: the stacks of which a DCF has returned STACK_EXIT
  taken       \* history: keys handed out while the latest DCF has been running

engineVars == <<handler, gen, execState, execCmd, numCalled, execCount>>
historyVars == <<log, poisoned, exited, taken>>
vars == <<jsStack, engineVars, globalKey, inFlight, historyVars>>

-----------------------------------------------------------------------------
\* Execution keys.  The code's key is the time and executionCount; the count
\* alone already tells any two keys of a page apart.
Keys == 1 .. MaxExecs
NoKey == 0

\* window.generateExecutionKey is undefined until the first dispatch, then
\* either the generator that will hand out one stack's key, or the stub that
\* answers "MORE_THAN_ONE_ASYNC_CALL_IN_A_DCF", which is no stack's key.
Generators == [mode : {"undefined", "oneShot", "spent"}, key : Keys \cup {NoKey}]
OneShot(k) == [mode |-> "oneShot", key |-> k]
Undefined  == [mode |-> "undefined", key |-> NoKey]
Spent      == [mode |-> "spent", key |-> NoKey]

\* Where a frame is: about to look for the next function, inside a control
\* function ("in..."), or about to leave.
ValPcs == {"val", "inVal"}
DataPcs == {"dcf", "inDCF"}
ViewPcs == {"vcf", "inVCF"}
ErrorPcs == {"ecf", "inECF"}
RequestPcs == ValPcs \cup {"dispatch"} \cup DataPcs \cup ViewPcs \cup {"done"}
FunctionPcs == {"inVal", "inDCF", "inVCF", "inECF"}

\* A frame of requestHandler (with the loop it is in), or one of dispatchToECF,
\* which uses cmd, pc and i only.
Frames == [cmd     : Cmds,
           pc      : RequestPcs \cup ErrorPcs,
           i       : Nat,                      \* the loop variable
           key     : Keys \cup {NoKey},        \* internalExecutionKey
           resumed : BOOLEAN,                  \* callBackData != null
           saved   : {"engine", "stub"},       \* globalRequestHandler
           cached  : Generators,               \* cached_generateExecutionKey
           local   : Generators]               \* local_generateExecutionKey

NewFrame(c, pc, k, resumed) ==
  [cmd |-> c, pc |-> pc, i |-> 0, key |-> k, resumed |-> resumed,
   saved |-> handler, cached |-> Undefined, local |-> Undefined]

IsRequest(f) == f.pc \in RequestPcs
Top == jsStack[Len(jsStack)]
At(pc) == jsStack # <<>> /\ Top.pc = pc
Push(f) == jsStack' = Append(jsStack, f)
Pop == jsStack' = SubSeq(jsStack, 1, Len(jsStack) - 1)
SetTop(f) == jsStack' = [jsStack EXCEPT ![Len(jsStack)] = f]

\* The application's own code is running: an event handler at the bottom of the
\* call stack, or a control function at its top.
AppRunning == jsStack # <<>> => Top.pc \in FunctionPcs

\* A DCF has been called and has not returned.
InDCF == \E d \in 1 .. Len(jsStack) : jsStack[d].pc = "inDCF"

Init ==
  /\ jsStack = <<>>
  /\ handler = "engine"
  /\ gen = Undefined
  /\ execState = [k \in Keys |-> "absent"]
  /\ execCmd = [k \in Keys |-> NoCmd]
  /\ numCalled = [k \in Keys |-> 0]
  /\ execCount = 0
  /\ globalKey = FALSE
  /\ inFlight = [k \in Keys |-> 0]
  /\ log = [k \in Keys |-> <<>>]
  /\ poisoned = FALSE
  /\ exited = {}
  /\ taken = 0

-----------------------------------------------------------------------------
(***************************************************************************)
(* Faulty variants of the actions below, for checking that the properties  *)
(* notice the fault; no action of Next uses them.                          *)
(***************************************************************************)

\* requestHandler that installs no stub.
EnterHandlerUnguarded(c, pc, k, resumed) ==
  /\ Push(NewFrame(c, pc, k, resumed))
  /\ UNCHANGED handler

\* requestHandler that does not put the saved handler back.
FinishWithoutRestoring ==
  /\ At("done")
  /\ Pop
  /\ UNCHANGED <<engineVars, globalKey, inFlight, historyVars>>

\* A generator that does not replace itself when it hands out the key.
MakeCallRepeatedly ==
  /\ AppRunning
  /\ gen.mode = "oneShot"
  /\ inFlight[gen.key] < MaxCalls
  /\ inFlight' = [inFlight EXCEPT ![gen.key] = @ + 1]
  /\ taken' = IF InDCF THEN taken + 1 ELSE taken
  /\ UNCHANGED <<jsStack, engineVars, globalKey, log, poisoned, exited>>

\* dispatchToDCF that forgets to raise numFuncsCalled.
CallDCFUncounted ==
  /\ At("dcf")
  /\ Top.i < NumDCFs[Top.cmd]
  /\ SetTop([Top EXCEPT !.pc = "inDCF", !.local = gen])
  /\ log' = [log EXCEPT ![Top.key] = Append(@, Top.i + 1)]
  /\ taken' = 0
  /\ UNCHANGED <<engineVars, globalKey, inFlight, poisoned, exited>>

\* The saved generator of before the dispatch put back after each DCF.
DCFReturnsToCached ==
  /\ At("inDCF")
  /\ gen' = Top.cached
  /\ SetTop([Top EXCEPT !.pc = "dcf", !.i = @ + 1])
  /\ UNCHANGED <<handler, execState, execCmd, numCalled, execCount, globalKey,
                 inFlight, historyVars>>

\* dispatchToDCF that answers WAIT_FOR_DATA with STACK_CONTINUE.
DCFWaitContinues ==
  /\ At("inDCF")
  /\ SetTop([Top EXCEPT !.pc = "vcf", !.i = 0])
  /\ UNCHANGED <<engineVars, globalKey, inFlight, historyVars>>

\* dispatchToDCF that leaves the execution object in the map on STACK_EXIT.
DCFExitsKeepingObject ==
  /\ At("inDCF")
  /\ exited' = exited \cup {Top.key}
  /\ SetTop([Top EXCEPT !.pc = "done"])
  /\ UNCHANGED <<engineVars, globalKey, inFlight, log, poisoned, taken>>

\* An answer to a call that was never made, or that has been answered already.
AnsweredUnasked(k, last) ==
  /\ jsStack = <<>>
  /\ inFlight' = [inFlight EXCEPT ![k] = IF last THEN @ - 1 ELSE @]

-----------------------------------------------------------------------------
(***************************************************************************)
(* What application code may call.                                         *)
(***************************************************************************)

\* requestHandler(c, ...) entered through window.requestHandler: the handler is
\* saved in the frame and the refusing stub takes its place.
EnterHandler(c, pc, k, resumed) ==
  /\ Push(NewFrame(c, pc, k, resumed))
  /\ handler' = "stub"

\* qc.handleRequest while no stack is running.  MaxExecs bounds how often.
HandleRequest(c) ==
  /\ AppRunning
  /\ Len(jsStack) < MaxDepth
  /\ handler = "engine"
  /\ execCount < MaxExecs
  /\ EnterHandler(c, "val", NoKey, FALSE)
  /\ UNCHANGED <<gen, execState, execCmd, numCalled, execCount, globalKey,
                 inFlight, historyVars>>

\* qc.handleRequest while the stub is installed: a debug message, nothing else.
RefuseRequest(c) ==
  /\ AppRunning
  /\ Len(jsStack) < MaxDepth
  /\ handler = "stub"
  /\ UNCHANGED vars

\* qc.handleError: dispatchToECF is not guarded, so it may be called from within
\* any control function, an ECF included.
HandleError(c) ==
  /\ AppRunning
  /\ Len(jsStack) < MaxDepth
  /\ Push(NewFrame(c, "ecf", NoKey, FALSE))
  /\ UNCHANGED <<engineVars, globalKey, inFlight, historyVars>>

\* qc.makeCall, the end of every native facade: the message takes the key the
\* generator hands out, and the generator is spent.  Two cases change nothing
\* and have no action: a spent generator (the message carries no stack's key,
\* so its answer is ignored), and an undefined one (a TypeError before the
\* message is queued).
MakeCall ==
  /\ AppRunning
  /\ gen.mode = "oneShot"
  /\ inFlight[gen.key] < MaxCalls
  /\ gen' = Spent
  /\ inFlight' = [inFlight EXCEPT ![gen.key] = @ + 1]
  /\ taken' = IF InDCF THEN taken + 1 ELSE taken
  /\ UNCHANGED <<jsStack, handler, execState, execCmd, numCalled, execCount,
                 globalKey, log, poisoned, exited>>

\* DBScript.addStatement, executeSetDataScript and the row loop of dbAccess all
\* assign to `key' without declaring it, which creates the global variable.
AssignGlobalKey ==
  /\ AppRunning
  /\ globalKey' = TRUE
  /\ UNCHANGED <<jsStack, engineVars, inFlight, historyVars>>

-----------------------------------------------------------------------------
(***************************************************************************)
(* The native side answers a call.  stringByEvaluatingJavaScriptFromString *)
(* and loadUrl run the answer as an event of its own, so the call stack is *)
(* empty.  Native code may answer the same call again (last = FALSE), and  *)
(* may never answer it.                                                    *)
(***************************************************************************)
Answered(k, last) ==
  /\ jsStack = <<>>
  /\ inFlight[k] > 0
  /\ inFlight' = [inFlight EXCEPT ![k] = IF last THEN @ - 1 ELSE @]

\* An answer that names the key of a live execution object, with the engine free.
Complete(k, last) ==
  /\ Answered(k, last)
  /\ execState[k] = "live"
  /\ handler = "engine"
  /\ EnterHandler(execCmd[k], "dispatch", k, TRUE)
  /\ UNCHANGED <<gen, execState, execCmd, numCalled, execCount, globalKey,
                 historyVars>>

\* An answer that resumes nothing: it is a positional array or names a result
\* key (callBackData['key'] is not an execution key), the execution object is
\* gone, or the stub is installed.
DropAnswer(k) ==
  /\ Answered(k, TRUE)
  /\ UNCHANGED <<jsStack, engineVars, globalKey, historyVars>>

-----------------------------------------------------------------------------
(***************************************************************************)
(* requestHandler, dispatchToValCF.                                        *)
(***************************************************************************)
CallValCF ==
  /\ At("val")
  /\ Top.i < NumValCFs[Top.cmd]
  /\ SetTop([Top EXCEPT !.pc = "inVal"])
  /\ UNCHANGED <<engineVars, globalKey, inFlight, historyVars>>

ValCFReturns ==
  /\ At("inVal")
  /\ \/ SetTop([Top EXCEPT !.pc = "val", !.i = @ + 1])   \* anything but STACK_EXIT
     \/ SetTop([Top EXCEPT !.pc = "done"])               \* STACK_EXIT
  /\ UNCHANGED <<engineVars, globalKey, inFlight, historyVars>>

\* Neither dispatchToValCF nor its call in requestHandler is inside a try: the
\* exception leaves requestHandler before the handler is restored, and
\* qc.handleRequest swallows it.
ValCFThrows ==
  /\ At("inVal")
  /\ Pop
  /\ poisoned' = TRUE
  /\ UNCHANGED <<engineVars, globalKey, inFlight, log, exited, taken>>

EndValidation ==
  /\ At("val")
  /\ Top.i >= NumValCFs[Top.cmd]
  /\ SetTop([Top EXCEPT !.pc = "dispatch"])
  /\ UNCHANGED <<engineVars, globalKey, inFlight, historyVars>>

-----------------------------------------------------------------------------
(***************************************************************************)
(* dispatchToDCF.                                                          *)
(***************************************************************************)

\* After the prologue: a command without DCFs returns STACK_CONTINUE at once and
\* leaves the new generator installed, any other enters the loop.
IntoLoop(k) ==
  SetTop(IF NumDCFs[Top.cmd] = 0
         THEN [Top EXCEPT !.pc = "vcf", !.i = 0, !.key = k]
         ELSE [Top EXCEPT !.pc = "dcf", !.i = numCalled[k], !.key = k, !.cached = gen])

\* The first run of a stack: a new key and a new execution object.
DispatchNew ==
  LET k == execCount + 1 IN
  /\ At("dispatch")
  /\ ~Top.resumed
  /\ k \in Keys
  /\ execCount' = k
  /\ gen' = OneShot(k)
  /\ execState' = [execState EXCEPT ![k] = "live"]
  /\ execCmd' = [execCmd EXCEPT ![k] = Top.cmd]
  /\ IntoLoop(k)
  /\ UNCHANGED <<handler, numCalled, globalKey, inFlight, historyVars>>

\* A resumed stack whose answer can be stored: `key' exists, so
\* executionObject['parameters'][key] = resultData succeeds.
DispatchResumed ==
  /\ At("dispatch")
  /\ Top.resumed
  /\ globalKey
  /\ gen' = OneShot(Top.key)
  /\ IntoLoop(Top.key)
  /\ UNCHANGED <<handler, execState, execCmd, numCalled, execCount, globalKey,
                 inFlight, historyVars>>

\* The same when `key' was never assigned (a ReferenceError), or when the answer
\* has its execution key under 'key' but not under 'exKey' (a TypeError, and the
\* new generator is nobody's): caught and logged by requestHandler.  The new
\* generator stays installed.
DispatchResumedFails ==
  /\ At("dispatch")
  /\ Top.resumed
  /\ \/ ~globalKey /\ gen' = OneShot(Top.key)
     \/ gen' = Spent
  /\ SetTop([Top EXCEPT !.pc = "done"])
  /\ UNCHANGED <<handler, execState, execCmd, numCalled, execCount, globalKey,
                 inFlight, historyVars>>

\* numFuncsCalled is raised before the function is called.
CallDCF ==
  /\ At("dcf")
  /\ Top.i < NumDCFs[Top.cmd]
  /\ SetTop([Top EXCEPT !.pc = "inDCF", !.local = gen])
  /\ numCalled' = [numCalled EXCEPT ![Top.key] = @ + 1]
  /\ log' = [log EXCEPT ![Top.key] = Append(@, Top.i + 1)]
  /\ taken' = 0
  /\ UNCHANGED <<handler, gen, execState, execCmd, execCount, globalKey,
                 inFlight, poisoned, exited>>

\* Data, STACK_CONTINUE or nothing: the generator is restored for the next DCF.
DCFReturns ==
  /\ At("inDCF")
  /\ gen' = Top.local
  /\ SetTop([Top EXCEPT !.pc = "dcf", !.i = @ + 1])
  /\ UNCHANGED <<handler, execState, execCmd, numCalled, execCount, globalKey,
                 inFlight, historyVars>>

\* WAIT_FOR_DATA, or an exception (caught, logged): dispatchToDCF returns
\* STACK_EXIT, the execution object stays, the generator is not restored.
DCFWaitsOrThrows ==
  /\ At("inDCF")
  /\ SetTop([Top EXCEPT !.pc = "done"])
  /\ UNCHANGED <<engineVars, globalKey, inFlight, historyVars>>

\* STACK_EXIT: the execution object becomes null.  The statement that should
\* restore the generator names a variable that does not exist here; its
\* ReferenceError is caught and STACK_EXIT is returned all the same.
DCFExits ==
  /\ At("inDCF")
  /\ execState' = [execState EXCEPT ![Top.key] = "null"]
  /\ exited' = exited \cup {Top.key}
  /\ SetTop([Top EXCEPT !.pc = "done"])
  /\ UNCHANGED <<handler, gen, execCmd, numCalled, execCount, globalKey,
                 inFlight, log, poisoned, taken>>

EndDCFs ==
  /\ At("dcf")
  /\ Top.i >= NumDCFs[Top.cmd]
  /\ gen' = Top.cached
  /\ SetTop([Top EXCEPT !.pc = "vcf", !.i = 0])
  /\ UNCHANGED <<handler, execState, execCmd, numCalled, execCount, globalKey,
                 inFlight, historyVars>>

-----------------------------------------------------------------------------
(***************************************************************************)
(* dispatchToVCF and the end of requestHandler.                            *)
(***************************************************************************)
CallVCF ==
  /\ At("vcf")
  /\ Top.i < NumVCFs[Top.cmd]
  /\ SetTop([Top EXCEPT !.pc = "inVCF"])
  /\ UNCHANGED <<engineVars, globalKey, inFlight, historyVars>>

\* 'stop' ends the loop; anything else, and an exception, goes on to the next VCF.
VCFReturns ==
  /\ At("inVCF")
  /\ \/ SetTop([Top EXCEPT !.pc = "vcf", !.i = @ + 1])
     \/ SetTop([Top EXCEPT !.pc = "done"])
  /\ UNCHANGED <<engineVars, globalKey, inFlight, historyVars>>

EndVCFs ==
  /\ At("vcf")
  /\ Top.i >= NumVCFs[Top.cmd]
  /\ SetTop([Top EXCEPT !.pc = "done"])
  /\ UNCHANGED <<engineVars, globalKey, inFlight, historyVars>>

\* requestHandler returns: the saved handler is put back.
Finish ==
  /\ At("done")
  /\ handler' = Top.saved
  /\ Pop
  /\ UNCHANGED <<gen, execState, execCmd, numCalled, execCount, globalKey,
                 inFlight, historyVars>>

-----------------------------------------------------------------------------
(***************************************************************************)
(* dispatchToECF.                                                          *)
(***************************************************************************)
CallECF ==
  /\ At("ecf")
  /\ Top.i < NumECFs[Top.cmd]
  /\ SetTop([Top EXCEPT !.pc = "inECF"])
  /\ UNCHANGED <<engineVars, globalKey, inFlight, historyVars>>

\* On to the next ECF, or 'stop'.
ECFReturns ==
  /\ At("inECF")
  /\ \/ SetTop([Top EXCEPT !.pc = "ecf", !.i = @ + 1])
     \/ Pop
  /\ UNCHANGED <<engineVars, globalKey, inFlight, historyVars>>

EndECFs ==
  /\ At("ecf")
  /\ Top.i >= NumECFs[Top.cmd]
  /\ Pop
  /\ UNCHANGED <<engineVars, globalKey, inFlight, historyVars>>

-----------------------------------------------------------------------------
Application ==
  \/ \E c \in Cmds : HandleRequest(c) \/ RefuseRequest(c) \/ HandleError(c)
  \/ MakeCall
  \/ AssignGlobalKey

NativeAnswers ==
  \E k \in Keys : \/ \E last \in BOOLEAN : Complete(k, last)
                  \/ DropAnswer(k)

\* The steps the engine takes by itself.
Engine ==
  \/ CallValCF \/ EndValidation
  \/ DispatchNew \/ DispatchResumed \/ DispatchResumedFails
  \/ CallDCF \/ EndDCFs
  \/ CallVCF \/ EndVCFs \/ Finish
  \/ CallECF \/ EndECFs

\* A control function ends.
FunctionEnds ==
  \/ ValCFReturns \/ ValCFThrows
  \/ DCFReturns \/ DCFWaitsOrThrows \/ DCFExits
  \/ VCFReturns
  \/ ECFReturns

Next == Application \/ NativeAnswers \/ Engine \/ FunctionEnds

Spec == Init /\ [][Next]_vars

(***************************************************************************)
(* Fairness.  JavaScript runs to completion, so the engine's next step is  *)
(* always taken.  A control function that is given the processor again and *)
(* again ends, at whatever depth it runs: strong fairness, because the     *)
(* error functions it calls on the way suspend it.  Nothing is assumed of  *)
(* events and of native answers.                                           *)
(***************************************************************************)
FairSpec ==
  /\ Spec
  /\ WF_vars(Engine)
  /\ \A d \in 1 .. MaxDepth : SF_vars(Len(jsStack) = d /\ FunctionEnds)

-----------------------------------------------------------------------------
(***************************************************************************)
(* Properties.                                                             *)
(***************************************************************************)
TypeOK ==
  /\ jsStack \in Seq(Frames)
  /\ handler \in {"engine", "stub"}
  /\ gen \in Generators
  /\ execState \in [Keys -> {"absent", "live", "null"}]
  /\ execCmd \in [Keys -> Cmds \cup {NoCmd}]
  /\ numCalled \in [Keys -> Nat]
  /\ execCount \in 0 .. MaxExecs
  /\ globalKey \in BOOLEAN
  /\ inFlight \in [Keys -> Nat]
  /\ log \in [Keys -> Seq(Nat \ {0})]
  /\ poisoned \in BOOLEAN
  /\ exited \in SUBSET Keys
  /\ taken \in Nat

Depths == 1 .. Len(jsStack)
RequestDepths == {d \in Depths : IsRequest(jsStack[d])}

\* At any time at most one command stack is on the JavaScript call stack,
\* whatever its control functions and the error functions call: "prevent it
\* from being inappropriately called from within a running command stack".
OneStackAtATime == \A d, e \in RequestDepths : d = e

\* The refusing stub is installed exactly while a command stack runs, unless a
\* ValCF has thrown: no path through the engine forgets to restore the handler.
StubOnlyWhileRunning ==
  ~poisoned => (handler = "stub" <=> RequestDepths # {})

\* Each stack calls its DCFs once each and in the order they were mapped, over
\* all its suspensions, and however often a native call is answered.
DataFunctionsInOrder ==
  \A k \in Keys : log[k] = [n \in 1 .. Len(log[k]) |-> n]

\* A stack reaches its view functions only after it has called every one of its
\* DCFs; a wait, an exit or an exception on the way never leads there.
ViewsAfterData ==
  \A d \in RequestDepths :
    LET f == jsStack[d] IN
      f.pc \in ViewPcs => Len(log[f.key]) = NumDCFs[f.cmd]

\* STACK_EXIT from a DCF ends the stack for good: no answer that arrives later
\* makes any other function of it run.
ExitIsFinal ==
  \A d \in RequestDepths :
    jsStack[d].key \in exited => jsStack[d].pc = "done"

\* One DCF hands its stack's key to at most one native call: the stack is not
\* resumed several times for the same DCF because of the calls it made.
OneKeyPerDCF ==
  \A d \in RequestDepths : jsStack[d].pc = "inDCF" => taken <= 1

\* A native call made while a DCF runs can carry no other stack's key, though
\* the generator of a suspended stack may still have been installed before.
OwnKeyOnly ==
  \A d \in RequestDepths :
    jsStack[d].pc = "inDCF" /\ gen.mode = "oneShot" => gen.key = jsStack[d].key

\* The inductive invariant behind the properties above.  HandlerInv: what the
\* frame saved is what it must put back.
HandlerInv ==
  /\ \A d \in RequestDepths : handler = "stub" /\ jsStack[d].saved = "engine"
  /\ handler = "stub" => RequestDepths # {} \/ poisoned

\* numFuncsCalled counts the DCFs really called, and keys are used in order.
ObjectsInv == \A k \in Keys :
  /\ log[k] = [n \in 1 .. numCalled[k] |-> n]
  /\ execState[k] = "absent" <=> k > execCount
  /\ execState[k] = "absent" => numCalled[k] = 0
  /\ execState[k] # "absent" => /\ execCmd[k] \in Cmds
                                /\ numCalled[k] <= NumDCFs[execCmd[k]]
  /\ k \in exited => execState[k] = "null"

\* A frame that may still call functions of its stack agrees with the stack's
\* execution object, and its loop variable with numFuncsCalled.
FrameInv(f) ==
  /\ f.pc \in ValPcs => ~f.resumed
  /\ f.pc \in ValPcs \/ (f.pc = "dispatch" /\ ~f.resumed) => f.key = NoKey
  /\ f.pc \in DataPcs \cup ViewPcs \/ (f.pc = "dispatch" /\ f.resumed) =>
       /\ f.key \in Keys
       /\ execState[f.key] = "live"
       /\ execCmd[f.key] = f.cmd
  /\ f.pc = "dcf" => f.i = numCalled[f.key]
  /\ f.pc = "inDCF" => f.i + 1 = numCalled[f.key]
  /\ f.pc \in ViewPcs => numCalled[f.key] = NumDCFs[f.cmd]

FramesInv == \A d \in RequestDepths : FrameInv(jsStack[d])

IInv ==
  /\ TypeOK
  /\ OneStackAtATime
  /\ HandlerInv
  /\ ObjectsInv
  /\ FramesInv

\* The generator behind OneKeyPerDCF and OwnKeyOnly: in the loop of
\* dispatchToDCF it is this dispatch's own, and in a DCF it has handed out its
\* key at most once.  Only the innermost frame can be between two functions.
CallersInv == \A d \in 1 .. Len(jsStack) - 1 : jsStack[d].pc \in FunctionPcs

GeneratorInv ==
  \A d \in RequestDepths :
    LET f == jsStack[d] IN
      /\ f.pc = "dcf" => gen = OneShot(f.key)
      /\ f.pc = "inDCF" => /\ f.local = OneShot(f.key)
                           /\ \/ gen = OneShot(f.key) /\ taken = 0
                              \/ gen = Spent /\ taken <= 1

\* The stack that has the engine, as StackLifecycle sees it: a stack has its key
\* only from its first dispatch on.
Owner == IF RequestDepths = {} THEN NoKey
         ELSE jsStack[CHOOSE d \in RequestDepths : TRUE].key

\* And the rest of what it sees: the stack's execution object, the DCFs it has
\* called, and whether one of its VCFs is running.
Status == [k \in Keys |-> CASE execState[k] = "absent" -> "new"
                            [] execState[k] = "live"   -> "open"
                            [] execState[k] = "null"   -> "closed"]
Need == [k \in Keys |-> IF execCmd[k] = NoCmd THEN 0 ELSE NumDCFs[execCmd[k]]]
Done == [k \in Keys |-> Len(log[k])]
Viewing == \E d \in RequestDepths : jsStack[d].pc = "inVCF"

Lifecycle == INSTANCE StackLifecycle WITH
  Stacks <- Keys, None <- NoKey,
  status <- Status, need <- Need, done <- Done, owner <- Owner, viewing <- Viewing

\* The engine with its call stack, stubs and generators does no more than
\* StackLifecycle allows: stacks do not interleave, resume where they stopped,
\* and stay closed.
ImplementsLifecycle == Lifecycle!Spec

\* The engine never stays busy: whatever was running comes to its end, and then
\* requests are accepted again unless a ValCF has thrown.
EngineBecomesFree == handler = "stub" ~> (handler = "engine" \/ poisoned)
=============================================================================
