--------------------------- MODULE ServerAccessProofs ---------------------------
(***************************************************************************)
(* Proofs about ServerAccess: for any requests and objects, a request of   *)
(* an object that has one at a time has one result, of what became of      *)
(* itself, and leaves no timer behind.                                     *)
(***************************************************************************)
EXTENDS ServerAccess, TLAPS

\* The last request of an object is one of the object's, and there is one when a
\* callback or a timer looks for it.
HttpInv ==
  /\ \A o \in Objects : http[o] # None => ObjectOf[http[o]] = o
  /\ \A r \in Requests : state[r] = "loading" \/ timer[r] = "running" => Http(r) # None

\* A request that waits for the server or for its timer is the last of its object,
\* and has no result; one that has a result has no timer.
AloneInv(r) ==
  /\ state[r] = "new" => timer[r] = "none" /\ Calls(r) = 0 /\ r \notin aborted
  /\ state[r] = "loading" => timer[r] = "running"
  /\ timer[r] = "running" =>
       /\ state[r] \in {"loading", "failed"}
       /\ Calls(r) = 0
       /\ Http(r) = r
       /\ r \notin aborted
  /\ Calls(r) > 0 => Calls(r) = 1 /\ timer[r] \in {"cleared", "fired"}
  /\ \A n \in 1 .. Calls(r) : results[r][n].of = r

IInv ==
  /\ TypeOK
  /\ HttpInv
  /\ \A r \in Alone : AloneInv(r)

-----------------------------------------------------------------------------
LEMMA InitIInv == Init => IInv
<1> SUFFICES ASSUME Init
             PROVE  IInv
  OBVIOUS
<1>1. TypeOK
  BY ConstantsAssumption DEF Init, TypeOK, States, Timers
<1>2. HttpInv
  BY ConstantsAssumption DEF Init, HttpInv, Http
<1>3. \A r \in Alone : AloneInv(r)
  BY DEF Init, Alone, AloneInv, Calls
<1>4. QED
  BY <1>1, <1>2, <1>3 DEF IInv

\* A request of which nothing changes.
LEMMA Untouched ==
  ASSUME NEW r \in Alone, AloneInv(r),
         state'[r] = state[r], timer'[r] = timer[r],
         results'[r] = results[r], Http(r)' = Http(r), r \in aborted' => r \in aborted
  PROVE  AloneInv(r)'
  BY DEF AloneInv, Calls

\* What the callback of a request does when the request is the last of its object.
LEMMA CallbackOfLast ==
  ASSUME TypeOK, NEW r \in Requests, NEW timers \in [Requests -> Timers],
         Http(r) \in Requests, Callback(r, timers)
  PROVE  /\ timer' \in [Requests -> Timers]
         /\ results' \in [Requests -> Seq([timedOut : BOOLEAN, of : Requests])]
         /\ \A x \in Requests : x # r => results'[x] = results[x]
         /\ \A x \in Requests : x # Http(r) => timer'[x] = timers[x]
         /\ IF state'[Http(r)] = "complete" \/ Http(r) \in aborted'
              THEN timer'[Http(r)] = "cleared" /\ results'[r] = Append(results[r], Result(r))
              ELSE timer' = timers /\ UNCHANGED results
<1>1. Append(results[r], Result(r)) \in Seq([timedOut : BOOLEAN, of : Requests])
  <2>1. results[r] \in Seq([timedOut : BOOLEAN, of : Requests])
    BY DEF TypeOK
  <2>2. Result(r) \in [timedOut : BOOLEAN, of : Requests]
    BY DEF Result
  <2>3. QED
    BY <2>1, <2>2
<1>2. CASE state'[Http(r)] = "complete" \/ Http(r) \in aborted'
  <2>1. /\ timer' = [timers EXCEPT ![Http(r)] = "cleared"]
        /\ results' = [results EXCEPT ![r] = Append(results[r], Result(r))]
    BY <1>2 DEF Callback
  <2>2. /\ results' \in [Requests -> Seq([timedOut : BOOLEAN, of : Requests])]
        /\ results'[r] = Append(results[r], Result(r))
        /\ \A x \in Requests : x # r => results'[x] = results[x]
    BY <1>1, <2>1 DEF TypeOK
  <2>3. /\ timer' \in [Requests -> Timers]
        /\ timer'[Http(r)] = "cleared"
        /\ \A x \in Requests : x # Http(r) => timer'[x] = timers[x]
    BY <2>1 DEF Timers
  <2>4. QED
    BY <1>2, <2>2, <2>3
<1>3. CASE ~(state'[Http(r)] = "complete" \/ Http(r) \in aborted')
  BY <1>3 DEF Callback, TypeOK
<1>4. QED
  BY <1>2, <1>3

\* The first result of a request is about itself, when the request is the last one.
LEMMA FirstResult ==
  ASSUME TypeOK, NEW r \in Requests, Http(r) = r, Calls(r) = 0,
         results'[r] = Append(results[r], Result(r))
  PROVE  /\ Calls(r)' = 1
         /\ \A n \in 1 .. Calls(r)' : results'[r][n].of = r
<1>1. results[r] \in Seq([timedOut : BOOLEAN, of : Requests])
  BY DEF TypeOK
<1>2. Result(r) \in [timedOut : BOOLEAN, of : Requests] /\ Result(r).of = r
  BY DEF Result
<1>3. QED
  BY <1>1, <1>2 DEF Calls

-----------------------------------------------------------------------------
(***************************************************************************)
(* The steps.                                                              *)
(***************************************************************************)
LEMMA MakeCallStep ==
  ASSUME IInv, NEW r \in Requests, NEW sent \in BOOLEAN, MakeCall(r, sent)
  PROVE  IInv'
<1> DEFINE o == ObjectOf[r]
<1>0. o \in Objects
  BY ConstantsAssumption
<1>1. TypeOK'
  BY <1>0 DEF IInv, TypeOK, MakeCall, States, Timers
<1>2. HttpInv'
  BY <1>0, ConstantsAssumption DEF IInv, TypeOK, HttpInv, MakeCall, Http
<1>3. ASSUME NEW x \in Alone
      PROVE  AloneInv(x)'
  <2>1. x \in Requests /\ AloneInv(x) /\ ObjectOf[x] \in Objects
    BY ConstantsAssumption DEF IInv, Alone
  <2>2. CASE x = r
    <3>1. Http(r)' = r
      BY <1>0 DEF MakeCall, Http, IInv, TypeOK
    <3>2. r \notin aborted /\ Calls(r) = 0
      BY <2>1, <2>2 DEF MakeCall, AloneInv
    <3>3. UNCHANGED <<results, aborted>>
      BY DEF MakeCall
    <3>4. \/ state'[r] = "loading" /\ timer'[r] = "running"
          \/ state'[r] = "idle" /\ timer'[r] = "none"
      BY DEF MakeCall, IInv, TypeOK
    <3>5. QED
      BY <2>1, <2>2, <3>1, <3>2, <3>3, <3>4 DEF AloneInv, Calls
  <2>3. CASE x # r /\ ObjectOf[x] = o
    <3>1. Free(o)
      BY <2>3 DEF MakeCall, Alone
    <3>2. timer[x] # "running"
      BY <2>1, <2>3, <3>1, ConstantsAssumption DEF Free, AloneInv, Http
    <3>3. state'[x] = state[x] /\ timer'[x] = timer[x] /\ UNCHANGED <<results, aborted>>
      BY <2>1, <2>3 DEF MakeCall, IInv, TypeOK
    <3>4. QED
      BY <2>1, <3>2, <3>3 DEF AloneInv, Calls
  <2>4. CASE ObjectOf[x] # o
    <3>1. state'[x] = state[x] /\ timer'[x] = timer[x] /\ Http(x)' = Http(x)
      BY <2>1, <2>4 DEF MakeCall, IInv, TypeOK, Http
    <3>2. UNCHANGED <<results, aborted>>
      BY DEF MakeCall
    <3>3. QED
      BY <2>1, <3>1, <3>2, Untouched
  <2>5. QED
    BY <2>2, <2>3, <2>4
<1>4. QED
  BY <1>1, <1>2, <1>3 DEF IInv, Alone

\* The request that waits for the server or for its timer, and the one in http.
LEMMA Waiting ==
  ASSUME IInv, NEW r \in Requests, state[r] = "loading" \/ timer[r] = "running"
  PROVE  /\ Http(r) \in Requests
         /\ ObjectOf[Http(r)] = ObjectOf[r]
         /\ Http(Http(r)) = Http(r)
         /\ r \in Alone => Http(r) = r /\ AloneInv(r)
         /\ r \notin Alone => Http(r) \notin Alone
<1>1. ObjectOf[r] \in Objects
  BY ConstantsAssumption
<1>2. Http(r) \in Requests
  BY <1>1 DEF IInv, TypeOK, HttpInv, Http
<1>3. ObjectOf[Http(r)] = ObjectOf[r]
  BY <1>1, <1>2, ConstantsAssumption DEF IInv, HttpInv, Http
<1>4. r \in Alone => Http(r) = r /\ AloneInv(r)
  BY DEF IInv, AloneInv
<1>5. r \notin Alone => Http(r) \notin Alone
  BY <1>3 DEF Alone
<1>6. QED
  BY <1>2, <1>3, <1>4, <1>5 DEF Http

LEMMA CompleteStep ==
  ASSUME IInv, NEW r \in Requests, NEW how \in {"complete", "failed"}, Complete(r, how)
  PROVE  IInv'
<1>1. state[r] = "loading" /\ UNCHANGED <<http, aborted>> /\ Callback(r, timer)
  BY DEF Complete
<1>2. state' = [state EXCEPT ![r] = how] /\ TypeOK /\ timer \in [Requests -> Timers]
  BY DEF Complete, IInv, TypeOK
<1>3. Http(r) \in Requests
  BY <1>1, Waiting
<1> DEFINE h == Http(r)
<1>4. TypeOK'
  BY <1>1, <1>2, <1>3, CallbackOfLast DEF TypeOK, States
<1>5. \A x \in Requests : timer'[x] = "running" => timer[x] = "running"
  BY <1>1, <1>2, <1>3, CallbackOfLast
<1>6. HttpInv'
  BY <1>1, <1>2, <1>5 DEF HttpInv, IInv, Http, TypeOK
<1>7. ASSUME NEW x \in Alone
      PROVE  AloneInv(x)'
  <2>1. x \in Requests /\ AloneInv(x) /\ Http(x)' = Http(x)
    BY <1>1 DEF IInv, Alone, Http
  <2>2. CASE x = r
    <3>1. h = r /\ r \notin aborted /\ Calls(r) = 0 /\ timer[r] = "running"
      BY <1>1, <2>1, <2>2 DEF AloneInv
    <3>2. CASE how = "complete"
      <4>1. state'[r] = "complete"
        BY <1>2, <3>2 DEF TypeOK
      <4>2. timer'[r] = "cleared" /\ results'[r] = Append(results[r], Result(r))
        BY <1>1, <1>2, <1>3, <3>1, <4>1, CallbackOfLast
      <4>3. Calls(r)' = 1 /\ \A n \in 1 .. Calls(r)' : results'[r][n].of = r
        BY <1>2, <3>1, <4>2, FirstResult
      <4>4. QED
        BY <2>2, <4>1, <4>2, <4>3 DEF AloneInv
    <3>3. CASE how = "failed"
      <4>1. state'[r] = "failed"
        BY <1>2, <3>3 DEF TypeOK
      <4>2. timer' = timer /\ UNCHANGED results
        BY <1>1, <3>1, <4>1 DEF Callback
      <4>3. QED
        BY <1>1, <2>1, <2>2, <3>1, <4>1, <4>2 DEF AloneInv, Calls
    <3>4. QED
      BY <3>2, <3>3
  <2>3. CASE x # r
    <3>1. x # h
      BY <1>1, <2>3, Waiting
    <3>2. timer'[x] = timer[x] /\ results'[x] = results[x] /\ state'[x] = state[x]
      BY <1>1, <1>2, <1>3, <2>1, <2>3, <3>1, CallbackOfLast DEF TypeOK
    <3>3. QED
      BY <1>1, <2>1, <3>2, Untouched
  <2>4. QED
    BY <2>2, <2>3
<1>8. QED
  BY <1>4, <1>6, <1>7 DEF IInv, Alone

LEMMA ProgressStep ==
  ASSUME IInv, NEW r \in Requests, Progress(r)
  PROVE  IInv'
<1>1. state[r] = "loading" /\ UNCHANGED <<http, state, aborted>> /\ Callback(r, timer)
  BY DEF Progress
<1>2. TypeOK /\ timer \in [Requests -> Timers]
  BY DEF IInv, TypeOK
<1>3. Http(r) \in Requests
  BY <1>1, Waiting
<1>4. TypeOK'
  BY <1>1, <1>2, <1>3, CallbackOfLast DEF TypeOK
<1>5. \A x \in Requests : timer'[x] = "running" => timer[x] = "running"
  BY <1>1, <1>2, <1>3, CallbackOfLast
<1>6. HttpInv'
  BY <1>1, <1>5 DEF HttpInv, IInv, Http
<1>7. ASSUME NEW x \in Alone
      PROVE  AloneInv(x)'
  <2>1. x \in Requests /\ AloneInv(x) /\ Http(x)' = Http(x)
    BY <1>1 DEF IInv, Alone, Http
  <2>2. timer'[x] = timer[x] /\ results'[x] = results[x]
    <3>1. CASE x = r
      <4>1. Http(r) = r /\ r \notin aborted
        BY <1>1, <2>1, <3>1 DEF AloneInv
      <4>2. QED
        BY <1>1, <4>1 DEF Callback
    <3>2. CASE x # r
      <4>1. x # Http(r)
        BY <1>1, <3>2, Waiting
      <4>2. QED
        BY <1>1, <1>2, <1>3, <2>1, <3>2, <4>1, CallbackOfLast
    <3>3. QED
      BY <3>1, <3>2
  <2>3. QED
    BY <1>1, <2>1, <2>2, Untouched
<1>8. QED
  BY <1>4, <1>6, <1>7 DEF IInv, Alone

LEMMA FireStep ==
  ASSUME IInv, NEW r \in Requests, Fire(r)
  PROVE  IInv'
<1> DEFINE h == Http(r)
           timers == [timer EXCEPT ![r] = "fired"]
<1>1. timer[r] = "running" /\ UNCHANGED http /\ aborted' = aborted \cup {h}
  BY DEF Fire
<1>2. /\ h \in Requests /\ Http(h) = h
      /\ r \in Alone => h = r /\ AloneInv(r)
      /\ r \notin Alone => h \notin Alone
  BY <1>1, Waiting
<1>3. TypeOK /\ state' = [state EXCEPT ![h] = "idle"]
  BY DEF Fire, IInv
<1>4. timers \in [Requests -> Timers] /\ \A x \in Requests : x # r => timers[x] = timer[x]
  BY <1>3 DEF TypeOK, Timers
<1>5. \/ timer' = timers /\ UNCHANGED results /\ h # r
      \/ Callback(h, timers)
  BY <1>1 DEF Fire
<1>6. TypeOK'
  <2>1. http' \in [Objects -> Requests \cup {None}] /\ aborted' \subseteq Requests
    BY <1>1, <1>2, <1>3 DEF TypeOK
  <2>2. state' \in [Requests -> States]
    BY <1>3 DEF TypeOK, States
  <2>3. /\ timer' \in [Requests -> Timers]
        /\ results' \in [Requests -> Seq([timedOut : BOOLEAN, of : Requests])]
    <3>1. CASE timer' = timers /\ UNCHANGED results
      BY <1>3, <1>4, <3>1 DEF TypeOK
    <3>2. CASE Callback(h, timers)
      BY <1>2, <1>3, <1>4, <3>2, CallbackOfLast
    <3>3. QED
      BY <1>5, <3>1, <3>2
  <2>4. QED
    BY <2>1, <2>2, <2>3 DEF TypeOK
<1>7. \A x \in Requests : timer'[x] = "running" => timer[x] = "running"
  <2>1. CASE timer' = timers
    BY <1>1, <1>4, <2>1
  <2>2. CASE Callback(h, timers)
    <3>1. \A x \in Requests : x # h => timer'[x] = timers[x]
      BY <1>2, <1>3, <1>4, <2>2, CallbackOfLast
    <3>2. timer'[h] = "cleared"
      BY <1>1, <1>2, <1>3, <1>4, <2>2, CallbackOfLast
    <3>3. QED
      BY <1>1, <1>4, <3>1, <3>2
  <2>3. QED
    BY <1>5, <2>1, <2>2
<1>8. HttpInv'
  BY <1>1, <1>2, <1>3, <1>7 DEF HttpInv, IInv, Http, TypeOK
<1>9. ASSUME NEW x \in Alone
      PROVE  AloneInv(x)'
  <2>1. x \in Requests /\ AloneInv(x) /\ Http(x)' = Http(x)
    BY <1>1 DEF IInv, Alone, Http
  <2>2. CASE x = r
    <3>1. h = r /\ Calls(r) = 0 /\ Callback(r, timers)
      BY <1>1, <1>2, <1>5, <2>1, <2>2 DEF AloneInv
    <3>2. r \in aborted'
      BY <1>1, <3>1
    <3>3. timer'[r] = "cleared" /\ results'[r] = Append(results[r], Result(r))
      <4>1. Http(r) = r /\ Http(r) \in Requests
        BY <1>2, <3>1
      <4>2. QED
        BY <1>3, <1>4, <3>1, <3>2, <4>1, CallbackOfLast
    <3>4. Calls(r)' = 1 /\ \A n \in 1 .. Calls(r)' : results'[r][n].of = r
      BY <1>3, <3>1, <3>3, FirstResult
    <3>5. state'[r] = "idle"
      BY <1>2, <1>3, <3>1 DEF TypeOK
    <3>6. QED
      BY <2>2, <3>3, <3>4, <3>5 DEF AloneInv
  <2>3. CASE x # r
    <3>1. x # h
      BY <1>2, <2>3
    <3>2. timers[x] = timer[x] /\ state'[x] = state[x] /\ (x \in aborted' => x \in aborted)
      BY <1>1, <1>3, <1>4, <2>1, <2>3, <3>1 DEF TypeOK
    <3>3. timer'[x] = timers[x] /\ results'[x] = results[x]
      <4>1. CASE timer' = timers /\ UNCHANGED results
        BY <4>1
      <4>2. CASE Callback(h, timers)
        BY <1>2, <1>3, <1>4, <2>1, <3>1, <4>2, CallbackOfLast
      <4>3. QED
        BY <1>5, <4>1, <4>2
    <3>4. QED
      BY <2>1, <3>2, <3>3, Untouched
  <2>4. QED
    BY <2>2, <2>3
<1>10. QED
  BY <1>6, <1>8, <1>9 DEF IInv, Alone

LEMMA NextStep == IInv /\ [Next]_vars => IInv'
<1> SUFFICES ASSUME IInv, [Next]_vars
             PROVE  IInv'
  OBVIOUS
<1>1. CASE \E r \in Requests, sent \in BOOLEAN : MakeCall(r, sent)
  BY <1>1, MakeCallStep
<1>2. CASE \E r \in Requests, how \in {"complete", "failed"} : Complete(r, how)
  BY <1>2, CompleteStep
<1>3. CASE \E r \in Requests : Progress(r)
  BY <1>3, ProgressStep
<1>4. CASE \E r \in Requests : Fire(r)
  BY <1>4, FireStep
<1>5. CASE UNCHANGED vars
  BY <1>5 DEF vars, IInv, TypeOK, HttpInv, AloneInv, Http, Calls
<1>6. QED
  BY <1>1, <1>2, <1>3, <1>4, <1>5 DEF Next, Ends

-----------------------------------------------------------------------------
(***************************************************************************)
(* The theorems.                                                           *)
(***************************************************************************)

\* In every behaviour of makeCall, onreadystatechange and the timer, the request that
\* an object waits for is the one in http.
THEOREM InductiveInvariant == Spec => []IInv
<1>1. QED
  BY InitIInv, NextStep, PTL DEF Spec

\* The variables keep their types.
THEOREM TypeCorrect == Spec => []TypeOK
<1>1. IInv => TypeOK
  BY DEF IInv
<1>2. QED
  BY <1>1, InductiveInvariant, PTL

\* Whether the server or the timer is first, the callback of a request makes one result,
\* of what became of that request.
THEOREM EndsOnceForItself == Spec => []OneOwnResult
<1>1. IInv => OneOwnResult
  <2> SUFFICES ASSUME IInv, NEW r \in Alone
               PROVE  Calls(r) <= 1 /\ \A n \in 1 .. Calls(r) : results[r][n].of = r
    BY DEF OneOwnResult
  <2>1. AloneInv(r) /\ Calls(r) \in Nat
    BY DEF IInv, TypeOK, Alone, Calls
  <2>2. QED
    BY <2>1 DEF AloneInv
<1>2. QED
  BY <1>1, InductiveInvariant, PTL

\* A timer that could abort a later request of the object does not outlive its request.
THEOREM TimersEnd == Spec => []NoTimerLeft
<1>1. IInv => NoTimerLeft
  BY DEF IInv, NoTimerLeft, AloneInv
<1>2. QED
  BY <1>1, InductiveInvariant, PTL
=============================================================================
