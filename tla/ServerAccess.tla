----------------------------- MODULE ServerAccess -----------------------------
(***************************************************************************)
(* ServerAccessObject: requests to a server, each ended by the server or   *)
(* by a timer, whichever is first.                                         *)
(*                                                                         *)
(* A request has an XMLHttpRequest of its own.  The variable http, in      *)
(* which it is kept, belongs to the ServerAccessObject: what the call-     *)
(* backs of a request find there is the last request the object has made.  *)
(*                                                                         *)
(* What a callback makes of a request is a QueryResult, and that is as far *)
(* as it gets: see Callback.                                               *)
(***************************************************************************)
EXTENDS Integers, SequencesExt

CONSTANTS
  Requests, \* the requests, each of which is made once
  Objects,  \* the ServerAccessObjects
  ObjectOf, \* the object each request is made with
  Shared,   \* the objects the application makes requests with while they wait
            \* for the end of another
  MaxCalls, \* how often a callback gets past its test, for the checker
  None      \* no request

ASSUME ConstantsAssumption ==
  /\ ObjectOf \in [Requests -> Objects]
  /\ Shared \subseteq Objects
  /\ MaxCalls \in Nat
  /\ None \notin Requests

VARIABLES
  http,     \* the last request of each object
  state,    \* the state of each request
  aborted,  \* the requests whose flag `aborted' a timer has set
  timer,    \* the timer of each request
  results   \* history: the results the callback of each request has made

vars == <<http, state, aborted, timer, results>>

(***************************************************************************)
(* "new": not made.  "idle": not sent, because open, a header or send has  *)
(* thrown, or aborted.                                                     *)
(* "failed": completed with the status 0, which is how the network and     *)
(* the browser say no.  "complete": completed with any other status.       *)
(***************************************************************************)
States == {"new", "idle", "loading", "failed", "complete"}

Timers == {"none", "running", "cleared", "fired"}

Init ==
  /\ http = [o \in Objects |-> None]
  /\ state = [r \in Requests |-> "new"]
  /\ aborted = {}
  /\ timer = [r \in Requests |-> "none"]
  /\ results = [r \in Requests |-> <<>>]

\* What the callbacks of r find in http.
Http(r) == http[ObjectOf[r]]

\* How often the callback of r got past its test.
Calls(r) == Len(results[r])

-----------------------------------------------------------------------------
(***************************************************************************)
(* Faulty variants of the definitions below, for checking that the         *)
(* properties notice the fault; no action of Next uses them.               *)
(***************************************************************************)

\* A result that has lost its request when that was aborted.
ResultOfAbort(r) ==
  [timedOut |-> Http(r) \in aborted', of |-> IF Http(r) \in aborted' THEN None ELSE Http(r)]

-----------------------------------------------------------------------------
(***************************************************************************)
(* onreadystatechange of r.                                                *)
(***************************************************************************)

\* The query result: the timeout's if the flag is set, the server's otherwise.
Result(r) == [timedOut |-> Http(r) \in aborted', of |-> Http(r)]

\* (Faulty variant of Callback.)  A callback that leaves the timer running.
CallbackKeepingTimer(r, timers) ==
  IF state'[Http(r)] = "complete" \/ Http(r) \in aborted'
    THEN /\ timer' = timers
         /\ results' = [results EXCEPT ![r] = Append(@, Result(r))]
    ELSE timer' = timers /\ UNCHANGED results

\* (Faulty variant of Callback.)  A callback that tests the state for completion only.
CallbackForgettingAborts(r, timers) ==
  IF state'[Http(r)] = "complete"
    THEN /\ timer' = [timers EXCEPT ![Http(r)] = "cleared"]
         /\ results' = [results EXCEPT ![r] = Append(@, Result(r))]
    ELSE timer' = timers /\ UNCHANGED results

\* What the callback does with the states and flags as the event has left them,
\* and the timers as in timers: it clears a timer and makes a result.  Nobody gets
\* it.  The key of getData is the global one, "NOT_IN_A_BCF_FOR_CMD_STACK", which
\* names neither security functions nor an entry of executionMap, so that none of
\* them and no requestHandler is called; setData passes its parameters on before
\* they exist, so that the callback throws when it reads the key.
Callback(r, timers) ==
  IF state'[Http(r)] = "complete" \/ Http(r) \in aborted'
    THEN /\ timer' = [timers EXCEPT ![Http(r)] = "cleared"]
         /\ results' = [results EXCEPT ![r] = Append(@, Result(r))]
    ELSE timer' = timers /\ UNCHANGED results

-----------------------------------------------------------------------------
(***************************************************************************)
(* Faulty variants of the actions below, for checking that the properties  *)
(* notice the fault; no action of Next uses them.                          *)
(***************************************************************************)

\* A timer that sets the flag without aborting the request.
FireWithoutAbort(r) ==
  /\ timer[r] = "running"
  /\ aborted' = aborted \cup {Http(r)}
  /\ UNCHANGED state
  /\ Callback(Http(r), [timer EXCEPT ![r] = "fired"])
  /\ UNCHANGED http

-----------------------------------------------------------------------------
(***************************************************************************)
(* Actions.                                                                *)
(***************************************************************************)

\* The object waits for nothing: its last request was never sent, or its
\* callback has run.
Free(o) == http[o] # None => (state[http[o]] # "idle" => Calls(http[o]) > 0)

\* makeCall.  Either it sends the request and starts its timer, or open, a header
\* or send throws.
MakeCall(r, sent) ==
  /\ state[r] = "new"
  /\ ObjectOf[r] \in Shared \/ Free(ObjectOf[r])
  /\ http' = [http EXCEPT ![ObjectOf[r]] = r]
  /\ state' = [state EXCEPT ![r] = IF sent THEN "loading" ELSE "idle"]
  /\ timer' = [timer EXCEPT ![r] = IF sent THEN "running" ELSE "none"]
  /\ UNCHANGED <<aborted, results>>

\* The request completes.
Complete(r, how) ==
  /\ state[r] = "loading"
  /\ state' = [state EXCEPT ![r] = how]
  /\ UNCHANGED <<http, aborted>>
  /\ Callback(r, timer)

\* More of the answer to r arrives: an event that changes nothing of the request.
Progress(r) ==
  /\ state[r] = "loading"
  /\ Calls(r) < MaxCalls
  /\ UNCHANGED <<http, state, aborted>>
  /\ Callback(r, timer)

\* The timer of r fires: it aborts the request in http and calls the callback
\* of that.  The abort itself calls it too, with the status 0 and before the
\* flag is set, which comes to nothing.
Fire(r) ==
  /\ timer[r] = "running"
  /\ aborted' = aborted \cup {Http(r)}
  /\ state' = [state EXCEPT ![Http(r)] = "idle"]
  /\ UNCHANGED http
  /\ \/ Callback(Http(r), [timer EXCEPT ![r] = "fired"])
     \/ \* no callback: something had thrown before it was set
        /\ state[Http(r)] = "idle" /\ timer[Http(r)] = "none"
        /\ timer' = [timer EXCEPT ![r] = "fired"]
        /\ UNCHANGED results

-----------------------------------------------------------------------------
Ends(r) == Fire(r) \/ Progress(r) \/ \E how \in {"complete", "failed"} : Complete(r, how)

Next == \E r \in Requests : (\E sent \in BOOLEAN : MakeCall(r, sent)) \/ Ends(r)

Spec == Init /\ [][Next]_vars

(***************************************************************************)
(* Fairness: timers fire.  Of the server nothing is assumed.               *)
(***************************************************************************)
FairSpec == Spec /\ \A r \in Requests : WF_vars(Fire(r))

-----------------------------------------------------------------------------
(***************************************************************************)
(* Properties.                                                             *)
(***************************************************************************)
TypeOK ==
  /\ http \in [Objects -> Requests \cup {None}]
  /\ state \in [Requests -> States]
  /\ aborted \subseteq Requests
  /\ timer \in [Requests -> Timers]
  /\ results \in [Requests -> Seq([timedOut : BOOLEAN, of : Requests])]

\* The requests made with objects that have one at a time.
Alone == {r \in Requests : ObjectOf[r] \notin Shared}

\* When an object has one request at a time: whether the server or the timer is
\* first, and whatever the other does then, the callback of a request makes one
\* result, of what became of that request, ...
OneOwnResult ==
  \A r \in Alone :
    Calls(r) <= 1 /\ \A n \in 1 .. Calls(r) : results[r][n].of = r

\* ... and a request with a result has no timer that could still abort something.
NoTimerLeft == \A r \in Alone : Calls(r) > 0 => timer[r] \in {"cleared", "fired"}

\* The callback of the last request that was sent with an object gets past its test,
\* however many others are under way: the callbacks look after the last request,
\* if after no other.
LastPassesTest ==
  \A r \in Requests : state[r] = "loading" ~> (Calls(r) > 0 \/ Http(r) # r)

\* "the number of seconds the transaction should be attempted before a timeout
\* error is generated": a request that waits for the server is aborted by no timer
\* but its own.
TimeoutsAreOwn ==
  [][\A r \in Requests :
       state[r] = "loading" /\ state'[r] = "idle" => Fire(r)]_vars
=============================================================================
