---------------------------- MODULE MessagePolling ----------------------------
(***************************************************************************)
(* The way from the page to the native library on iOS: the messages array  *)
(* of com.js and the operation InterlayerMessageSystem that polls it.      *)
(*                                                                         *)
(* The page pushes requests while its scripts run, on the main thread.     *)
(* The polling thread sleeps for 0.3 s, has the main thread evaluate       *)
(* qc.messageQueueAsJSON() and waits for it, parses the answer and hands   *)
(* the requests to the native engine one by one.  The main thread runs     *)
(* one thing at a time, so that a script and the evaluation exclude each   *)
(* other; everything else interleaves.                                     *)
(***************************************************************************)
EXTENDS Integers, SequencesExt

CONSTANTS
  MaxSent,      \* bound on the number of requests
  MaxReloads    \* bound on the number of times the page is loaded again

ASSUME BoundsAssumption == MaxSent \in Nat /\ MaxReloads \in Nat

VARIABLES
  messages,  \* the requests in the page, by number
  kind,      \* what the parameters of each request sent are
  poller,    \* where the polling thread is
  requests,  \* theQueue: the requests it has parsed and not yet handed over
  death,     \* the exception nobody catches that has ended the application
  handled,   \* history: the requests given to the native engine, in order
  lost,      \* history: the requests that went with a page or an answer
  loads      \* history: how many times the page was loaded again

vars == <<messages, kind, poller, requests, death, handled, lost, loads>>

(***************************************************************************)
(* An array survives the journey.  A dictionary, which is what every       *)
(* facade of com.js passes, arrives as an NSMutableDictionary.  What       *)
(* contains itself cannot be stringified.  Without parameters makeCall     *)
(* itself throws and nothing is sent.                                      *)
(***************************************************************************)
Kinds == {"array", "dictionary", "circular"}

\* "unborn" until the first page has been loaded; "evaluating" while the main
\* thread has been asked for the answer.
PollerStates == {"unborn", "asleep", "evaluating", "handling"}

Deaths == {"none", "loaded twice", "nil answer", "parameters"}

Alive == death = "none"

Sent == Len(kind)

Init ==
  /\ messages = <<>>
  /\ kind = <<>>
  /\ poller = "unborn"
  /\ requests = <<>>
  /\ death = "none"
  /\ handled = <<>>
  /\ lost = {}
  /\ loads = 0

-----------------------------------------------------------------------------
(***************************************************************************)
(* Faulty variants of the actions below, for checking that the properties  *)
(* notice the fault; no action of Next uses them.                          *)
(***************************************************************************)

\* messageQueueAsJSON that stringifies the array without emptying it.
EvaluateKeeping ==
  /\ poller = "evaluating"
  /\ \A n \in 1 .. Len(messages) : kind[messages[n]] # "circular"
  /\ requests' = messages
  /\ poller' = "handling"
  /\ UNCHANGED <<messages, kind, death, handled, lost, loads>>

\* messageQueueAsJSON that stringifies the array as it is and then empties it
\* of one message too many.
EvaluateDropping ==
  /\ poller = "evaluating"
  /\ \A n \in 1 .. Len(messages) : kind[messages[n]] # "circular"
  /\ requests' = IF messages = <<>> THEN <<>> ELSE Front(messages)
  /\ messages' = <<>>
  /\ poller' = "handling"
  /\ UNCHANGED <<kind, death, handled, lost, loads>>

\* The polling thread returns instead of going on when it has handed over all.
HandledAllAndReturns ==
  /\ poller = "handling"
  /\ requests = <<>>
  /\ poller' = "returned"
  /\ UNCHANGED <<messages, kind, requests, death, handled, lost, loads>>

-----------------------------------------------------------------------------
(***************************************************************************)
(* The page.                                                               *)
(***************************************************************************)

\* qc.makeCall.
MakeCall(k) ==
  /\ Sent < MaxSent
  /\ kind' = Append(kind, k)
  /\ messages' = Append(messages, Sent + 1)
  /\ UNCHANGED <<poller, requests, death, handled, lost, loads>>

\* The page is loaded again (its script sets the location, say): its scripts
\* start afresh with an empty array.
StartLoad ==
  /\ loads < MaxReloads
  /\ loads' = loads + 1
  /\ lost' = lost \cup ToSet(messages)
  /\ messages' = <<>>
  /\ UNCHANGED <<kind, poller, requests, death, handled>>

\* webViewDidFinishLoad, called for the page, for each of its frames and for
\* each page loaded later.  An NSOperation can be added to a queue once: adding
\* it when it executes raises an exception.
FinishLoad ==
  /\ \/ /\ poller = "unborn"
        /\ poller' = "asleep"
        /\ UNCHANGED death
     \/ /\ poller # "unborn"
        /\ death' = "loaded twice"
        /\ UNCHANGED poller
  /\ UNCHANGED <<messages, kind, requests, handled, lost, loads>>

-----------------------------------------------------------------------------
(***************************************************************************)
(* main of InterlayerMessageSystem.                                        *)
(***************************************************************************)

\* The sleep ends and the thread asks the main thread.
WakeUp ==
  /\ poller = "asleep"
  /\ poller' = "evaluating"
  /\ UNCHANGED <<messages, kind, requests, death, handled, lost, loads>>

Stringifiable == \A n \in 1 .. Len(messages) : kind[messages[n]] # "circular"

\* getJSONStringFromWebView on the main thread: the array is emptied into the
\* answer.
Evaluate ==
  /\ poller = "evaluating"
  /\ Stringifiable
  /\ requests' = messages
  /\ messages' = <<>>
  /\ poller' = "handling"
  /\ UNCHANGED <<kind, death, handled, lost, loads>>

\* JSON.stringify throws when the array is already empty.  The web view answers
\* with an empty string, which does not parse, so that the loop goes on, or
\* with nil, which setString does not take.
EvaluateFails ==
  /\ poller = "evaluating"
  /\ ~Stringifiable
  /\ lost' = lost \cup ToSet(messages)
  /\ messages' = <<>>
  /\ death' \in {"none", "nil answer"}
  /\ poller' = "asleep"
  /\ UNCHANGED <<kind, requests, handled, loads>>

\* One turn of the loop over theQueue.  insertObject:atIndex: is a message to an
\* array; a dictionary does not understand it.
HandleRequest ==
  /\ poller = "handling"
  /\ requests # <<>>
  /\ IF kind[Head(requests)] = "array"
       THEN /\ handled' = Append(handled, Head(requests))
            /\ requests' = Tail(requests)
            /\ UNCHANGED death
       ELSE /\ death' = "parameters"
            /\ UNCHANGED <<handled, requests>>
  /\ UNCHANGED <<messages, kind, poller, lost, loads>>

HandledAll ==
  /\ poller = "handling"
  /\ requests = <<>>
  /\ poller' = "asleep"
  /\ UNCHANGED <<messages, kind, requests, death, handled, lost, loads>>

-----------------------------------------------------------------------------
Poller == WakeUp \/ Evaluate \/ EvaluateFails \/ HandleRequest \/ HandledAll

Page == (\E k \in Kinds : MakeCall(k)) \/ StartLoad \/ FinishLoad

Next == Alive /\ (Page \/ Poller)

Spec == Init /\ [][Next]_vars

(***************************************************************************)
(* Fairness: the page gets loaded, the polling thread runs, and the main   *)
(* thread comes back to its run loop, where it evaluates what is asked of  *)
(* it.                                                                     *)
(***************************************************************************)
FairSpec ==
  /\ Spec
  /\ WF_vars(Alive /\ poller = "unborn" /\ FinishLoad)
  /\ WF_vars(Alive /\ Poller)

-----------------------------------------------------------------------------
(***************************************************************************)
(* Properties.                                                             *)
(***************************************************************************)
TypeOK ==
  /\ messages \in Seq(1 .. Sent)
  /\ kind \in Seq(Kinds)
  /\ poller \in PollerStates
  /\ requests \in Seq(1 .. Sent)
  /\ death \in Deaths
  /\ handled \in Seq(1 .. Sent)
  /\ lost \subseteq 1 .. Sent
  /\ loads \in 0 .. MaxReloads

\* The requests on their way, the oldest first.
Journey == handled \o requests \o messages

\* Whatever the page does while the array is emptied and the answer handled, no
\* request is handled twice or overtakes another, and none disappears: a request
\* sent is on its way or went with its page or with its whole answer.
RequestsOnceInOrder ==
  /\ \A i, j \in 1 .. Len(Journey) : i < j => Journey[i] < Journey[j]
  /\ ToSet(Journey) \cup lost = 1 .. Sent
  /\ ToSet(Journey) \cap lost = {}

\* The array and the polling thread are a mailbox that can lose what is in it.
Box == INSTANCE Mailbox WITH
  Messages <- 1 .. MaxSent,
  Lossy    <- TRUE,
  box      <- messages,
  taken    <- handled \o requests

ImplementsMailbox == Box!Spec

\* A request sent reaches the native engine, unless it is lost or the
\* application dies.
RequestsHandled ==
  \A n \in 1 .. MaxSent :
    n <= Sent ~> (n \in ToSet(handled) \/ n \in lost \/ ~Alive)
=============================================================================
