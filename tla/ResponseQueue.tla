---------------------------- MODULE ResponseQueue ----------------------------
(***************************************************************************)
(* The Android response queue: JavaScriptCallHandler, a singleton shared   *)
(* by all threads that run control objects and by all web views, and the   *)
(* polling of com.js.                                                      *)
(*                                                                         *)
(* Native threads add responses with addResponseToQueue.  A page calls     *)
(* messageQueueAsJSON every 300 ms through the JavaScript interface; the   *)
(* call copies the queue into a JSON string and clears it, and the page    *)
(* then goes through the copy.  A fair semaphore whose permits are always  *)
(* acquired all together is meant to keep the two apart; it is a lock.     *)
(***************************************************************************)
EXTENDS Integers, SequencesExt

CONSTANTS
  Writers,      \* native threads that add responses
  Pages,        \* web views whose page polls the queue
  Messages,     \* well-formed responses: of any other addResponseToQueue
                \* throws before it touches anything
  Unprintable,  \* those of them that JSONUtilities.stringify rejects
  NoThread,     \* nobody
  NoMessage,    \* what a writer that has added nothing yet is adding
  MaxAdded,     \* bound on the number of responses added
  MaxInterrupts \* bound on the number of times a waiting thread is interrupted

ASSUME ConstantsAssumption ==
  /\ Writers \cap Pages = {}
  /\ NoThread \notin Writers \cup Pages
  /\ Unprintable \subseteq Messages
  /\ NoMessage \notin Messages
  /\ MaxAdded \in Nat
  /\ MaxInterrupts \in Nat

Threads == Writers \cup Pages

VARIABLES
  pc,               \* what each thread is doing
  waiters,          \* threads queued in readWriteSemaphore.acquire
  holder,           \* the thread that last acquired the permits and has not
                    \* released them
  theMessageQueue,  \* the responses not yet copied
  message,          \* the response each writer is adding
  hasMadeCall,      \* qc.hasMadeCall: the pages that poll
  response,         \* the copy each page has made
  unread,           \* what each page has still to go through
  accepted,         \* history: the responses added, in order
  handed,           \* history: the responses returned to pages, in order
  interrupts        \* history: how many times a thread was interrupted

lockVars == <<waiters, holder>>
pageVars == <<response, unread, hasMadeCall>>
historyVars == <<accepted, handed, interrupts>>
vars == <<pc, lockVars, theMessageQueue, message, pageVars, historyVars>>

WriterPcs == {"idle", "waiting", "locked", "added"}
PagePcs == {"idle", "waiting", "locked", "copied", "cleared"}

Init ==
  /\ pc = [t \in Threads |-> "idle"]
  /\ waiters = <<>>
  /\ holder = NoThread
  /\ theMessageQueue = <<>>
  /\ message = [w \in Writers |-> NoMessage]
  /\ hasMadeCall = [p \in Pages |-> FALSE]
  /\ response = [p \in Pages |-> <<>>]
  /\ unread = [p \in Pages |-> <<>>]
  /\ accepted = <<>>
  /\ handed = <<>>
  /\ interrupts = 0

Goto(t, label) == pc' = [pc EXCEPT ![t] = label]

-----------------------------------------------------------------------------
(***************************************************************************)
(* Faulty variants of the actions below, for checking that the properties  *)
(* notice the fault; no action of Next uses them.                          *)
(***************************************************************************)

\* A page that takes one permit, which the writers' Integer.MAX_VALUE does not
\* exclude once they have theirs.
AcquireShared(t) ==
  /\ pc[t] = "waiting"
  /\ t \in Writers => Head(waiters) = t /\ holder = NoThread
  /\ waiters' = SelectSeq(waiters, LAMBDA u : u # t)
  /\ holder' = IF t \in Pages THEN holder ELSE t
  /\ Goto(t, "locked")
  /\ UNCHANGED <<theMessageQueue, message, pageVars, historyVars>>

\* A page that gives the permits back only when it has cleared a queue that was
\* not empty.
ReturnResponseOrKeep(p) ==
  /\ pc[p] = "cleared"
  /\ holder' = IF response[p] = <<>> THEN holder ELSE NoThread
  /\ handed' = handed \o response[p]
  /\ unread' = [unread EXCEPT ![p] = response[p]]
  /\ response' = [response EXCEPT ![p] = <<>>]
  /\ Goto(p, "idle")
  /\ UNCHANGED <<waiters, theMessageQueue, message, hasMadeCall, accepted, interrupts>>

\* setTimeout in the place of setInterval.
PollOnce(p) ==
  /\ pc[p] = "idle"
  /\ hasMadeCall[p]
  /\ unread[p] = <<>>
  /\ waiters' = Append(waiters, p)
  /\ Goto(p, "waiting")
  /\ hasMadeCall' = [hasMadeCall EXCEPT ![p] = FALSE]
  /\ UNCHANGED <<holder, theMessageQueue, message, response, unread, historyVars>>

\* addResponseToQueue without its check of the response, given null.
AddUnchecked(w, m) ==
  /\ pc[w] = "idle"
  /\ Len(accepted) < MaxAdded
  /\ waiters' = Append(waiters, w)
  /\ Goto(w, "waiting")
  /\ message' = [message EXCEPT ![w] = NoMessage]
  /\ UNCHANGED <<holder, theMessageQueue, pageVars, historyVars>>

\* messageQueueAsJSON that does not clear the queue.
CopyOnly(p) ==
  /\ pc[p] = "copied"
  /\ Goto(p, "cleared")
  /\ UNCHANGED <<lockVars, theMessageQueue, message, pageVars, historyVars>>

-----------------------------------------------------------------------------
(***************************************************************************)
(* readWriteSemaphore.                                                     *)
(***************************************************************************)

\* acquire: the thread queues up; a fair semaphore serves its queue in order.
Queue(t) ==
  /\ waiters' = Append(waiters, t)
  /\ Goto(t, "waiting")

Acquire(t) ==
  /\ pc[t] = "waiting"
  /\ holder = NoThread
  /\ waiters # <<>>
  /\ Head(waiters) = t
  /\ waiters' = Tail(waiters)
  /\ holder' = t
  /\ Goto(t, "locked")
  /\ UNCHANGED <<theMessageQueue, message, pageVars, historyVars>>

\* InterruptedException while waiting: addResponseToQueue passes it on,
\* messageQueueAsJSON returns "[]".  Neither has the permits, neither releases.
Interrupt(t) ==
  /\ pc[t] = "waiting"
  /\ interrupts < MaxInterrupts
  /\ interrupts' = interrupts + 1
  /\ \E n \in 1 .. Len(waiters) : waiters[n] = t /\ waiters' = RemoveAt(waiters, n)
  /\ Goto(t, "idle")
  /\ UNCHANGED <<holder, theMessageQueue, message, pageVars, accepted, handed>>

-----------------------------------------------------------------------------
(***************************************************************************)
(* addResponseToQueue.                                                     *)
(***************************************************************************)
AddResponseToQueue(w, m) ==
  /\ pc[w] = "idle"
  /\ Len(accepted) < MaxAdded
  /\ Queue(w)
  /\ message' = [message EXCEPT ![w] = m]
  /\ UNCHANGED <<holder, theMessageQueue, pageVars, historyVars>>

Add(w) ==
  /\ w \in Writers
  /\ pc[w] = "locked"
  /\ theMessageQueue' = Append(theMessageQueue, message[w])
  /\ accepted' = Append(accepted, message[w])
  /\ Goto(w, "added")
  /\ UNCHANGED <<lockVars, message, pageVars, handed, interrupts>>

ReleaseAfterAdd(w) ==
  /\ w \in Writers
  /\ pc[w] = "added"
  /\ holder' = NoThread
  /\ Goto(w, "idle")
  /\ UNCHANGED <<waiters, theMessageQueue, message, pageVars, historyVars>>

-----------------------------------------------------------------------------
(***************************************************************************)
(* messageQueueAsJSON, and qc.messageQueueAsJSON that polls it.  The page  *)
(* is the one JavaScript thread of its web view: it polls again only when  *)
(* it has gone through the last answer.                                    *)
(***************************************************************************)

\* qc.makeCall: the page's first call starts the interval timer.
MakeCall(p) ==
  /\ pc[p] = "idle"
  /\ unread[p] = <<>>
  /\ hasMadeCall' = [hasMadeCall EXCEPT ![p] = TRUE]
  /\ UNCHANGED <<pc, lockVars, theMessageQueue, message, response, unread, historyVars>>

Poll(p) ==
  /\ pc[p] = "idle"
  /\ hasMadeCall[p]
  /\ unread[p] = <<>>
  /\ Queue(p)
  /\ UNCHANGED <<holder, theMessageQueue, message, pageVars, historyVars>>

Printable(msgs) == \A n \in 1 .. Len(msgs) : msgs[n] \notin Unprintable

Copy(p) ==
  /\ pc[p] = "locked"
  /\ Printable(theMessageQueue)
  /\ response' = [response EXCEPT ![p] = theMessageQueue]
  /\ Goto(p, "copied")
  /\ UNCHANGED <<lockVars, theMessageQueue, message, unread, hasMadeCall, historyVars>>

\* JSONException: the catch clause is outside the lines that release, so the
\* permits are lost.  The page gets "[]".
CopyFails(p) ==
  /\ pc[p] = "locked"
  /\ ~Printable(theMessageQueue)
  /\ Goto(p, "idle")
  /\ UNCHANGED <<lockVars, theMessageQueue, message, pageVars, historyVars>>

Clear(p) ==
  /\ pc[p] = "copied"
  /\ theMessageQueue' = <<>>
  /\ Goto(p, "cleared")
  /\ UNCHANGED <<lockVars, message, pageVars, historyVars>>

\* The permits are released and the copy is returned to the page.
ReturnResponse(p) ==
  /\ pc[p] = "cleared"
  /\ holder' = NoThread
  /\ handed' = handed \o response[p]
  /\ unread' = [unread EXCEPT ![p] = response[p]]
  /\ response' = [response EXCEPT ![p] = <<>>]
  /\ Goto(p, "idle")
  /\ UNCHANGED <<waiters, theMessageQueue, message, hasMadeCall, accepted, interrupts>>

\* One turn of the loop over messagesToComplete.  It parses callBackString,
\* which is defined nowhere: the error is caught and logged, the stack that
\* waits for the response is not resumed.
CompleteNext(p) ==
  /\ pc[p] = "idle"
  /\ unread[p] # <<>>
  /\ unread' = [unread EXCEPT ![p] = Tail(@)]
  /\ UNCHANGED <<pc, lockVars, theMessageQueue, message, response, hasMadeCall,
                 accepted, handed, interrupts>>

-----------------------------------------------------------------------------
WriterStep(w) == Add(w) \/ ReleaseAfterAdd(w)

PageStep(p) == Copy(p) \/ CopyFails(p) \/ Clear(p) \/ ReturnResponse(p) \/ CompleteNext(p)

Next ==
  \/ \E t \in Threads : Acquire(t) \/ Interrupt(t)
  \/ \E w \in Writers : (\E m \in Messages : AddResponseToQueue(w, m)) \/ WriterStep(w)
  \/ \E p \in Pages : MakeCall(p) \/ Poll(p) \/ PageStep(p)

Spec == Init /\ [][Next]_vars

(***************************************************************************)
(* Fairness: threads run, the semaphore is fair, and setInterval fires     *)
(* again and again.                                                        *)
(***************************************************************************)
FairSpec ==
  /\ Spec
  /\ \A t \in Threads : WF_vars(Acquire(t))
  /\ \A w \in Writers : WF_vars(WriterStep(w))
  /\ \A p \in Pages : WF_vars(Poll(p)) /\ WF_vars(PageStep(p))

-----------------------------------------------------------------------------
(***************************************************************************)
(* Properties.                                                             *)
(***************************************************************************)
TypeOK ==
  /\ pc \in [Threads -> WriterPcs \cup PagePcs]
  /\ waiters \in Seq(Threads)
  /\ holder \in Threads \cup {NoThread}
  /\ theMessageQueue \in Seq(Messages)
  /\ message \in [Writers -> Messages \cup {NoMessage}]
  /\ hasMadeCall \in [Pages -> BOOLEAN]
  /\ response \in [Pages -> Seq(Messages)]
  /\ unread \in [Pages -> Seq(Messages)]
  /\ accepted \in Seq(Messages)
  /\ handed \in Seq(Messages)
  /\ interrupts \in Nat

\* Where a thread is inside the critical section.
Inside == {"locked", "added", "copied", "cleared"}

\* The permits were lost with an exception: their holder has left without
\* releasing them, and the response it could not print is still in the queue.
Leaked ==
  /\ holder # NoThread
  /\ pc[holder] \notin Inside
  /\ ~Printable(theMessageQueue)

\* The copy of the page that has cleared the queue and has not returned yet.
InTransit == IF holder \in Pages /\ pc[holder] = "cleared" THEN response[holder] ELSE <<>>

\* Every response added is returned to a page once, in the order in which the
\* responses were added, whatever the threads do: none is lost between the copy
\* and the clearing of the queue, and two pages never get the same one.
NothingLostOrRepeated == accepted = handed \o InTransit \o theMessageQueue

\* A page never goes on between its copy and the clearing of the queue with a
\* copy that another thread has outdated.
CopyIsCurrent == \A p \in Pages : pc[p] = "copied" => response[p] = theMessageQueue

\* Only the holder of the permits is inside, and permits that are held by a
\* thread that has left are lost with an exception, in no other way.
PermitsAccountedFor ==
  /\ \A t \in Threads : pc[t] \in Inside => holder = t
  /\ holder # NoThread => pc[holder] \in Inside \/ Leaked

\* What makes the three above inductive: each thread is where its kind can be,
\* and a writer at work has a response to add.
ThreadInv ==
  /\ \A w \in Writers : /\ pc[w] \in WriterPcs
                        /\ pc[w] # "idle" => message[w] \in Messages
  /\ \A p \in Pages : pc[p] \in PagePcs

IInv == TypeOK /\ ThreadInv /\ PermitsAccountedFor /\ CopyIsCurrent /\ NothingLostOrRepeated

\* Seen from outside the queue is a mailbox that loses nothing.
Box == INSTANCE Mailbox WITH
  Lossy <- FALSE,
  box   <- theMessageQueue,
  taken <- handed \o InTransit

ImplementsMailbox == Box!Spec

\* A page that polls gets its answer (and is not blocked for ever), unless the
\* permits have been lost.
PollReturns == \A p \in Pages : pc[p] = "waiting" ~> (pc[p] = "idle" \/ Leaked)

\* Once a page polls, every response that has been added reaches a page, unless
\* the permits are lost.
ResponsesArrive ==
  \A n \in 1 .. MaxAdded :
    Len(accepted) >= n /\ (\E p \in Pages : hasMadeCall[p])
      ~> (Len(handed) >= n \/ Leaked)
=============================================================================
