------------------------ MODULE ResponseQueueProofs ------------------------
(***************************************************************************)
(* Proofs about ResponseQueue, for any number of writers, pages and        *)
(* responses.                                                              *)
(***************************************************************************)
EXTENDS ResponseQueue, SequenceTheorems, TLAPS

LEMMA InitIInv == Init => IInv
<1> SUFFICES ASSUME Init PROVE IInv
  OBVIOUS
<1>1. TypeOK
  <2>1. \A S : <<>> \in Seq(S)
    OBVIOUS
  <2>2. QED
    BY <2>1 DEF Init, TypeOK, WriterPcs, PagePcs
<1>2. ThreadInv
  BY ConstantsAssumption DEF Init, ThreadInv, Threads, WriterPcs, PagePcs
<1>3. PermitsAccountedFor /\ CopyIsCurrent
  BY DEF Init, PermitsAccountedFor, CopyIsCurrent, Threads, Inside
<1>4. NothingLostOrRepeated
  <2>1. InTransit = <<>>
    BY ConstantsAssumption DEF Init, InTransit, Threads
  <2>2. <<>> = <<>> \o <<>> \o <<>>
    OBVIOUS
  <2>3. QED
    BY <2>1, <2>2 DEF Init, NothingLostOrRepeated
<1>5. QED
  BY <1>1, <1>2, <1>3, <1>4 DEF IInv

\* Taking one thread out of the semaphore's queue leaves a queue of threads.
LEMMA RemoveWaiter ==
  ASSUME NEW S, NEW q \in Seq(S), NEW n \in 1 .. Len(q)
  PROVE  RemoveAt(q, n) \in Seq(S)
<1>1. /\ Len(q) \in Nat /\ n - 1 \in Int /\ n + 1 \in Int /\ 1 \in Int
      /\ \A i \in 1 .. n - 1 : q[i] \in S
      /\ \A i \in n + 1 .. Len(q) : q[i] \in S
  OBVIOUS
<1> DEFINE a == n - 1
           b == n + 1
           c == Len(q)
<1>2. /\ a \in Int /\ b \in Int /\ c \in Int
      /\ \A i \in 1 .. a : q[i] \in S
      /\ \A i \in b .. c : q[i] \in S
  BY <1>1
<1> HIDE DEF a, b, c
<1>3. SubSeq(q, 1, a) \in Seq(S) /\ SubSeq(q, b, c) \in Seq(S)
  BY <1>1, <1>2, SubSeqProperties
<1>4. SubSeq(q, 1, a) \o SubSeq(q, b, c) \in Seq(S)
  BY <1>3, ConcatProperties
<1>5. QED
  BY <1>4 DEF RemoveAt, a, b, c

-----------------------------------------------------------------------------
(***************************************************************************)
(* A step outside the critical section: a thread that is neither inside    *)
(* before the step nor after it, and nothing of the queue changes.         *)
(***************************************************************************)
LEMMA OutsideStep ==
  ASSUME IInv, NEW t \in Threads,
         pc[t] \in {"idle", "waiting"}, NEW label \in {"idle", "waiting"},
         pc' = [pc EXCEPT ![t] = label],
         UNCHANGED <<holder, theMessageQueue, response, accepted, handed>>,
         TypeOK',
         \A w \in Writers : pc'[w] # "idle" => message'[w] \in Messages
  PROVE  IInv'
<1> USE DEF Inside
<1>1. pc \in [Threads -> WriterPcs \cup PagePcs]
  BY DEF IInv, TypeOK
<1>2. pc'[t] = label /\ \A u \in Threads \ {t} : pc'[u] = pc[u]
  BY <1>1
<1>3. ThreadInv'
  BY <1>2 DEF IInv, ThreadInv, Threads, WriterPcs, PagePcs
<1>4. PermitsAccountedFor'
  BY <1>2 DEF IInv, TypeOK, PermitsAccountedFor, Leaked, Printable
<1>5. CopyIsCurrent'
  BY <1>2 DEF IInv, CopyIsCurrent, Threads
<1>6. NothingLostOrRepeated'
  <2>1. InTransit' = InTransit
    BY <1>2 DEF InTransit, Threads
  <2>2. QED
    BY <2>1 DEF IInv, NothingLostOrRepeated
<1>7. QED
  BY <1>3, <1>4, <1>5, <1>6 DEF IInv

LEMMA ArriveIInv ==
  ASSUME IInv, NEW t \in Threads, Queue(t), pc[t] = "idle",
         UNCHANGED <<holder, theMessageQueue, pageVars, historyVars>>,
         message' \in [Writers -> Messages \cup {NoMessage}],
         t \in Writers => message'[t] \in Messages,
         \A w \in Writers \ {t} : message'[w] = message[w]
  PROVE  IInv'
<1>1. TypeOK'
  <2>1. waiters' \in Seq(Threads)
    BY DEF IInv, TypeOK, Queue
  <2>2. pc' \in [Threads -> WriterPcs \cup PagePcs]
    BY DEF IInv, TypeOK, Queue, Goto, WriterPcs
  <2>3. QED
    BY <2>1, <2>2 DEF IInv, TypeOK, pageVars, historyVars
<1>2. \A w \in Writers : pc'[w] # "idle" => message'[w] \in Messages
  BY DEF IInv, TypeOK, ThreadInv, Threads, Queue, Goto
<1>3. QED
  BY <1>1, <1>2, OutsideStep DEF Queue, Goto, pageVars, historyVars

LEMMA InterruptIInv ==
  ASSUME IInv, NEW t \in Threads, Interrupt(t)
  PROVE  IInv'
<1>1. TypeOK'
  <2>1. waiters' \in Seq(Threads)
    BY RemoveWaiter DEF IInv, TypeOK, Interrupt
  <2>2. pc' \in [Threads -> WriterPcs \cup PagePcs]
    BY DEF IInv, TypeOK, Interrupt, Goto, WriterPcs
  <2>3. interrupts' \in Nat
    BY DEF IInv, TypeOK, Interrupt
  <2>4. QED
    BY <2>1, <2>2, <2>3 DEF IInv, TypeOK, Interrupt, pageVars
<1>2. \A w \in Writers : pc'[w] # "idle" => message'[w] \in Messages
  BY DEF IInv, TypeOK, ThreadInv, Threads, Interrupt, Goto
<1>3. QED
  BY <1>1, <1>2, OutsideStep DEF Interrupt, Goto, pageVars

-----------------------------------------------------------------------------
(***************************************************************************)
(* The critical section.                                                   *)
(***************************************************************************)

\* Nobody else is inside with the thread that is.
LEMMA AloneInside ==
  ASSUME IInv, NEW t \in Threads, pc[t] \in Inside
  PROVE  /\ holder = t
         /\ \A u \in Threads \ {t} : pc[u] \notin Inside
  BY DEF IInv, PermitsAccountedFor

\* The clear and the return put the copy where NothingLostOrRepeated wants it.
LEMMA Regroup ==
  ASSUME NEW S, NEW a \in Seq(S), NEW b \in Seq(S), NEW c \in Seq(S)
  PROVE  /\ a \o <<>> \o b = a \o b \o <<>>
         /\ (a \o b) \o <<>> \o c = a \o b \o c
         /\ (a \o b) \o c \in Seq(S)
         /\ a \o b \in Seq(S)
<1>1. a \o <<>> = a
  BY ConcatEmptySeq
<1>2. a \o b \in Seq(S) /\ (a \o b) \o <<>> = a \o b
  BY ConcatEmptySeq, ConcatProperties
<1>3. (a \o b) \o c \in Seq(S)
  BY <1>2, ConcatProperties
<1>4. QED
  BY <1>1, <1>2, <1>3

LEMMA AcquireIInv ==
  ASSUME IInv, NEW t \in Threads, Acquire(t)
  PROVE  IInv'
<1> USE DEF Inside
<1>1. TypeOK'
  <2>1. waiters' \in Seq(Threads)
    BY DEF IInv, TypeOK, Acquire
  <2>2. pc' \in [Threads -> WriterPcs \cup PagePcs]
    BY DEF IInv, TypeOK, Acquire, Goto, WriterPcs
  <2>3. QED
    BY <2>1, <2>2 DEF IInv, TypeOK, Acquire, pageVars, historyVars
<1>2. /\ pc'[t] = "locked"
      /\ holder' = t
      /\ \A u \in Threads \ {t} : pc'[u] = pc[u] /\ pc[u] \notin Inside
  BY ConstantsAssumption DEF IInv, TypeOK, PermitsAccountedFor, Acquire, Goto, Threads
<1>3. ThreadInv'
  BY <1>2 DEF IInv, ThreadInv, Threads, Acquire, WriterPcs, PagePcs
<1>4. PermitsAccountedFor' /\ CopyIsCurrent'
  BY <1>2 DEF PermitsAccountedFor, CopyIsCurrent, Threads
<1>5. NothingLostOrRepeated'
  <2>1. InTransit = <<>> /\ InTransit' = <<>>
    BY <1>2, ConstantsAssumption DEF InTransit, Threads, Acquire
  <2>2. QED
    BY <2>1 DEF IInv, NothingLostOrRepeated, Acquire, historyVars
<1>6. QED
  BY <1>1, <1>3, <1>4, <1>5 DEF IInv

LEMMA AddIInv ==
  ASSUME IInv, NEW w \in Writers, Add(w)
  PROVE  IInv'
<1> USE DEF Inside
<1>0. w \in Threads /\ w \notin Pages
  BY ConstantsAssumption DEF Threads
<1>1. /\ holder = w
      /\ message[w] \in Messages
      /\ \A u \in Threads \ {w} : pc[u] \notin Inside
  BY <1>0, AloneInside DEF Add, IInv, ThreadInv
<1>2. /\ pc'[w] = "added"
      /\ \A u \in Threads \ {w} : pc'[u] = pc[u]
  BY <1>0 DEF IInv, TypeOK, Add, Goto
<1>3. TypeOK'
  <2>1. theMessageQueue' \in Seq(Messages) /\ accepted' \in Seq(Messages)
    BY <1>1 DEF IInv, TypeOK, Add
  <2>2. pc' \in [Threads -> WriterPcs \cup PagePcs]
    BY DEF IInv, TypeOK, Add, Goto, WriterPcs
  <2>3. QED
    BY <2>1, <2>2 DEF IInv, TypeOK, Add, lockVars, pageVars
<1>4. ThreadInv'
  BY <1>0, <1>1, <1>2 DEF IInv, ThreadInv, Threads, Add, WriterPcs, PagePcs
<1>5. PermitsAccountedFor' /\ CopyIsCurrent'
  BY <1>0, <1>1, <1>2 DEF PermitsAccountedFor, CopyIsCurrent, Threads, Add, lockVars
<1>6. NothingLostOrRepeated'
  <2>1. InTransit = <<>> /\ InTransit' = <<>>
    BY <1>0, <1>1 DEF InTransit, Add, lockVars
  <2>2. handed \o <<>> \in Seq(Messages) /\ theMessageQueue \in Seq(Messages)
    BY DEF IInv, TypeOK
  <2>3. handed \o <<>> \o theMessageQueue' = Append(handed \o <<>> \o theMessageQueue, message[w])
    BY <2>2, <1>1 DEF Add
  <2>4. QED
    BY <2>1, <2>3 DEF IInv, NothingLostOrRepeated, Add
<1>7. QED
  BY <1>3, <1>4, <1>5, <1>6 DEF IInv

LEMMA ReleaseAfterAddIInv ==
  ASSUME IInv, NEW w \in Writers, ReleaseAfterAdd(w)
  PROVE  IInv'
<1> USE DEF Inside
<1>0. w \in Threads /\ w \notin Pages /\ NoThread \notin Threads
  BY ConstantsAssumption DEF Threads
<1>1. holder = w /\ \A u \in Threads \ {w} : pc[u] \notin Inside
  BY <1>0, AloneInside DEF ReleaseAfterAdd
<1>2. /\ pc'[w] = "idle"
      /\ \A u \in Threads \ {w} : pc'[u] = pc[u]
  BY <1>0 DEF IInv, TypeOK, ReleaseAfterAdd, Goto
<1>3. TypeOK'
  BY DEF IInv, TypeOK, ReleaseAfterAdd, Goto, WriterPcs, pageVars, historyVars
<1>4. ThreadInv'
  BY <1>0, <1>2 DEF IInv, ThreadInv, Threads, ReleaseAfterAdd, WriterPcs, PagePcs
<1>5. PermitsAccountedFor' /\ CopyIsCurrent'
  BY <1>0, <1>1, <1>2 DEF PermitsAccountedFor, CopyIsCurrent, Threads, ReleaseAfterAdd
<1>6. NothingLostOrRepeated'
  <2>1. InTransit = <<>> /\ InTransit' = <<>>
    BY <1>0, <1>1 DEF InTransit, ReleaseAfterAdd, Threads
  <2>2. QED
    BY <2>1 DEF IInv, NothingLostOrRepeated, ReleaseAfterAdd, historyVars
<1>7. QED
  BY <1>3, <1>4, <1>5, <1>6 DEF IInv

LEMMA CopyIInv ==
  ASSUME IInv, NEW p \in Pages, Copy(p)
  PROVE  IInv'
<1> USE DEF Inside
<1>0. p \in Threads /\ p \notin Writers
  BY ConstantsAssumption DEF Threads
<1>1. holder = p /\ \A u \in Threads \ {p} : pc[u] \notin Inside
  BY <1>0, AloneInside DEF Copy
<1>2. /\ pc'[p] = "copied"
      /\ \A u \in Threads \ {p} : pc'[u] = pc[u]
      /\ response'[p] = theMessageQueue
  BY <1>0 DEF IInv, TypeOK, Copy, Goto
<1>3. TypeOK'
  BY DEF IInv, TypeOK, Copy, Goto, PagePcs, lockVars, historyVars
<1>4. ThreadInv'
  BY <1>0, <1>2 DEF IInv, ThreadInv, Threads, Copy, WriterPcs, PagePcs
<1>5. PermitsAccountedFor' /\ CopyIsCurrent'
  BY <1>0, <1>1, <1>2 DEF PermitsAccountedFor, CopyIsCurrent, Threads, Copy, lockVars
<1>6. NothingLostOrRepeated'
  <2>1. InTransit = <<>> /\ InTransit' = <<>>
    BY <1>0, <1>1, <1>2 DEF InTransit, Copy, lockVars
  <2>2. QED
    BY <2>1 DEF IInv, NothingLostOrRepeated, Copy, historyVars
<1>7. QED
  BY <1>3, <1>4, <1>5, <1>6 DEF IInv

LEMMA CopyFailsIInv ==
  ASSUME IInv, NEW p \in Pages, CopyFails(p)
  PROVE  IInv'
<1> USE DEF Inside
<1>0. p \in Threads /\ p \notin Writers
  BY ConstantsAssumption DEF Threads
<1>1. holder = p /\ \A u \in Threads \ {p} : pc[u] \notin Inside
  BY <1>0, AloneInside DEF CopyFails
<1>2. /\ pc'[p] = "idle"
      /\ \A u \in Threads \ {p} : pc'[u] = pc[u]
  BY <1>0 DEF IInv, TypeOK, CopyFails, Goto
<1>3. TypeOK'
  BY DEF IInv, TypeOK, CopyFails, Goto, PagePcs, lockVars, pageVars, historyVars
<1>4. ThreadInv'
  BY <1>0, <1>2 DEF IInv, ThreadInv, Threads, CopyFails, WriterPcs, PagePcs
<1>5. PermitsAccountedFor' /\ CopyIsCurrent'
  BY <1>0, <1>1, <1>2
     DEF PermitsAccountedFor, Leaked, Printable, CopyIsCurrent, Threads, CopyFails, lockVars
<1>6. NothingLostOrRepeated'
  <2>1. InTransit = <<>> /\ InTransit' = <<>>
    BY <1>0, <1>1, <1>2 DEF InTransit, CopyFails, lockVars
  <2>2. QED
    BY <2>1 DEF IInv, NothingLostOrRepeated, CopyFails, historyVars
<1>7. QED
  BY <1>3, <1>4, <1>5, <1>6 DEF IInv

LEMMA ClearIInv ==
  ASSUME IInv, NEW p \in Pages, Clear(p)
  PROVE  IInv'
<1> USE DEF Inside
<1>0. p \in Threads /\ p \notin Writers
  BY ConstantsAssumption DEF Threads
<1>1. holder = p /\ \A u \in Threads \ {p} : pc[u] \notin Inside
  BY <1>0, AloneInside DEF Clear
<1>2. /\ pc'[p] = "cleared"
      /\ \A u \in Threads \ {p} : pc'[u] = pc[u]
  BY <1>0 DEF IInv, TypeOK, Clear, Goto
<1>3. TypeOK'
  <2>1. theMessageQueue' \in Seq(Messages)
    <3>1. <<>> \in Seq(Messages)
      OBVIOUS
    <3>2. QED
      BY <3>1 DEF Clear
  <2>2. pc' \in [Threads -> WriterPcs \cup PagePcs]
    BY DEF IInv, TypeOK, Clear, Goto, PagePcs
  <2>3. QED
    BY <2>1, <2>2 DEF IInv, TypeOK, Clear, lockVars, pageVars, historyVars
<1>4. ThreadInv'
  BY <1>0, <1>2 DEF IInv, ThreadInv, Threads, Clear, WriterPcs, PagePcs
<1>5. PermitsAccountedFor' /\ CopyIsCurrent'
  BY <1>0, <1>1, <1>2 DEF PermitsAccountedFor, CopyIsCurrent, Threads, Clear, lockVars
<1>6. NothingLostOrRepeated'
  <2>1. InTransit = <<>> /\ InTransit' = theMessageQueue
    BY <1>0, <1>1, <1>2 DEF IInv, CopyIsCurrent, InTransit, Clear, lockVars, pageVars
  <2>2. handed \in Seq(Messages) /\ theMessageQueue \in Seq(Messages)
    BY DEF IInv, TypeOK
  <2>3. handed \o <<>> \o theMessageQueue = handed \o theMessageQueue \o <<>>
    BY <2>2, Regroup
  <2>4. QED
    BY <2>1, <2>3 DEF IInv, NothingLostOrRepeated, Clear, historyVars
<1>7. QED
  BY <1>3, <1>4, <1>5, <1>6 DEF IInv

LEMMA ReturnResponseIInv ==
  ASSUME IInv, NEW p \in Pages, ReturnResponse(p)
  PROVE  IInv'
<1> USE DEF Inside
<1>0. p \in Threads /\ p \notin Writers /\ NoThread \notin Threads
  BY ConstantsAssumption DEF Threads
<1>1. holder = p /\ \A u \in Threads \ {p} : pc[u] \notin Inside
  BY <1>0, AloneInside DEF ReturnResponse
<1>2. /\ pc'[p] = "idle"
      /\ \A u \in Threads \ {p} : pc'[u] = pc[u]
  BY <1>0 DEF IInv, TypeOK, ReturnResponse, Goto
<1>3. /\ handed \in Seq(Messages)
      /\ response[p] \in Seq(Messages)
      /\ theMessageQueue \in Seq(Messages)
  BY DEF IInv, TypeOK
<1>4. TypeOK'
  <2>1. handed' \in Seq(Messages)
    BY <1>3, Regroup DEF ReturnResponse
  <2>2. /\ response' \in [Pages -> Seq(Messages)]
        /\ unread' \in [Pages -> Seq(Messages)]
    <3>1. <<>> \in Seq(Messages)
      OBVIOUS
    <3>2. QED
      BY <1>3, <3>1 DEF IInv, TypeOK, ReturnResponse
  <2>3. pc' \in [Threads -> WriterPcs \cup PagePcs]
    BY DEF IInv, TypeOK, ReturnResponse, Goto, PagePcs
  <2>4. QED
    BY <2>1, <2>2, <2>3 DEF IInv, TypeOK, ReturnResponse
<1>5. ThreadInv'
  BY <1>0, <1>2 DEF IInv, ThreadInv, Threads, ReturnResponse, WriterPcs, PagePcs
<1>6. PermitsAccountedFor' /\ CopyIsCurrent'
  BY <1>0, <1>1, <1>2 DEF PermitsAccountedFor, CopyIsCurrent, Threads, ReturnResponse
<1>7. NothingLostOrRepeated'
  <2>1. InTransit = response[p] /\ InTransit' = <<>>
    BY <1>0, <1>1 DEF InTransit, ReturnResponse, Threads
  <2>2. (handed \o response[p]) \o <<>> \o theMessageQueue
          = handed \o response[p] \o theMessageQueue
    BY <1>3, Regroup
  <2>3. QED
    BY <2>1, <2>2 DEF IInv, NothingLostOrRepeated, ReturnResponse
<1>8. QED
  BY <1>4, <1>5, <1>6, <1>7 DEF IInv

-----------------------------------------------------------------------------
(***************************************************************************)
(* The page's own steps, and all of them together.                         *)
(***************************************************************************)

LEMMA PageOnlyIInv ==
  ASSUME IInv, NEW p \in Pages, MakeCall(p) \/ CompleteNext(p)
  PROVE  IInv'
<1>1. UNCHANGED <<pc, holder, theMessageQueue, message, response, accepted, handed>>
  BY DEF MakeCall, CompleteNext, lockVars, historyVars
<1>2. TypeOK'
  <2>1. CASE MakeCall(p)
    BY <2>1 DEF IInv, TypeOK, MakeCall, lockVars, historyVars
  <2>2. CASE CompleteNext(p)
    <3>1. unread[p] \in Seq(Messages) /\ unread[p] # <<>>
      BY <2>2 DEF IInv, TypeOK, CompleteNext
    <3>2. Tail(unread[p]) \in Seq(Messages)
      BY <3>1
    <3>3. unread' \in [Pages -> Seq(Messages)]
      BY <2>2, <3>2 DEF IInv, TypeOK, CompleteNext
    <3>4. QED
      BY <2>2, <3>3 DEF IInv, TypeOK, CompleteNext, lockVars
  <2>3. QED
    BY <2>1, <2>2
<1>3. (ThreadInv /\ PermitsAccountedFor /\ CopyIsCurrent /\ NothingLostOrRepeated)'
  BY <1>1 DEF IInv, ThreadInv, PermitsAccountedFor, Leaked, Printable, CopyIsCurrent,
              NothingLostOrRepeated, InTransit
<1>4. QED
  BY <1>2, <1>3 DEF IInv

LEMMA NextIInv == IInv /\ [Next]_vars => IInv'
<1> SUFFICES ASSUME IInv, [Next]_vars PROVE IInv'
  OBVIOUS
<1>1. CASE UNCHANGED vars
  BY <1>1 DEF vars, lockVars, pageVars, historyVars, IInv, TypeOK, ThreadInv,
              PermitsAccountedFor, Leaked, Printable, CopyIsCurrent,
              NothingLostOrRepeated, InTransit
<1>2. ASSUME NEW t \in Threads, Acquire(t) \/ Interrupt(t)
      PROVE  IInv'
  BY <1>2, AcquireIInv, InterruptIInv
<1>3. ASSUME NEW w \in Writers, NEW m \in Messages, AddResponseToQueue(w, m)
      PROVE  IInv'
  <2>1. w \in Threads
    BY DEF Threads
  <2>2. /\ message' \in [Writers -> Messages \cup {NoMessage}]
        /\ message'[w] \in Messages
        /\ \A u \in Writers \ {w} : message'[u] = message[u]
    BY <1>3 DEF AddResponseToQueue, IInv, TypeOK
  <2>3. QED
    BY <1>3, <2>1, <2>2, ArriveIInv DEF AddResponseToQueue
<1>4. ASSUME NEW w \in Writers, WriterStep(w)
      PROVE  IInv'
  BY <1>4, AddIInv, ReleaseAfterAddIInv DEF WriterStep
<1>5. ASSUME NEW p \in Pages, Poll(p)
      PROVE  IInv'
  <2>1. p \in Threads /\ p \notin Writers
    BY ConstantsAssumption DEF Threads
  <2>2. message' \in [Writers -> Messages \cup {NoMessage}]
    BY <1>5 DEF Poll, IInv, TypeOK
  <2>3. QED
    BY <1>5, <2>1, <2>2, ArriveIInv DEF Poll
<1>6. ASSUME NEW p \in Pages, MakeCall(p) \/ PageStep(p)
      PROVE  IInv'
  BY <1>6, CopyIInv, CopyFailsIInv, ClearIInv, ReturnResponseIInv, PageOnlyIInv
     DEF PageStep
<1>7. QED
  BY <1>1, <1>2, <1>3, <1>4, <1>5, <1>6 DEF Next

\* All of it holds always.
THEOREM InductiveInvariant == Spec => []IInv
<1>1. Init => IInv
  BY InitIInv
<1>2. IInv /\ [Next]_vars => IInv'
  BY NextIInv
<1>3. QED
  BY <1>1, <1>2, PTL DEF Spec

\* The queue holds well-formed responses only, and every thread is somewhere in
\* its own method.
THEOREM Typing == Spec => []TypeOK
<1>1. IInv => TypeOK
  BY DEF IInv
<1>2. QED
  BY <1>1, InductiveInvariant, PTL

\* Whatever the threads do, every response added is returned once, in order.
THEOREM ResponsesOnceInOrder == Spec => []NothingLostOrRepeated
<1>1. IInv => NothingLostOrRepeated
  BY DEF IInv
<1>2. QED
  BY <1>1, InductiveInvariant, PTL

\* No response comes between a page's copy and its clearing of the queue.
THEOREM CopyStaysCurrent == Spec => []CopyIsCurrent
<1>1. IInv => CopyIsCurrent
  BY DEF IInv
<1>2. QED
  BY <1>1, InductiveInvariant, PTL

\* The permits are a lock, and nothing but the exception of the copy loses them.
THEOREM PermitsAreALock == Spec => []PermitsAccountedFor
<1>1. IInv => PermitsAccountedFor
  BY DEF IInv
<1>2. QED
  BY <1>1, InductiveInvariant, PTL
-----------------------------------------------------------------------------
(***************************************************************************)
(* The queue implements the mailbox: an addition is a Put, the clearing of *)
(* the queue is the Take, everything else is invisible from outside.       *)
(***************************************************************************)

\* What is in transit starts with the clearing and ends with the return.
LEMMA TransitSteps ==
  ASSUME IInv, [Next]_vars
  PROVE  \/ \E w \in Writers : Add(w) /\ UNCHANGED InTransit
         \/ \E p \in Pages : /\ Clear(p)
                            /\ InTransit = <<>>
                            /\ InTransit' = theMessageQueue
         \/ \E p \in Pages : /\ ReturnResponse(p)
                            /\ InTransit = response[p]
                            /\ InTransit' = <<>>
         \/ UNCHANGED <<theMessageQueue, handed, InTransit>>
<1> USE DEF Inside
<1>0. Writers \subseteq Threads /\ Pages \subseteq Threads /\ NoThread \notin Threads
      /\ Writers \cap Pages = {}
  BY ConstantsAssumption DEF Threads
<1>1. CASE UNCHANGED vars
  BY <1>1 DEF vars, lockVars, pageVars, historyVars, InTransit
<1>2. ASSUME NEW t \in Threads, Acquire(t) \/ Interrupt(t)
      PROVE  UNCHANGED <<theMessageQueue, handed, InTransit>>
  <2>1. CASE Acquire(t)
    <3>1. pc'[t] = "locked" /\ holder' = t /\ holder = NoThread
      BY <2>1 DEF IInv, TypeOK, Acquire, Goto
    <3>2. InTransit = <<>> /\ InTransit' = <<>>
      BY <1>0, <3>1 DEF InTransit
    <3>3. QED
      BY <2>1, <3>2 DEF Acquire, historyVars
  <2>2. CASE Interrupt(t)
    <3>1. pc[t] = "waiting" /\ pc'[t] = "idle" /\ \A u \in Threads \ {t} : pc'[u] = pc[u]
      BY <2>2 DEF IInv, TypeOK, Interrupt, Goto
    <3>2. InTransit' = InTransit
      BY <1>0, <2>2, <3>1 DEF InTransit, Interrupt, pageVars
    <3>3. QED
      BY <2>2, <3>2 DEF Interrupt
  <2>3. QED
    BY <1>2, <2>1, <2>2
<1>3. ASSUME NEW w \in Writers, NEW m \in Messages, AddResponseToQueue(w, m)
      PROVE  UNCHANGED <<theMessageQueue, handed, InTransit>>
  <2>1. \A u \in Threads \ {w} : pc'[u] = pc[u]
    BY <1>0, <1>3 DEF IInv, TypeOK, AddResponseToQueue, Queue, Goto
  <2>2. InTransit' = InTransit
    BY <1>0, <1>3, <2>1 DEF InTransit, AddResponseToQueue, pageVars
  <2>3. QED
    BY <1>3, <2>2 DEF AddResponseToQueue, historyVars
<1>4. ASSUME NEW w \in Writers, WriterStep(w)
      PROVE  \/ Add(w) /\ UNCHANGED InTransit
             \/ UNCHANGED <<theMessageQueue, handed, InTransit>>
  <2>1. pc[w] \in Inside /\ holder = w /\ w \notin Pages
    BY <1>0, <1>4, AloneInside DEF WriterStep, Add, ReleaseAfterAdd
  <2>2. InTransit = <<>>
    BY <2>1 DEF InTransit
  <2>3. holder' \in {w, NoThread}
    BY <1>4, <2>1 DEF WriterStep, Add, ReleaseAfterAdd, lockVars
  <2>4. InTransit' = <<>>
    BY <1>0, <2>1, <2>3 DEF InTransit
  <2>5. QED
    BY <1>4, <2>2, <2>4 DEF WriterStep, ReleaseAfterAdd, historyVars
<1>5. ASSUME NEW p \in Pages, MakeCall(p) \/ Poll(p) \/ CompleteNext(p)
      PROVE  UNCHANGED <<theMessageQueue, handed, InTransit>>
  <2>1. /\ \A u \in Threads \ {p} : pc'[u] = pc[u]
        /\ pc[p] = "idle"
        /\ pc'[p] \in {"idle", "waiting"}
    BY <1>0, <1>5 DEF IInv, TypeOK, MakeCall, Poll, CompleteNext, Queue, Goto
  <2>2. UNCHANGED <<holder, response, theMessageQueue, handed>>
    BY <1>5 DEF MakeCall, Poll, CompleteNext, lockVars, pageVars, historyVars
  <2>3. InTransit' = InTransit
    BY <1>0, <2>1, <2>2 DEF InTransit
  <2>4. QED
    BY <2>2, <2>3
<1>6. ASSUME NEW p \in Pages, Copy(p) \/ CopyFails(p) \/ Clear(p) \/ ReturnResponse(p)
      PROVE  \/ /\ Clear(p)
                /\ InTransit = <<>>
                /\ InTransit' = theMessageQueue
             \/ /\ ReturnResponse(p)
                /\ InTransit = response[p]
                /\ InTransit' = <<>>
             \/ UNCHANGED <<theMessageQueue, handed, InTransit>>
  <2>1. pc[p] \in Inside /\ holder = p
    BY <1>0, <1>6, AloneInside DEF Copy, CopyFails, Clear, ReturnResponse
  <2>2. CASE Copy(p) \/ CopyFails(p)
    <3>1. pc[p] = "locked" /\ holder' = p /\ pc'[p] \in {"copied", "idle"}
      BY <1>0, <2>1, <2>2 DEF IInv, TypeOK, Copy, CopyFails, Goto, lockVars
    <3>2. InTransit = <<>> /\ InTransit' = <<>>
      BY <2>1, <3>1 DEF InTransit
    <3>3. QED
      BY <2>2, <3>2 DEF Copy, CopyFails, historyVars
  <2>3. CASE Clear(p)
    <3>1. pc[p] = "copied" /\ holder' = p /\ pc'[p] = "cleared"
      BY <1>0, <2>1, <2>3 DEF IInv, TypeOK, Clear, Goto, lockVars
    <3>2. response'[p] = theMessageQueue
      BY <2>3, <3>1 DEF IInv, CopyIsCurrent, Clear, pageVars
    <3>3. InTransit = <<>> /\ InTransit' = theMessageQueue
      BY <2>1, <3>1, <3>2 DEF InTransit
    <3>4. QED
      BY <2>3, <3>3
  <2>4. CASE ReturnResponse(p)
    <3>1. pc[p] = "cleared" /\ holder' = NoThread
      BY <2>4 DEF ReturnResponse
    <3>2. InTransit = response[p] /\ InTransit' = <<>>
      BY <1>0, <2>1, <3>1 DEF InTransit
    <3>3. QED
      BY <2>4, <3>2
  <2>5. QED
    BY <1>6, <2>2, <2>3, <2>4
<1>7. QED
  BY <1>1, <1>2, <1>3, <1>4, <1>5, <1>6 DEF Next, PageStep

LEMMA InitMapsToInit == Init => Box!Init
<1> SUFFICES ASSUME Init PROVE Box!Init
  OBVIOUS
<1>1. InTransit = <<>>
  BY ConstantsAssumption DEF Init, InTransit, Threads
<1>2. <<>> \o <<>> = <<>>
  OBVIOUS
<1>3. QED
  BY <1>1, <1>2 DEF Init, Box!Init

LEMMA NextMapsToNext == IInv /\ [Next]_vars => [Box!Next]_Box!vars
<1> SUFFICES ASSUME IInv, [Next]_vars PROVE [Box!Next]_Box!vars
  OBVIOUS
<1>1. ASSUME NEW w \in Writers, Add(w), UNCHANGED InTransit
      PROVE  Box!Next
  <2>1. message[w] \in Messages
    BY <1>1 DEF IInv, ThreadInv, Add
  <2>2. Box!Put(message[w])
    BY <1>1 DEF Add, Box!Put
  <2>3. QED
    BY <2>1, <2>2 DEF Box!Next
<1>2. ASSUME NEW p \in Pages, Clear(p), InTransit = <<>>, InTransit' = theMessageQueue
      PROVE  Box!Next
  <2>1. handed \in Seq(Messages) /\ handed \o <<>> = handed
    BY ConcatEmptySeq DEF IInv, TypeOK
  <2>2. Box!Take
    BY <1>2, <2>1 DEF Clear, historyVars, Box!Take
  <2>3. QED
    BY <2>2 DEF Box!Next
<1>3. ASSUME NEW p \in Pages, ReturnResponse(p), InTransit = response[p], InTransit' = <<>>
      PROVE  UNCHANGED Box!vars
  <2>1. handed \in Seq(Messages) /\ response[p] \in Seq(Messages)
    BY DEF IInv, TypeOK
  <2>2. (handed \o response[p]) \o <<>> = handed \o response[p]
    BY <2>1, ConcatEmptySeq, ConcatProperties
  <2>3. QED
    BY <1>3, <2>2 DEF ReturnResponse, Box!vars
<1>4. CASE UNCHANGED <<theMessageQueue, handed, InTransit>>
  BY <1>4 DEF Box!vars
<1>5. QED
  BY <1>1, <1>2, <1>3, <1>4, TransitSteps

\* The response queue is a mailbox that loses nothing, for any threads.
THEOREM QueueIsAMailbox == Spec => ImplementsMailbox
<1>1. Init => Box!Init
  BY InitMapsToInit
<1>2. IInv /\ [Next]_vars => [Box!Next]_Box!vars
  BY NextMapsToNext
<1>3. QED
  BY <1>1, <1>2, InductiveInvariant, PTL DEF Spec, Box!Spec, ImplementsMailbox
=============================================================================
