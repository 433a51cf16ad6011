-------------------------- MODULE MessagePollingProofs --------------------------
(***************************************************************************)
(* Proofs about MessagePolling, for any number of requests and reloads: a  *)
(* request is handled once and in order or lost with its page or its       *)
(* answer, and the array with the polling thread is a lossy mailbox.       *)
(***************************************************************************)
EXTENDS MessagePolling, SequenceTheorems, TLAPS

\* The polling thread has parsed requests only while it hands them over.
PollerInv ==
  /\ poller # "handling" => requests = <<>>
  /\ Len(kind) <= MaxSent

IInv == TypeOK /\ PollerInv /\ RequestsOnceInOrder

-----------------------------------------------------------------------------
(***************************************************************************)
(* Sequences of request numbers.                                           *)
(***************************************************************************)
Ascending(s) == \A i, j \in 1 .. Len(s) : i < j => s[i] < s[j]

LEMMA ToSetOfAppend ==
  ASSUME NEW S, NEW s \in Seq(S), NEW e \in S
  PROVE  ToSet(Append(s, e)) = ToSet(s) \cup {e}
<1>1. /\ DOMAIN s = 1 .. Len(s)
      /\ DOMAIN Append(s, e) = 1 .. Len(s) + 1
      /\ \A i \in 1 .. Len(s) : Append(s, e)[i] = s[i]
      /\ Append(s, e)[Len(s) + 1] = e
      /\ Len(s) \in Nat
  BY AppendProperties, LenProperties
<1>2. QED
  BY <1>1 DEF ToSet

LEMMA ToSetOfConcat ==
  ASSUME NEW S, NEW s \in Seq(S), NEW t \in Seq(S)
  PROVE  ToSet(s \o t) = ToSet(s) \cup ToSet(t)
<1>1. /\ DOMAIN s = 1 .. Len(s) /\ DOMAIN t = 1 .. Len(t)
      /\ DOMAIN (s \o t) = 1 .. Len(s) + Len(t)
      /\ \A i \in 1 .. Len(s) + Len(t) :
           (s \o t)[i] = IF i <= Len(s) THEN s[i] ELSE t[i - Len(s)]
      /\ Len(s) \in Nat /\ Len(t) \in Nat
  BY ConcatProperties, LenProperties
<1>2. ASSUME NEW x \in ToSet(s \o t)
      PROVE  x \in ToSet(s) \cup ToSet(t)
  <2>1. PICK i \in 1 .. Len(s) + Len(t) : x = (s \o t)[i]
    BY <1>1 DEF ToSet
  <2>2. CASE i <= Len(s)
    BY <1>1, <2>1, <2>2 DEF ToSet
  <2>3. CASE ~(i <= Len(s))
    <3>1. i - Len(s) \in 1 .. Len(t) /\ x = t[i - Len(s)]
      BY <1>1, <2>1, <2>3
    <3>2. QED
      BY <1>1, <3>1 DEF ToSet
  <2>4. QED
    BY <2>2, <2>3
<1>3. ASSUME NEW x \in ToSet(s)
      PROVE  x \in ToSet(s \o t)
  <2>1. PICK i \in 1 .. Len(s) : x = s[i]
    BY <1>1 DEF ToSet
  <2>2. i \in 1 .. Len(s) + Len(t) /\ x = (s \o t)[i]
    BY <1>1, <2>1
  <2>3. QED
    BY <1>1, <2>2 DEF ToSet
<1>4. ASSUME NEW x \in ToSet(t)
      PROVE  x \in ToSet(s \o t)
  <2>1. PICK i \in 1 .. Len(t) : x = t[i]
    BY <1>1 DEF ToSet
  <2>2. i + Len(s) \in 1 .. Len(s) + Len(t) /\ ~(i + Len(s) <= Len(s)) /\ (i + Len(s)) - Len(s) = i
    BY <1>1
  <2>3. x = (s \o t)[i + Len(s)]
    BY <1>1, <2>1, <2>2
  <2>4. QED
    BY <1>1, <2>2, <2>3 DEF ToSet
<1>5. QED
  BY <1>2, <1>3, <1>4

\* A request with a new number goes to the end.
LEMMA AscendingAppend ==
  ASSUME NEW n \in Nat, NEW s \in Seq(1 .. n), Ascending(s)
  PROVE  Ascending(Append(s, n + 1))
<1>1. s \in Seq(1 .. n + 1)
  BY SeqMonotonic
<1>2. /\ Len(Append(s, n + 1)) = Len(s) + 1
      /\ \A i \in 1 .. Len(s) : Append(s, n + 1)[i] = s[i] /\ s[i] \in 1 .. n
      /\ Append(s, n + 1)[Len(s) + 1] = n + 1
      /\ Len(s) \in Nat
  BY <1>1, AppendProperties, LenProperties, ElementOfSeq
<1>3. QED
  BY <1>2 DEF Ascending

\* What is left when the end is cut off, and what is not in it.
LEMMA AscendingPrefix ==
  ASSUME NEW n \in Nat, NEW s \in Seq(1 .. n), NEW t \in Seq(1 .. n), Ascending(s \o t)
  PROVE  Ascending(s) /\ ToSet(s) \cap ToSet(t) = {}
<1>1. /\ DOMAIN s = 1 .. Len(s) /\ DOMAIN t = 1 .. Len(t)
      /\ Len(s \o t) = Len(s) + Len(t)
      /\ \A i \in 1 .. Len(s) + Len(t) :
           (s \o t)[i] = IF i <= Len(s) THEN s[i] ELSE t[i - Len(s)]
      /\ Len(s) \in Nat /\ Len(t) \in Nat
  BY ConcatProperties, LenProperties
<1>2. \A i \in 1 .. Len(s) : i \in 1 .. Len(s) + Len(t) /\ (s \o t)[i] = s[i]
  BY <1>1
<1>3. \A i \in 1 .. Len(t) : i + Len(s) \in 1 .. Len(s) + Len(t) /\ (s \o t)[i + Len(s)] = t[i]
  <2> TAKE i \in 1 .. Len(t)
  <2>1. i + Len(s) \in 1 .. Len(s) + Len(t) /\ ~(i + Len(s) <= Len(s)) /\ (i + Len(s)) - Len(s) = i
    BY <1>1
  <2>2. QED
    BY <1>1, <2>1
<1>4. Ascending(s)
  BY <1>1, <1>2 DEF Ascending
<1>5. ASSUME NEW i \in 1 .. Len(s), NEW j \in 1 .. Len(t)
      PROVE  s[i] # t[j]
  <2>1. s[i] < t[j]
    <3>1. /\ i \in 1 .. Len(s \o t) /\ j + Len(s) \in 1 .. Len(s \o t) /\ i < j + Len(s)
          /\ (s \o t)[i] = s[i] /\ (s \o t)[j + Len(s)] = t[j]
      BY <1>1, <1>2, <1>3
    <3>2. QED
      BY <3>1 DEF Ascending
  <2>2. s[i] \in 1 .. n /\ t[j] \in 1 .. n
    BY ElementOfSeq
  <2>3. QED
    BY <2>1, <2>2
<1>6. QED
  BY <1>1, <1>4, <1>5 DEF ToSet

-----------------------------------------------------------------------------
(***************************************************************************)
(* What a step does to the requests on their way.                          *)
(***************************************************************************)
LEMMA Joined ==
  ASSUME NEW n \in Nat,
         NEW h \in Seq(1 .. n), NEW r \in Seq(1 .. n), NEW m \in Seq(1 .. n)
  PROVE  /\ h \o r \in Seq(1 .. n)
         /\ h \o r \o m \in Seq(1 .. n)
         /\ h \o r \o m = (h \o r) \o m
  BY ConcatProperties, ConcatAssociative

LEMMA JourneyType ==
  ASSUME TypeOK
  PROVE  /\ Sent \in Nat
         /\ handled \o requests \in Seq(1 .. Sent)
         /\ Journey \in Seq(1 .. Sent)
         /\ Journey = (handled \o requests) \o messages
<1>1. Sent \in Nat
  BY LenProperties DEF TypeOK, Sent
<1>2. messages \in Seq(1 .. Sent) /\ requests \in Seq(1 .. Sent) /\ handled \in Seq(1 .. Sent)
  BY DEF TypeOK
<1>3. QED
  BY <1>1, <1>2, Joined DEF Journey

\* A request is sent; or the array is emptied into the answer; or what is in the array
\* is lost; or nothing is put in, taken out or lost.
Sending(k) ==
  /\ Sent < MaxSent
  /\ kind' = Append(kind, k)
  /\ messages' = Append(messages, Sent + 1)
  /\ UNCHANGED <<handled, requests, lost>>

Emptying ==
  /\ handled' \o requests' = (handled \o requests) \o messages
  /\ messages' = <<>>
  /\ UNCHANGED <<kind, lost>>

Losing ==
  /\ messages' = <<>>
  /\ lost' = lost \cup ToSet(messages)
  /\ UNCHANGED <<kind, handled, requests>>

Keeping ==
  /\ handled' \o requests' = handled \o requests
  /\ UNCHANGED <<kind, messages, lost>>

LEMMA Steps ==
  ASSUME TypeOK, PollerInv, [Next]_vars
  PROVE  /\ TypeOK' /\ PollerInv'
         /\ (\E k \in Kinds : Sending(k)) \/ Emptying \/ Losing \/ Keeping
<1> USE DEF PollerStates, Deaths
<1>0. Sent \in Nat /\ MaxSent \in Nat /\ MaxReloads \in Nat
  BY JourneyType, BoundsAssumption
<1>1. ASSUME NEW k \in Kinds, MakeCall(k)
      PROVE  TypeOK' /\ PollerInv' /\ Sending(k)
  <2>1. Sent' = Sent + 1 /\ kind' \in Seq(Kinds)
    BY <1>1, AppendProperties DEF MakeCall, Sent, TypeOK
  <2>2. \A s \in Seq(1 .. Sent) : s \in Seq(1 .. Sent')
    BY <1>0, <2>1, SeqMonotonic
  <2>3. messages' \in Seq(1 .. Sent')
    <3>1. messages \in Seq(1 .. Sent') /\ Sent + 1 \in 1 .. Sent' /\ Sent' \in Nat
      <4>1. messages \in Seq(1 .. Sent)
        BY DEF TypeOK
      <4>2. QED
        BY <1>0, <2>1, <2>2, <4>1
    <3>2. QED
      BY <1>1, <3>1, AppendProperties DEF MakeCall
  <2>4. TypeOK'
    <3>1. /\ requests \in Seq(1 .. Sent) /\ handled \in Seq(1 .. Sent) /\ lost \subseteq 1 .. Sent
          /\ poller \in PollerStates /\ death \in Deaths /\ loads \in 0 .. MaxReloads
          /\ UNCHANGED <<poller, requests, death, handled, lost, loads>>
      BY <1>1 DEF MakeCall, TypeOK
    <3>2. requests \in Seq(1 .. Sent') /\ handled \in Seq(1 .. Sent')
      BY <2>2, <3>1
    <3>3. lost \subseteq 1 .. Sent'
      <4>1. \A n \in 1 .. Sent : n \in 1 .. Sent'
        BY <1>0, <2>1
      <4>2. QED
        BY <3>1, <4>1
    <3>4. QED
      BY <2>1, <2>3, <3>1, <3>2, <3>3 DEF TypeOK
  <2>5. PollerInv'
    BY <1>0, <1>1, <2>1 DEF MakeCall, PollerInv, Sent
  <2>6. QED
    BY <1>1, <2>4, <2>5 DEF MakeCall, Sending
<1>2. CASE StartLoad
  <2>1. ToSet(messages) \subseteq 1 .. Sent
    BY ElementOfSeq, LenProperties DEF TypeOK, ToSet
  <2>2. messages' \in Seq(1 .. Sent') /\ lost' \subseteq 1 .. Sent' /\ Sent' = Sent
    BY <1>2, <2>1, EmptySeq DEF StartLoad, TypeOK, Sent
  <2>3. TypeOK'
    <3>1. loads' \in 0 .. MaxReloads
      <4>1. loads \in 0 .. MaxReloads /\ loads < MaxReloads /\ loads' = loads + 1
        BY <1>2 DEF StartLoad, TypeOK
      <4>2. QED
        BY <1>0, <4>1
    <3>2. QED
      BY <1>2, <2>2, <3>1 DEF StartLoad, TypeOK
  <2>4. QED
    BY <1>2, <2>3 DEF StartLoad, PollerInv, Losing
<1>3. CASE FinishLoad
  BY <1>3 DEF FinishLoad, TypeOK, Sent, PollerInv, Keeping
<1>4. CASE WakeUp
  BY <1>4 DEF WakeUp, TypeOK, Sent, PollerInv, Keeping
<1>5. CASE Evaluate
  <2>1. TypeOK' /\ PollerInv'
    BY <1>5 DEF Evaluate, TypeOK, Sent, PollerInv
  <2>2. handled \o requests = handled
    BY <1>5, ConcatEmptySeq DEF Evaluate, PollerInv, TypeOK
  <2>3. Emptying
    BY <1>5, <2>2 DEF Evaluate, Emptying
  <2>4. QED
    BY <2>1, <2>3
<1>6. CASE EvaluateFails
  <2>1. ToSet(messages) \subseteq 1 .. Sent
    BY ElementOfSeq, LenProperties DEF TypeOK, ToSet
  <2>2. messages' \in Seq(1 .. Sent') /\ lost' \subseteq 1 .. Sent' /\ Sent' = Sent
    BY <1>6, <2>1, EmptySeq DEF EvaluateFails, TypeOK, Sent
  <2>3. TypeOK'
    BY <1>0, <1>6, <2>2 DEF EvaluateFails, TypeOK
  <2>4. QED
    BY <1>6, <2>3 DEF EvaluateFails, PollerInv, Losing
<1>7. CASE HandleRequest
  <2>1. CASE kind[Head(requests)] = "array"
    <3>1. /\ handled' = Append(handled, Head(requests)) /\ requests' = Tail(requests)
          /\ requests # <<>> /\ handled \in Seq(1 .. Sent) /\ requests \in Seq(1 .. Sent)
          /\ UNCHANGED <<messages, kind, poller, lost, loads, death>>
      BY <1>7, <2>1 DEF HandleRequest, TypeOK
    <3>2. Head(requests) \in 1 .. Sent /\ Tail(requests) \in Seq(1 .. Sent)
      BY <3>1, HeadTailProperties
    <3>3. Append(handled, Head(requests)) \in Seq(1 .. Sent)
      BY <3>1, <3>2, AppendProperties
    <3>4. Append(handled, Head(requests)) \o Tail(requests) = handled \o requests
      <4>1. Append(handled, Head(requests)) = handled \o <<Head(requests)>>
        BY <3>1, <3>2, AppendIsConcat
      <4>2. <<Head(requests)>> \in Seq(1 .. Sent)
        BY <3>2
      <4>3. requests = <<Head(requests)>> \o Tail(requests)
        BY <3>1
      <4>4. QED
        BY <3>1, <3>2, <4>1, <4>2, <4>3, ConcatAssociative
    <3>5. TypeOK' /\ PollerInv'
      BY <1>7, <3>1, <3>2, <3>3 DEF HandleRequest, TypeOK, Sent, PollerInv
    <3>6. QED
      BY <3>1, <3>4, <3>5 DEF Keeping
  <2>2. CASE kind[Head(requests)] # "array"
    BY <1>7, <2>2 DEF HandleRequest, TypeOK, Sent, PollerInv, Keeping
  <2>3. QED
    BY <2>1, <2>2
<1>8. CASE HandledAll
  BY <1>8 DEF HandledAll, TypeOK, Sent, PollerInv, Keeping
<1>9. CASE UNCHANGED vars
  BY <1>9 DEF vars, TypeOK, Sent, PollerInv, Keeping
<1>10. QED
  BY <1>1, <1>2, <1>3, <1>4, <1>5, <1>6, <1>7, <1>8, <1>9 DEF Next, Page, Poller

LEMMA InitIInv == Init => IInv
<1> SUFFICES ASSUME Init
             PROVE  IInv
  OBVIOUS
<1>1. TypeOK /\ PollerInv
  BY BoundsAssumption DEF Init, TypeOK, PollerInv, PollerStates, Deaths, Sent
<1>2. Journey = <<>>
  BY DEF Init, Journey
<1>3. RequestsOnceInOrder
  BY <1>2 DEF Init, RequestsOnceInOrder, ToSet, Sent
<1>4. QED
  BY <1>1, <1>3 DEF IInv

LEMMA NextStep == IInv /\ [Next]_vars => IInv'
<1> SUFFICES ASSUME IInv, [Next]_vars
             PROVE  IInv'
  OBVIOUS
<1> DEFINE taken == handled \o requests
<1>1. TypeOK /\ TypeOK' /\ PollerInv'
  BY Steps DEF IInv
<1>2. /\ Sent \in Nat /\ taken \in Seq(1 .. Sent) /\ messages \in Seq(1 .. Sent)
      /\ Journey \in Seq(1 .. Sent) /\ Journey = taken \o messages
  BY <1>1, JourneyType DEF TypeOK
<1>3. Journey' = taken' \o messages' /\ taken' \in Seq(1 .. Sent')
  <2>1. Sent' \in Nat
    BY <1>1, LenProperties DEF TypeOK, Sent
  <2>2. /\ messages' \in Seq(1 .. Sent') /\ requests' \in Seq(1 .. Sent')
        /\ handled' \in Seq(1 .. Sent')
    BY <1>1 DEF TypeOK
  <2>3. QED
    BY <2>1, <2>2, Joined DEF Journey
<1>4. /\ Ascending(Journey)
      /\ ToSet(Journey) \cup lost = 1 .. Sent
      /\ ToSet(Journey) \cap lost = {}
  BY DEF IInv, RequestsOnceInOrder, Ascending
<1>5. ASSUME NEW k \in Kinds, Sending(k)
      PROVE  RequestsOnceInOrder'
  <2>1. Sent' = Sent + 1 /\ lost' = lost
    BY <1>1, <1>5, AppendProperties DEF Sending, Sent, TypeOK
  <2>2. Journey' = Append(Journey, Sent + 1)
    <3>1. Journey' = taken \o Append(messages, Sent + 1)
      BY <1>3, <1>5 DEF Sending
    <3>2. /\ taken \in Seq(1 .. Sent + 1) /\ messages \in Seq(1 .. Sent + 1)
          /\ Sent + 1 \in 1 .. Sent + 1
      BY <1>2, SeqMonotonic
    <3>3. Append(messages, Sent + 1) = messages \o <<Sent + 1>> /\ <<Sent + 1>> \in Seq(1 .. Sent + 1)
      BY <3>2, AppendIsConcat
    <3>4. taken \o messages \in Seq(1 .. Sent + 1)
      BY <3>2, ConcatProperties
    <3>5. (taken \o messages) \o <<Sent + 1>> = Append(taken \o messages, Sent + 1)
      BY <3>2, <3>4, AppendIsConcat
    <3>6. taken \o (messages \o <<Sent + 1>>) = (taken \o messages) \o <<Sent + 1>>
      BY <3>2, <3>3, ConcatAssociative
    <3>7. QED
      BY <1>2, <3>1, <3>3, <3>5, <3>6
  <2>3. Ascending(Journey')
    BY <1>2, <1>4, <2>2, AscendingAppend
  <2>4. ToSet(Journey') = ToSet(Journey) \cup {Sent + 1}
    <3>1. Journey \in Seq(1 .. Sent + 1) /\ Sent + 1 \in 1 .. Sent + 1
      BY <1>2, SeqMonotonic
    <3>2. QED
      BY <2>2, <3>1, ToSetOfAppend
  <2>5. ToSet(Journey') \cup lost' = 1 .. Sent' /\ ToSet(Journey') \cap lost' = {}
    <3>1. Sent + 1 \notin lost
      BY <1>2, <1>4
    <3>2. 1 .. Sent + 1 = 1 .. Sent \cup {Sent + 1}
      BY <1>2
    <3>3. QED
      BY <1>4, <2>1, <2>4, <3>1, <3>2
  <2>6. QED
    BY <2>3, <2>5 DEF RequestsOnceInOrder, Ascending
<1>6. ASSUME Emptying
      PROVE  RequestsOnceInOrder'
  <2>1. Journey' = Journey
    BY <1>2, <1>3, <1>6, ConcatEmptySeq DEF Emptying
  <2>2. QED
    BY <1>4, <1>6, <2>1 DEF Emptying, RequestsOnceInOrder, Ascending, Sent
<1>7. ASSUME Losing
      PROVE  RequestsOnceInOrder'
  <2>1. Journey' = taken /\ Sent' = Sent
    BY <1>2, <1>3, <1>7, ConcatEmptySeq DEF Losing, Sent
  <2>2. Ascending(taken) /\ ToSet(taken) \cap ToSet(messages) = {}
    BY <1>2, <1>4, AscendingPrefix
  <2>3. ToSet(Journey) = ToSet(taken) \cup ToSet(messages)
    <3>1. \A s, t \in Seq(1 .. Sent) : ToSet(s \o t) = ToSet(s) \cup ToSet(t)
      BY ToSetOfConcat
    <3>2. QED
      BY <1>2, <3>1
  <2>4. ToSet(Journey') \cup lost' = 1 .. Sent' /\ ToSet(Journey') \cap lost' = {}
    BY <1>4, <1>7, <2>1, <2>2, <2>3 DEF Losing
  <2>5. QED
    BY <2>1, <2>2, <2>4 DEF RequestsOnceInOrder, Ascending
<1>8. ASSUME Keeping
      PROVE  RequestsOnceInOrder'
  <2>1. Journey' = Journey
    BY <1>2, <1>3, <1>8 DEF Keeping
  <2>2. QED
    BY <1>4, <1>8, <2>1 DEF Keeping, RequestsOnceInOrder, Ascending, Sent
<1>9. RequestsOnceInOrder'
  BY <1>5, <1>6, <1>7, <1>8, Steps DEF IInv
<1>10. QED
  BY <1>1, <1>9 DEF IInv

-----------------------------------------------------------------------------
(***************************************************************************)
(* The mailbox.                                                            *)
(***************************************************************************)
LEMMA InitMapsToInit == Init => Box!Init
  BY DEF Init, Box!Init

LEMMA NextMapsToNext == IInv /\ [Next]_vars => [Box!Next]_Box!vars
<1> SUFFICES ASSUME IInv, [Next]_vars
             PROVE  [Box!Next]_Box!vars
  OBVIOUS
<1>0. Sent \in Nat /\ MaxSent \in Nat
  BY JourneyType, BoundsAssumption DEF IInv
<1>1. ASSUME NEW k \in Kinds, Sending(k)
      PROVE  Box!Next
  <2>1. Sent + 1 \in 1 .. MaxSent
    BY <1>0, <1>1 DEF Sending
  <2>2. Box!Put(Sent + 1)
    BY <1>1 DEF Sending, Box!Put
  <2>3. QED
    BY <2>1, <2>2 DEF Box!Next
<1>2. CASE Emptying
  BY <1>2 DEF Emptying, Box!Next, Box!Take
<1>3. CASE Losing
  BY <1>3 DEF Losing, Box!Next, Box!Lose
<1>4. CASE Keeping
  BY <1>4 DEF Keeping, Box!vars
<1>5. QED
  BY <1>1, <1>2, <1>3, <1>4, Steps DEF IInv

-----------------------------------------------------------------------------
(***************************************************************************)
(* The theorems.                                                           *)
(***************************************************************************)

\* What is between the page and the native engine agrees with where the polling thread
\* is, in every behaviour of com.js and InterlayerMessageSystem.
THEOREM InductiveInvariant == Spec => []IInv
<1>1. QED
  BY InitIInv, NextStep, PTL DEF Spec

\* The variables keep their types.
THEOREM TypeCorrect == Spec => []TypeOK
<1>1. IInv => TypeOK
  BY DEF IInv
<1>2. QED
  BY <1>1, InductiveInvariant, PTL

\* Whatever the page does while its array is emptied and the answer is handed over, no
\* request is handled twice, overtakes another or disappears by itself.
THEOREM OnceInOrder == Spec => []RequestsOnceInOrder
<1>1. IInv => RequestsOnceInOrder
  BY DEF IInv
<1>2. QED
  BY <1>1, InductiveInvariant, PTL

\* The array in the page and the polling thread together are a mailbox that is emptied as
\* a whole or loses its contents as a whole.
THEOREM PollingIsAMailbox == Spec => ImplementsMailbox
<1>1. QED
  BY InductiveInvariant, InitMapsToInit, NextMapsToNext, PTL DEF Spec, ImplementsMailbox, Box!Spec
=============================================================================
