---------------------------- MODULE DBScriptProofs ----------------------------
(***************************************************************************)
(* Proofs about DBScript, for scripts of any length that are run any       *)
(* number of times: what a committed run has executed, and in which order. *)
(***************************************************************************)
EXTENDS DBScript, FiniteSetTheorems, TLAPS

-----------------------------------------------------------------------------
(***************************************************************************)
(* The for-in loop goes through the keys of the linker in their order.     *)
(***************************************************************************)
NumberKeys == [array : BOOLEAN, number : Nat]

\* The keys have one order.
LEMMA Precedence ==
  /\ \A k \in NumberKeys : ~ComesBefore(k, k)
  /\ \A k, l \in NumberKeys : k = l \/ ComesBefore(k, l) \/ ComesBefore(l, k)
  /\ \A j, k, l \in NumberKeys : ComesBefore(j, k) /\ ComesBefore(k, l) => ComesBefore(j, l)
BY DEF NumberKeys, ComesBefore

Before(K, k) == {l \in K : ComesBefore(l, k)}

\* The number of keys that come before one grows with the order.
LEMMA RanksGrow ==
  ASSUME NEW K, IsFiniteSet(K), K \subseteq NumberKeys,
         NEW k \in K, NEW l \in K, ComesBefore(k, l)
  PROVE  Cardinality(Before(K, k)) < Cardinality(Before(K, l))
<1>1. IsFiniteSet(Before(K, l)) /\ Cardinality(Before(K, l)) \in Nat
  BY FS_Subset, FS_CardinalityType DEF Before
<1>2. Before(K, k) \in SUBSET Before(K, l)
  BY Precedence DEF Before
<1>3. k \in Before(K, l) /\ k \notin Before(K, k)
  BY Precedence DEF Before
<1>4. /\ Cardinality(Before(K, k)) <= Cardinality(Before(K, l))
      /\ Cardinality(Before(K, k)) # Cardinality(Before(K, l))
  BY <1>1, <1>2, <1>3, FS_Subset
<1>5. Cardinality(Before(K, k)) \in Nat
  BY <1>1, <1>2, FS_Subset, FS_CardinalityType
<1>6. QED
  BY <1>1, <1>4, <1>5

\* Every key is the one that some number of keys come before.
LEMMA Ranks ==
  ASSUME NEW K, IsFiniteSet(K), K \subseteq NumberKeys
  PROVE  /\ Cardinality(K) \in Nat
         /\ \A k \in K : Cardinality(Before(K, k)) + 1 \in 1 .. Cardinality(K)
         /\ \A n \in 1 .. Cardinality(K) :
              \E k \in K : Cardinality(Before(K, k)) = n - 1
<1> DEFINE N == Cardinality(K)
           rank == [k \in K |-> Cardinality(Before(K, k)) + 1]
<1>1. N \in Nat
  BY FS_CardinalityType
<1>2. ASSUME NEW k \in K PROVE rank[k] \in 1 .. N
  <2>1. Before(K, k) \in SUBSET K /\ k \notin Before(K, k)
    BY Precedence DEF Before
  <2>2. /\ Cardinality(Before(K, k)) \in Nat
        /\ Cardinality(Before(K, k)) <= N
        /\ Cardinality(Before(K, k)) # N
    BY <2>1, FS_Subset, FS_CardinalityType
  <2>3. QED
    BY <1>1, <2>2
<1>3. rank \in [K -> 1 .. N]
  BY <1>2
<1>4. \A k, l \in K : rank[k] = rank[l] => k = l
  <2> SUFFICES ASSUME NEW k \in K, NEW l \in K, k # l
               PROVE  rank[k] # rank[l]
    OBVIOUS
  <2>1. ComesBefore(k, l) \/ ComesBefore(l, k)
    BY Precedence
  <2>2. /\ Cardinality(Before(K, k)) \in Int /\ Cardinality(Before(K, l)) \in Int
    BY FS_Subset, FS_CardinalityType DEF Before
  <2>3. Cardinality(Before(K, k)) # Cardinality(Before(K, l))
    BY <2>1, <2>2, RanksGrow
  <2>4. QED
    BY <2>2, <2>3
<1>5. rank \in Injection(K, 1 .. N)
  BY <1>3, <1>4 DEF Injection, IsInjective
<1>6. IsFiniteSet(1 .. N) /\ Cardinality(1 .. N) = N
  <2>1. 1 \in Int /\ N \in Int
    BY <1>1
  <2>2. QED
    BY <1>1, <2>1, FS_Interval
<1>7. rank \in Surjection(K, 1 .. N)
  BY <1>5, <1>6, FS_Injection
<1>8. ASSUME NEW n \in 1 .. N PROVE \E k \in K : Cardinality(Before(K, k)) = n - 1
  <2>1. PICK k \in K : rank[k] = n
    BY <1>7 DEF Surjection
  <2>2. Cardinality(Before(K, k)) \in Int
    BY FS_Subset, FS_CardinalityType DEF Before
  <2>3. QED
    BY <2>1, <2>2
<1>9. QED
  BY <1>1, <1>2, <1>8

\* The loop comes to every key once, in their order.
LEMMA LoopOrder ==
  ASSUME NEW map, IsFiniteSet(DOMAIN map), DOMAIN map \subseteq NumberKeys
  PROVE  /\ Cardinality(DOMAIN map) \in Nat
         /\ \A n \in 1 .. Cardinality(DOMAIN map) : NthKey(map, n) \in DOMAIN map
         /\ \A m, n \in 1 .. Cardinality(DOMAIN map) :
              m < n => ComesBefore(NthKey(map, m), NthKey(map, n))
         /\ \A k \in DOMAIN map :
              \E n \in 1 .. Cardinality(DOMAIN map) : NthKey(map, n) = k
<1> DEFINE K == DOMAIN map
           N == Cardinality(K)
<1>1. \A n \in 1 .. N : /\ NthKey(map, n) \in K
                        /\ Cardinality(Before(K, NthKey(map, n))) = n - 1
  BY Ranks DEF NthKey, Before
<1>2. ASSUME NEW m \in 1 .. N, NEW n \in 1 .. N, m < n
      PROVE  ComesBefore(NthKey(map, m), NthKey(map, n))
  <2> DEFINE k == NthKey(map, m)
             l == NthKey(map, n)
  <2>1. k \in K /\ l \in K /\ Cardinality(Before(K, k)) = m - 1
        /\ Cardinality(Before(K, l)) = n - 1
    BY <1>1
  <2> HIDE DEF k, l
  <2>2. ~ComesBefore(l, k)
    <3>1. CASE ComesBefore(l, k)
      <4>1. Cardinality(Before(K, l)) < Cardinality(Before(K, k))
        BY <2>1, <3>1, RanksGrow
      <4>2. n - 1 < m - 1
        BY <2>1, <4>1
      <4>3. QED
        BY <4>2, <1>2
    <3>2. QED
      BY <3>1
  <2>3. k # l
    <3>1. m - 1 # n - 1
      BY <1>2
    <3>2. QED
      BY <2>1, <3>1
  <2>4. ComesBefore(k, l)
    BY <2>1, <2>2, <2>3, Precedence
  <2>5. QED
    BY <2>4 DEF k, l
<1>3. ASSUME NEW k \in K PROVE \E n \in 1 .. N : NthKey(map, n) = k
  <2> DEFINE n == Cardinality(Before(K, k)) + 1
             l == NthKey(map, n)
  <2>1. n \in 1 .. N /\ Cardinality(Before(K, k)) \in Int
    BY Ranks, FS_Subset, FS_CardinalityType DEF Before
  <2>2. l \in K /\ Cardinality(Before(K, l)) = Cardinality(Before(K, k))
    BY <1>1, <2>1
  <2> HIDE DEF l, n
  <2>3. ~ComesBefore(k, l) /\ ~ComesBefore(l, k)
    BY <2>1, <2>2, RanksGrow
  <2>4. l = k
    BY <2>2, <2>3, Precedence
  <2>5. QED
    BY <2>1, <2>4 DEF l
<1>4. QED
  BY <1>1, <1>2, <1>3, Ranks

-----------------------------------------------------------------------------
(***************************************************************************)
(* What a transaction is to execute.                                       *)
(***************************************************************************)
\* The kinds of entries there can be.
AnyEntry == [what : {"statement", "record"}, of : Nat]

\* And of committed runs.
AnyRun == [batch : Seq(AnyEntry), asked : Nat]

Types == /\ added \in Seq(Forms)
         /\ numGeneratedParams \in Nat
         /\ waiting \in Seq(Nat)
         /\ runs \in Seq(AnyRun)
         /\ batch \in Seq(AnyEntry)

\* The keys of the linker are keys of the loop.
LEMMA LinkerKeys ==
  ASSUME Types, LinkerInv
  PROVE  IsFiniteSet(DOMAIN linker) /\ DOMAIN linker \subseteq NumberKeys
BY DEF Types, LinkerInv, NumberKeys

\* The loop over the linker gives a good batch.
LEMMA LoopIsGood ==
  ASSUME Types, LinkerInv, NEW asked \in 0 .. Len(added)
  PROVE  /\ ForIn(linker) \in Seq(AnyEntry)
         /\ GoodBatch(ForIn(linker), asked)
<1> DEFINE N == Cardinality(DOMAIN linker)
           key(n) == NthKey(linker, n)
           b == ForIn(linker)
<1>1. /\ N \in Nat
      /\ \A n \in 1 .. N : key(n) \in DOMAIN linker
      /\ \A m, n \in 1 .. N : m < n => ComesBefore(key(m), key(n))
      /\ \A k \in DOMAIN linker : \E n \in 1 .. N : key(n) = k
  BY LinkerKeys, LoopOrder
<1>2. DOMAIN b = 1 .. N /\ \A n \in 1 .. N : b[n] = linker[key(n)]
  BY DEF ForIn
<1>3. \A k \in DOMAIN linker : k \in NumberKeys
  BY LinkerKeys
<1>4. Len(added) \in Nat
  BY DEF Types
<1>5. b \in Seq(AnyEntry)
  <2>1. \A n \in 1 .. N : linker[key(n)] \in AnyEntry
    BY <1>1, <1>4 DEF LinkerInv, Stored, AnyEntry
  <2>2. b \in [1 .. N -> AnyEntry]
    BY <2>1 DEF ForIn
  <2> HIDE DEF b, N
  <2>3. QED
    BY <1>1, <2>2
<1> HIDE DEF key, N, b
<1>6. \A n \in DOMAIN b : b[n] \in Stored
  BY <1>1, <1>2 DEF LinkerInv
<1>7. ASSUME NEW m \in DOMAIN b, NEW n \in DOMAIN b,
             b[m] = b[n], b[m].what = "statement"
      PROVE  m = n
  <2>1. key(m) = key(n)
    BY <1>1, <1>2, <1>7 DEF LinkerInv
  <2>2. m \in Int /\ n \in Int
    BY <1>1, <1>2
  <2>3. ~(m < n) /\ ~(n < m)
    BY <1>1, <1>2, <1>3, <2>1, Precedence
  <2>4. QED
    BY <2>2, <2>3
<1>8. ASSUME NEW m \in DOMAIN b, NEW n \in DOMAIN b, m < n,
             added[b[m].of].parameters = added[b[n].of].parameters
      PROVE  b[m].of <= b[n].of
  <2>1. ComesBefore(key(m), key(n)) /\ key(m) \in DOMAIN linker /\ key(n) \in DOMAIN linker
    BY <1>1, <1>2, <1>8
  <2>2. key(m).array = key(n).array
    BY <1>2, <1>8, <2>1 DEF LinkerInv
  <2>3. key(m).number < key(n).number
    BY <2>1, <2>2 DEF ComesBefore
  <2>4. QED
    BY <1>2, <2>1, <2>2, <2>3 DEF LinkerInv
<1>9. ASSUME NEW i \in 1 .. asked
      PROVE  \E n \in DOMAIN b : b[n] = [what |-> "statement", of |-> i]
  <2>1. i \in 1 .. Len(added)
    BY <1>4
  <2>2. PICK k \in DOMAIN linker : linker[k] = [what |-> "statement", of |-> i]
    BY <2>1 DEF LinkerInv
  <2>3. PICK n \in 1 .. N : key(n) = k
    BY <1>1
  <2>4. QED
    BY <1>2, <2>2, <2>3
<1>10. QED
  BY <1>5, <1>6, <1>7, <1>8, <1>9 DEF b, GoodBatch

\* A batch stays good when statements are added.
LEMMA BatchesStayGood ==
  ASSUME added \in Seq(Forms), NEW form \in Forms, added' = Append(added, form),
         NEW b, NEW asked, GoodBatch(b, asked)
  PROVE  GoodBatch(b, asked)'
<1>1. /\ Len(added) \in Nat /\ Len(added') = Len(added) + 1
      /\ \A i \in 1 .. Len(added) : added'[i] = added[i]
  OBVIOUS
<1>2. \A n \in DOMAIN b : b[n] \in Stored' /\ added'[b[n].of] = added[b[n].of]
  BY <1>1 DEF GoodBatch, Stored
<1>3. QED
  BY <1>2 DEF GoodBatch

-----------------------------------------------------------------------------
(***************************************************************************)
(* addStatement.                                                           *)
(***************************************************************************)

\* What it leaves in the linker: what was there, and one or two entries of the new
\* statement under new keys.
LEMMA AddedEntries ==
  ASSUME Types, LinkerInv, NEW form \in Forms, addStatement(form)
  PROVE  LET kind == [array : {form.parameters},
                      number : numGeneratedParams + 1 .. numGeneratedParams']
             new == DOMAIN linker' \ DOMAIN linker
             entry(what) == [what |-> what, of |-> Len(added) + 1]
         IN  /\ IsFiniteSet(DOMAIN linker')
             /\ DOMAIN linker \subseteq DOMAIN linker'
             /\ new \subseteq kind
             /\ \A k \in DOMAIN linker : linker'[k] = linker[k]
             /\ \A k \in new : linker'[k] \in {entry("statement"), entry("record")}
             /\ \E k \in new : /\ linker'[k] = entry("statement")
                               /\ \A l \in new \ {k} : linker'[l] = entry("record")
<1> DEFINE n == numGeneratedParams
           entry(what) == [what |-> what, of |-> Len(added) + 1]
           first == Key(form, n + 1)
           last == Key(form, n')
           recorded == IF form.synced THEN Put(linker, first, entry("record")) ELSE linker
           kind == [array : {form.parameters}, number : n + 1 .. n']
<1>1. /\ linker' = Put(recorded, last, entry("statement"))
      /\ n' = n + NumEntries(form)
  BY DEF addStatement
<1>2. n \in Nat /\ n + 1 \in Nat /\ n' \in Nat /\ n + 1 <= n'
      /\ (form.synced => n + 1 < n')
  BY <1>1 DEF Types, NumEntries, Forms
<1>3. first \in kind /\ last \in kind
  BY <1>2 DEF Key
<1>4. kind \cap DOMAIN linker = {}
  <2> SUFFICES ASSUME NEW k \in DOMAIN linker, k \in kind PROVE FALSE
    OBVIOUS
  <2>1. k.number \in 1 .. n
    BY DEF LinkerInv
  <2>2. k.number \in n + 1 .. n'
    OBVIOUS
  <2>3. QED
    BY <1>2, <2>1, <2>2
<1> HIDE DEF first, last, kind, entry, n
<1>5. CASE form.synced
  <2>1. linker' = Put(Put(linker, first, entry("record")), last, entry("statement"))
    BY <1>1, <1>5
  <2>2. /\ DOMAIN linker' = DOMAIN linker \cup {first, last}
        /\ linker'[last] = entry("statement")
        /\ first # last => linker'[first] = entry("record")
        /\ \A k \in DOMAIN linker : k # first /\ k # last => linker'[k] = linker[k]
    <3> DEFINE map == Put(linker, first, entry("record"))
    <3>1. /\ DOMAIN map = DOMAIN linker \cup {first}
          /\ map[first] = entry("record")
          /\ \A k \in DOMAIN linker : k # first => map[k] = linker[k]
      BY DEF Put
    <3> HIDE DEF map
    <3>2. /\ DOMAIN linker' = DOMAIN map \cup {last}
          /\ linker'[last] = entry("statement")
          /\ \A k \in DOMAIN map : k # last => linker'[k] = map[k]
      BY <2>1 DEF map, Put
    <3>3. QED
      BY <3>1, <3>2
  <2>3. IsFiniteSet(DOMAIN linker')
    <3>1. IsFiniteSet(DOMAIN linker \cup {first})
      BY FS_AddElement DEF LinkerInv
    <3>2. IsFiniteSet((DOMAIN linker \cup {first}) \cup {last})
      BY <3>1, FS_AddElement
    <3>3. QED
      BY <2>2, <3>2
  <2>4. QED
    BY <1>3, <1>4, <2>2, <2>3 DEF kind, entry, n
<1>6. CASE ~form.synced
  <2>1. linker' = Put(linker, last, entry("statement"))
    BY <1>1, <1>6
  <2>2. /\ DOMAIN linker' = DOMAIN linker \cup {last}
        /\ linker'[last] = entry("statement")
        /\ \A k \in DOMAIN linker : k # last => linker'[k] = linker[k]
    BY <2>1 DEF Put
  <2>3. IsFiniteSet(DOMAIN linker')
    BY <2>2, FS_AddElement DEF LinkerInv
  <2>4. QED
    BY <1>3, <1>4, <2>2, <2>3 DEF kind, entry, n
<1>7. QED
  BY <1>5, <1>6

LEMMA AddTypes ==
  ASSUME Types, NEW form \in Forms, addStatement(form)
  PROVE  Types' /\ numGeneratedParams <= numGeneratedParams'
BY DEF Types, addStatement, NumEntries, Forms

\* The linker stays good: the new keys have greater numbers than the old ones.
LEMMA AddKeepsLinker ==
  ASSUME Types, LinkerInv, NEW form \in Forms, addStatement(form)
  PROVE  LinkerInv'
<1> DEFINE n == numGeneratedParams
           K == DOMAIN linker
           new == DOMAIN linker' \ K
           entry(what) == [what |-> what, of |-> Len(added) + 1]
<1>1. /\ n \in Nat /\ n' \in Nat /\ n <= n'
      /\ Len(added) \in Nat /\ Len(added') = Len(added) + 1
      /\ \A i \in 1 .. Len(added) : added'[i] = added[i]
      /\ added'[Len(added) + 1] = form
  BY AddTypes DEF Types, addStatement
<1>2. /\ IsFiniteSet(DOMAIN linker')
      /\ DOMAIN linker' = K \cup new /\ K \cap new = {}
      /\ \A k \in new : k \in [array : {form.parameters}, number : n + 1 .. n']
      /\ \A k \in K : linker'[k] = linker[k]
      /\ \A k \in new : linker'[k] \in {entry("statement"), entry("record")}
      /\ \E k \in new : /\ linker'[k] = entry("statement")
                        /\ \A l \in new \ {k} : linker'[l] = entry("record")
  BY AddedEntries
<1>3. \A k \in K : /\ k \in [array : BOOLEAN, number : 1 .. n]
                   /\ linker[k] \in Stored
                   /\ added[linker[k].of].parameters = k.array
  BY DEF LinkerInv
<1>4. \A k \in K : linker'[k].of \in 1 .. Len(added)
  BY <1>2, <1>3 DEF Stored
<1>5. \A k \in new : /\ linker'[k].of = Len(added) + 1
                     /\ linker'[k].what \in {"statement", "record"}
  BY <1>2
<1> HIDE DEF new, K, n
<1>6. DOMAIN linker' \subseteq [array : BOOLEAN, number : 1 .. n']
  BY <1>1, <1>2, <1>3 DEF Forms
<1>7. ASSUME NEW k \in DOMAIN linker'
      PROVE  linker'[k] \in Stored' /\ added'[linker'[k].of].parameters = k.array
  <2>1. CASE k \in K
    BY <1>1, <1>2, <1>3, <1>4, <2>1 DEF Stored
  <2>2. CASE k \in new
    <3>1. linker'[k] \in {entry("statement"), entry("record")}
      BY <1>2, <2>2
    <3>2. linker'[k] \in Stored'
      BY <1>1, <3>1 DEF Stored
    <3>3. QED
      BY <1>1, <1>2, <1>5, <2>2, <3>2
  <2>3. QED
    BY <1>2, <2>1, <2>2
<1>8. ASSUME NEW k \in DOMAIN linker', NEW l \in DOMAIN linker',
             linker'[k] = linker'[l], linker'[k].what = "statement"
      PROVE  k = l
  <2>1. CASE k \in K /\ l \in K
    BY <1>2, <1>8, <2>1 DEF LinkerInv, K
  <2>2. CASE k \in new /\ l \in new
    <3>1. PICK j \in new : \A i \in new \ {j} : linker'[i] = entry("record")
      BY <1>2
    <3>2. entry("record").what # "statement"
      OBVIOUS
    <3>3. QED
      BY <1>8, <2>2, <3>1, <3>2
  <2>3. CASE (k \in K /\ l \in new) \/ (k \in new /\ l \in K)
    BY <1>1, <1>4, <1>5, <1>8, <2>3
  <2>4. (k \in K \/ k \in new) /\ (l \in K \/ l \in new)
    BY <1>2
  <2> HIDE DEF entry
  <2>5. QED
    BY <2>1, <2>2, <2>3, <2>4
<1>9. ASSUME NEW k \in DOMAIN linker', NEW l \in DOMAIN linker',
             k.array = l.array, k.number < l.number
      PROVE  linker'[k].of <= linker'[l].of
  <2>1. CASE k \in K /\ l \in K
    BY <1>2, <1>9, <2>1 DEF LinkerInv, K
  <2>2. CASE l \in new
    BY <1>1, <1>2, <1>4, <1>5, <2>2
  <2>3. CASE k \in new /\ l \in K
    <3>1. l.number \in 1 .. n /\ k.number \in n + 1 .. n'
      BY <1>2, <1>3, <2>3
    <3>2. QED
      BY <1>1, <1>9, <3>1
  <2>4. QED
    BY <1>2, <2>1, <2>2, <2>3
<1>10. ASSUME NEW i \in 1 .. Len(added')
       PROVE  \E k \in DOMAIN linker' : linker'[k] = [what |-> "statement", of |-> i]
  <2>1. CASE i \in 1 .. Len(added)
    <3>1. PICK k \in K : linker[k] = [what |-> "statement", of |-> i]
      BY <2>1 DEF LinkerInv, K
    <3>2. QED
      BY <1>2, <3>1
  <2>2. CASE i = Len(added) + 1
    BY <1>2, <2>2
  <2>3. QED
    BY <1>1, <2>1, <2>2
<1>11. QED
  BY <1>2, <1>6, <1>7, <1>8, <1>9, <1>10 DEF LinkerInv, n

-----------------------------------------------------------------------------
(***************************************************************************)
(* The invariant.                                                          *)
(***************************************************************************)
LEMMA InitInv == Init => Types /\ IInv
<1> SUFFICES ASSUME Init PROVE Types /\ IInv
  OBVIOUS
<1>1. DOMAIN linker = {} /\ IsFiniteSet({})
  BY FS_EmptySet DEF Init
<1>2. Types
  BY DEF Init, Types, Idle
<1>3. LinkerInv
  BY <1>1 DEF Init, LinkerInv
<1>4. QED
  BY <1>2, <1>3 DEF Init, IInv, Idle

LEMMA AddInv ==
  ASSUME Types, IInv, NEW form \in Forms, addStatement(form)
  PROVE  Types' /\ IInv'
<1>1. Types' /\ LinkerInv'
  BY AddTypes, AddKeepsLinker DEF IInv
<1>2. /\ added \in Seq(Forms) /\ added' = Append(added, form)
      /\ UNCHANGED <<waiting, batch, runs>>
      /\ Len(added) \in Nat /\ Len(added') = Len(added) + 1
  BY DEF Types, addStatement
<1>3. batch # Idle => waiting # <<>> /\ GoodBatch(batch, Head(waiting))'
  BY <1>2, BatchesStayGood DEF IInv
<1>4. \A r \in 1 .. Len(runs) : GoodBatch(runs[r].batch, runs[r].asked)'
  BY <1>2, BatchesStayGood DEF IInv
<1>5. QED
  BY <1>1, <1>2, <1>3, <1>4 DEF IInv

LEMMA SameScript ==
  ASSUME UNCHANGED <<added, numGeneratedParams, linker>>
  PROVE  /\ LinkerInv' = LinkerInv
         /\ \A b, asked : GoodBatch(b, asked)' = GoodBatch(b, asked)
BY DEF LinkerInv, GoodBatch, Stored

LEMMA AskInv ==
  ASSUME Types, IInv, executeSetDataScript
  PROVE  Types' /\ IInv'
<1>1. /\ UNCHANGED <<added, numGeneratedParams, linker, batch, runs>>
      /\ waiting' = Append(waiting, Len(added))
      /\ waiting \in Seq(Nat) /\ Len(added) \in Nat
  BY DEF executeSetDataScript, Types
<1>2. /\ Types' /\ Len(waiting') = Len(waiting) + 1
      /\ \A i \in 1 .. Len(waiting) : waiting'[i] = waiting[i]
      /\ waiting'[Len(waiting) + 1] = Len(added)
      /\ waiting # <<>> => waiting' # <<>> /\ Head(waiting') = Head(waiting)
  BY <1>1 DEF Types
<1>3. \A i \in 1 .. Len(waiting') : waiting'[i] \in 0 .. Len(added')
  BY <1>1, <1>2 DEF IInv
<1>4. QED
  BY <1>1, <1>2, <1>3, SameScript DEF IInv

\* A transaction that has ended leaves the list of those asked for.
LEMMA FirstServed ==
  ASSUME waiting \in Seq(Nat), waiting # <<>>, waiting' = Tail(waiting),
         UNCHANGED added,
         \A i \in 1 .. Len(waiting) : waiting[i] \in 0 .. Len(added)
  PROVE  /\ waiting' \in Seq(Nat)
         /\ Head(waiting) \in 0 .. Len(added)
         /\ \A i \in 1 .. Len(waiting') : waiting'[i] \in 0 .. Len(added')
OBVIOUS

LEMMA StartInv ==
  ASSUME Types, IInv, StartTransaction
  PROVE  Types' /\ IInv'
<1>1. UNCHANGED <<added, numGeneratedParams, linker, runs>> /\ waiting # <<>>
  BY DEF StartTransaction
<1>2. CASE ForIn(linker) = Idle
  <2>1. waiting' = Tail(waiting) /\ batch' = Idle
    BY <1>2 DEF StartTransaction
  <2>2. /\ waiting' \in Seq(Nat)
        /\ \A i \in 1 .. Len(waiting') : waiting'[i] \in 0 .. Len(added')
    BY <1>1, <2>1, FirstServed DEF Types, IInv
  <2>3. QED
    BY <1>1, <2>1, <2>2, SameScript DEF Types, IInv, Idle
<1>3. CASE ForIn(linker) # Idle
  <2>1. UNCHANGED waiting /\ batch' = ForIn(linker)
    BY <1>3 DEF StartTransaction
  <2>2. Head(waiting) \in 0 .. Len(added)
    BY <1>1 DEF Types, IInv
  <2>3. batch' \in Seq(AnyEntry) /\ GoodBatch(batch', Head(waiting))
    BY <2>1, <2>2, LoopIsGood DEF IInv
  <2>4. QED
    BY <1>1, <2>1, <2>3, SameScript DEF Types, IInv
<1>4. QED
  BY <1>2, <1>3

LEMMA EndInv ==
  ASSUME Types, IInv, NEW committed \in BOOLEAN, EndTransaction(committed)
  PROVE  Types' /\ IInv'
<1> DEFINE run == [batch |-> batch, asked |-> Head(waiting)]
<1>1. /\ UNCHANGED <<added, numGeneratedParams, linker>>
      /\ batch # Idle /\ batch' = Idle /\ waiting' = Tail(waiting)
      /\ runs' = IF committed THEN Append(runs, run) ELSE runs
  BY DEF EndTransaction
<1>2. waiting # <<>> /\ GoodBatch(batch, Head(waiting))
  BY <1>1 DEF IInv
<1>3. /\ waiting' \in Seq(Nat) /\ Head(waiting) \in Nat
      /\ \A i \in 1 .. Len(waiting') : waiting'[i] \in 0 .. Len(added')
  BY <1>1, <1>2, FirstServed DEF Types, IInv
<1>4. run \in AnyRun
  BY <1>3 DEF Types, AnyRun
<1>5. runs' \in Seq(AnyRun)
  BY <1>1, <1>4 DEF Types
<1>6. \A r \in 1 .. Len(runs') : GoodBatch(runs'[r].batch, runs'[r].asked)
  <2>1. run.batch = batch /\ run.asked = Head(waiting)
    OBVIOUS
  <2> HIDE DEF run
  <2>0. runs \in Seq(AnyRun) /\ run \in AnyRun
    BY <1>4 DEF Types
  <2>2. \A r \in 1 .. Len(runs') : runs'[r] = run \/ (r \in 1 .. Len(runs) /\ runs'[r] = runs[r])
    <3>1. CASE committed
      BY <1>1, <2>0, <3>1
    <3>2. CASE ~committed
      BY <1>1, <2>0, <3>2
    <3>3. QED
      BY <3>1, <3>2
  <2>3. QED
    BY <1>2, <2>1, <2>2 DEF IInv
<1>7. QED
  BY <1>1, <1>3, <1>5, <1>6, SameScript DEF Types, IInv, Idle

LEMMA NextInv == Types /\ IInv /\ [Next]_vars => Types' /\ IInv'
<1> SUFFICES ASSUME Types, IInv, [Next]_vars PROVE Types' /\ IInv'
  OBVIOUS
<1>1. CASE UNCHANGED <<added, numGeneratedParams, linker, waiting, batch, runs>>
  BY <1>1, SameScript DEF Types, IInv
<1>2. QED
  BY <1>1, AddInv, AskInv, StartInv, EndInv DEF Next, vars, StatementSucceeds

\* However many statements are added, before a run is asked for, before it begins or
\* while it runs, the linker holds each of them once and in order, and so does what
\* every transaction executes (addStatement, executeBatch).
THEOREM InductiveInvariant == Spec => [](Types /\ IInv)
<1>1. QED
  BY InitInv, NextInv, PTL DEF Spec

\* A committed script has run every statement that was added before it was asked for,
\* and none twice.
THEOREM StatementsRunOnce == Spec => []EveryStatementOnce
<1>1. Types /\ IInv => EveryStatementOnce
  <2> SUFFICES ASSUME Types, IInv, NEW r \in 1 .. Len(runs), NEW k \in 1 .. Len(added)
               PROVE  LET places == Places(runs[r].batch, [what |-> "statement", of |-> k])
                      IN  /\ \A m, n \in places : m = n
                          /\ k <= runs[r].asked => places # {}
    BY DEF EveryStatementOnce
  <2>1. GoodBatch(runs[r].batch, runs[r].asked) /\ runs[r].asked \in Nat
    <3>1. runs[r] \in AnyRun
      BY DEF Types
    <3>2. QED
      BY <3>1 DEF IInv, AnyRun
  <2> DEFINE s == [what |-> "statement", of |-> k]
  <2>2. s.what = "statement"
    OBVIOUS
  <2>3. \A m, n \in Places(runs[r].batch, s) : m = n
    BY <2>1, <2>2 DEF GoodBatch, Places
  <2>4. k <= runs[r].asked => Places(runs[r].batch, s) # {}
    BY <2>1 DEF GoodBatch, Places
  <2>5. QED
    BY <2>3, <2>4
<1>2. QED
  BY <1>1, InductiveInvariant, PTL

\* Statements with parameters keep their order, and so do statements without.
THEOREM KindsKeepOrder == Spec => []OrderWithinKinds
<1>1. Types /\ IInv => OrderWithinKinds
  BY DEF IInv, GoodBatch, OrderWithinKinds
<1>2. QED
  BY <1>1, InductiveInvariant, PTL
=============================================================================
