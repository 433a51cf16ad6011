------------------------- MODULE NativeDatabaseProofs -------------------------
(***************************************************************************)
(* Proofs about NativeDatabase, for any stacks, jobs and databases: every  *)
(* transaction has somebody to end it, and a script that runs while no     *)
(* other stack does is atomic.                                             *)
(***************************************************************************)
EXTENDS NativeDatabase, SequenceTheorems, TLAPS

\* A stack that has looked has a connection; one that has not has done nothing.
ConnectionInv(s) ==
  /\ pc[s] \notin {"new", "opening"} => connection[s] \in Stacks
  /\ pc[s] \in {"new", "opening"} => at[s] = 0
  /\ s \in executed /\ ~IsScript(s) /\ Statement(s) = Begin => pc[s] = "done"
  /\ ~IsScript(s) => at[s] = 0
  /\ IsScript(s) => pc[s] # "reading"

\* A stack holds the semaphore in every call that changes data, and no transaction of
\* its own is open when it has failed to end one.
CallInv(s) ==
  /\ pc[s] \in Calling /\ Statement(s) # Select => semaphore = s
  /\ pc[s] = "failed" /\ AtEnd(s) => owner # connection[s]

\* The stack that is to end a transaction, or that has left it open.
Ends(s) ==
  /\ connection[s] = owner
  /\ IF IsScript(s) THEN at[s] > 0 /\ (pc[s] \in Running \/ s \in givenUp)
                    ELSE Statement(s) = Begin /\ s \in executed

\* No other stack runs while one of Alone does.
AloneInv ==
  \A s \in Alone, t \in Stacks : pc[s] \in Running /\ pc[t] \in Running => s = t

IInv ==
  /\ TypeOK
  /\ at \in [Stacks -> Nat]
  /\ \A s \in Stacks : ConnectionInv(s) /\ CallInv(s)
  /\ AloneInv
  /\ EveryTransactionEnds

\* The message that is or will be the description of a result.
MessageInv(s) ==
  /\ pc[s] = "prepared" => errmsg[connection[s]] = "not an error"
  /\ pc[s] = "described" => message[s] = "not an error"
  /\ pc[s] = "failed" => errmsg[connection[s]] # "not an error"

\* Within its transaction a script that runs alone has made the changes it has come
\* past; when another connection has a transaction, it makes none.
TransactionInv(s) ==
  /\ owner # None
  /\ owner # connection[s] => ChangesOf(s) \cap pending = {}
  /\ owner = connection[s] /\ (AtEnd(s) => desc[s] = "not an error") =>
       \A n \in 1 .. NumStatements(s) : n < at[s] => JobOf[s].statements[n] \in pending

\* A script that runs alone.
ScriptInv(s) ==
  /\ pc[s] \in {"new", "opening"} => ChangesOf(s) \cap (file \cup pending) = {}
  /\ pc[s] \in Running => ChangesOf(s) \cap file = {}
  /\ pc[s] \in Running => MessageInv(s)
  /\ pc[s] \in Running /\ at[s] = 0 => ChangesOf(s) \cap pending = {}
  /\ pc[s] = "failed" /\ at[s] = 0 => owner # None
  /\ pc[s] \in Running /\ at[s] > 0 => TransactionInv(s)
  /\ pc[s] = "done" => IF desc[s] = "not an error"
                         THEN ChangesOf(s) \subseteq file
                         ELSE ChangesOf(s) \cap (file \cup pending) = {}

ScriptsInv == \A s \in Alone : IsScript(s) => ScriptInv(s)

-----------------------------------------------------------------------------
(***************************************************************************)
(* Jobs and statements.                                                    *)
(***************************************************************************)
LEMMA JobType ==
  ASSUME NEW s \in Stacks
  PROVE  /\ JobOf[s].db \in Databases
         /\ IsScript(s) \in BOOLEAN
         /\ NumStatements(s) \in Nat
         /\ \A n \in 1 .. NumStatements(s) : JobOf[s].statements[n] \in Statements
         /\ IsScript(s) => \A n \in 1 .. NumStatements(s) :
                             /\ JobOf[s].statements[n] \in Changes
                             /\ JobOf[s].statements[n] \in ChangesOf(s)
         /\ ~IsScript(s) => NumStatements(s) = 1
<1>1. JobOf[s] \in Jobs
  BY ConstantsAssumption
<1>2. JobOf[s].statements \in Seq(Statements)
  BY <1>1 DEF Jobs
<1>3. CASE IsScript(s)
  <2>1. JobOf[s].statements \in Seq(Changes)
    BY <1>3, ConstantsAssumption DEF IsScript
  <2>2. QED
    BY <1>1, <1>2, <1>3, <2>1, LenProperties, ElementOfSeq
       DEF Jobs, NumStatements, IsScript, ChangesOf
<1>4. CASE ~IsScript(s)
  BY <1>1, <1>2, <1>4, ConstantsAssumption, LenProperties, ElementOfSeq
     DEF Jobs, NumStatements, IsScript
<1>5. QED
  BY <1>3, <1>4

LEMMA StatementType ==
  ASSUME TypeOK, NEW s \in Stacks
  PROVE  /\ Statement(s) \in Statements
         /\ Statement(s) \in Changes => Statement(s) \in ChangesOf(s)
         /\ IsScript(s) /\ at[s] = 0 => Statement(s) = Begin /\ ~AtEnd(s)
         /\ AtEnd(s) => /\ Statement(s) = EndOfScript(s)
                        /\ Statement(s) \in {Commit, Rollback}
                        /\ at[s] > 0 /\ IsScript(s)
         /\ IsScript(s) /\ at[s] > 0 /\ ~AtEnd(s) =>
              /\ at[s] \in 1 .. NumStatements(s)
              /\ Statement(s) = JobOf[s].statements[at[s]]
              /\ Statement(s) \in ChangesOf(s)
              /\ Statement(s) \in Changes
         /\ IsScript(s) => Statement(s) # Select
<1>1. at[s] \in 0 .. NumStatements(s) + 1
  BY DEF TypeOK
<1>2. Changes \cap {Begin, Commit, Rollback, Select} = {}
  BY ConstantsAssumption
<1>3. NumStatements(s) \in Nat
  BY JobType
<1>4. CASE ~IsScript(s)
  <2>1. Statement(s) = JobOf[s].statements[1] /\ NumStatements(s) = 1
    BY <1>4, JobType DEF Statement
  <2>2. QED
    BY <1>4, <2>1, JobType DEF ChangesOf, NumStatements, AtEnd
<1>5. CASE IsScript(s) /\ at[s] = 0
  <2>1. Statement(s) = Begin
    BY <1>5 DEF Statement
  <2>2. at[s] # NumStatements(s) + 1
    BY <1>5, <1>3
  <2>3. ~AtEnd(s)
    BY <2>2 DEF AtEnd
  <2>4. Begin \in Statements \ Changes /\ Begin # Select
    BY <1>2 DEF Statements, Begin, Select
  <2>5. QED
    BY <1>5, <2>1, <2>3, <2>4
<1>6. CASE AtEnd(s)
  <2>1. IsScript(s) /\ at[s] = NumStatements(s) + 1
    BY <1>6 DEF AtEnd
  <2>2. at[s] > 0 /\ at[s] # 0
    BY <2>1, <1>3
  <2>3. Statement(s) = EndOfScript(s)
    BY <1>6, <2>1, <2>2 DEF Statement
  <2>4. EndOfScript(s) \in {Commit, Rollback}
    BY DEF EndOfScript
  <2>5. {Commit, Rollback} \subseteq Statements \ Changes /\ Select \notin {Commit, Rollback}
    BY <1>2 DEF Statements, Commit, Rollback, Select
  <2>6. QED
    BY <1>6, <2>1, <2>2, <2>3, <2>4, <2>5
<1>7. CASE IsScript(s) /\ at[s] > 0 /\ ~AtEnd(s)
  <2>1. at[s] \in 1 .. NumStatements(s)
    BY <1>7, <1>1, <1>3 DEF AtEnd
  <2>2. Statement(s) = JobOf[s].statements[at[s]]
    BY <1>7, <1>1 DEF Statement
  <2>3. QED
    BY <1>7, <2>1, <2>2, <1>2, JobType DEF Statements, Select
<1>8. QED
  BY <1>1, <1>4, <1>5, <1>6, <1>7

\* Where a script is after a result.
LEMMA NextAtType ==
  ASSUME TypeOK, NEW s \in Stacks, NEW d, IsScript(s), ~AtEnd(s)
  PROVE  /\ NextAt(s, d) \in 1 .. NumStatements(s) + 1
         /\ NextAt(s, d) = at[s] + 1 \/ (at[s] > 0 /\ d # "not an error"
                                          /\ NextAt(s, d) = NumStatements(s) + 1)
         /\ at[s] = 0 => NextAt(s, d) = 1
<1>1. at[s] \in 0 .. NumStatements(s) + 1
  BY DEF TypeOK
<1>2. ~(IsScript(s) /\ at[s] = NumStatements(s) + 1) /\ IsScript(s)
  BY DEF AtEnd
<1>3. NumStatements(s) \in Nat
  BY JobType
<1>4. at[s] # NumStatements(s) + 1
  BY <1>2
<1>5. CASE at[s] > 0 /\ d # "not an error"
  <2>1. NextAt(s, d) = NumStatements(s) + 1
    BY <1>5 DEF NextAt
  <2>2. at[s] > 0
    BY <1>5
  <2>3. NextAt(s, d) \in 1 .. NumStatements(s) + 1 /\ at[s] # 0
    BY <1>3, <2>1, <2>2
  <2>4. QED
    BY <1>5, <2>1, <2>3
<1>6. CASE ~(at[s] > 0 /\ d # "not an error")
  <2>1. NextAt(s, d) = at[s] + 1
    BY <1>6 DEF NextAt
  <2>2. NextAt(s, d) \in 1 .. NumStatements(s) + 1
    BY <1>1, <1>3, <1>4, <2>1
  <2>3. at[s] = 0 => NextAt(s, d) = 1
    BY <2>1
  <2>4. QED
    BY <1>6, <2>1, <2>2, <2>3
<1>7. QED
  BY <1>5, <1>6

-----------------------------------------------------------------------------
(***************************************************************************)
(* What a step of stack s does.                                            *)
(***************************************************************************)
Descriptions == {"nil", "not an error", "an error", "another"}

\* It leaves the other stacks alone, and the semaphore if one of them holds it.
LeavesOthers(s) ==
  \A t \in Stacks \ {s} :
    /\ pc'[t] = pc[t] /\ at'[t] = at[t] /\ connection'[t] = connection[t]
    /\ desc'[t] = desc[t]
    /\ (t \in executed') <=> (t \in executed)
    /\ t \in givenUp => t \in givenUp'
    /\ semaphore = t => semaphore' = t

\* It does not leave behind a transaction that it should end, and begins one only
\* under the semaphore.
KeepsOwner(s) ==
  \/ owner' = None
  \/ owner' = owner /\ (Ends(s) => Ends(s)')
  \/ semaphore = s /\ Ends(s)'

GoodStep(s) ==
  /\ TypeOK'
  /\ at' \in [Stacks -> Nat]
  /\ ConnectionInv(s)'
  /\ CallInv(s)'
  /\ LeavesOthers(s)
  /\ KeepsOwner(s)
  /\ pc'[s] \in Running => pc[s] \in Running \/ MayStart(s)

\* Where a stack is when dbAccess has returned.
LEMMA AfterReturn ==
  ASSUME IInv, NEW s \in Stacks, NEW d \in Descriptions, Return(s, d)
  PROVE  /\ desc' \in [Stacks -> Descriptions]
         /\ at' \in [Stacks -> Nat]
         /\ \A t \in Stacks : at'[t] \in 0 .. NumStatements(t) + 1
         /\ pc' \in [Stacks -> {"new", "done"} \cup Running]
         /\ semaphore' \in Stacks \cup {None}
         /\ pc'[s] \in {"ready", "done"}
         /\ ~IsScript(s) => pc'[s] = "done" /\ at'[s] = at[s]
         /\ IsScript(s) /\ ~AtEnd(s) => pc'[s] = "ready" /\ at'[s] = NextAt(s, d) /\ at'[s] > 0
         /\ AtEnd(s) => pc'[s] = "done" /\ at'[s] = at[s]
         /\ desc'[s] = IF AtEnd(s) /\ Statement(s) = Rollback THEN desc[s] ELSE d
         /\ \A t \in Stacks \ {s} : /\ pc'[t] = pc[t] /\ at'[t] = at[t] /\ desc'[t] = desc[t]
                                   /\ semaphore = t => semaphore' = t
<1>1. TypeOK /\ at \in [Stacks -> Nat]
  BY DEF IInv
<1>2. desc \in [Stacks -> Descriptions] /\ pc \in [Stacks -> {"new", "done"} \cup Running]
  BY <1>1 DEF TypeOK, Descriptions
<1>3. /\ desc' \in [Stacks -> Descriptions]
      /\ desc'[s] = IF AtEnd(s) /\ Statement(s) = Rollback THEN desc[s] ELSE d
      /\ \A t \in Stacks \ {s} : desc'[t] = desc[t]
  BY <1>2 DEF Return
<1>4. /\ semaphore' \in Stacks \cup {None}
      /\ \A t \in Stacks \ {s} : semaphore = t => semaphore' = t
  BY <1>1 DEF Return, Release, TypeOK
<1>5. CASE IsScript(s) /\ ~AtEnd(s)
  <2>1. pc' = [pc EXCEPT ![s] = "ready"] /\ at' = [at EXCEPT ![s] = NextAt(s, d)]
    BY <1>5 DEF Return
  <2>2. NextAt(s, d) \in 1 .. NumStatements(s) + 1 /\ NumStatements(s) \in Nat
    BY <1>1, <1>5, NextAtType, JobType
  <2>3. NextAt(s, d) \in Nat /\ NextAt(s, d) > 0 /\ NextAt(s, d) \in 0 .. NumStatements(s) + 1
    BY <2>2
  <2>4. pc'[s] = "ready" /\ at'[s] = NextAt(s, d)
    BY <1>1, <1>2, <2>1
  <2>5. \A t \in Stacks \ {s} : pc'[t] = pc[t] /\ at'[t] = at[t]
    BY <1>1, <1>2, <2>1
  <2>6. pc' \in [Stacks -> {"new", "done"} \cup Running] /\ at' \in [Stacks -> Nat]
    BY <1>1, <1>2, <2>1, <2>3 DEF Running
  <2>7. \A t \in Stacks : at'[t] \in 0 .. NumStatements(t) + 1
    BY <1>1, <2>3, <2>4, <2>5 DEF TypeOK
  <2>8. QED
    BY <1>3, <1>4, <1>5, <2>3, <2>4, <2>5, <2>6, <2>7
<1>6. CASE ~(IsScript(s) /\ ~AtEnd(s))
  <2>1. pc' = [pc EXCEPT ![s] = "done"] /\ at' = [at EXCEPT ![s] = at[s]]
    BY <1>6 DEF Return
  <2>2. at' = at
    BY <1>1, <2>1
  <2>3. /\ pc'[s] = "done" /\ pc' \in [Stacks -> {"new", "done"} \cup Running]
        /\ \A t \in Stacks \ {s} : pc'[t] = pc[t]
    BY <1>2, <2>1
  <2>4. QED
    BY <1>1, <1>3, <1>4, <1>6, <2>2, <2>3 DEF TypeOK
<1>7. QED
  BY <1>5, <1>6

\* The statement a stack is at does not change while it is at the same place.
LEMMA SameStatement ==
  ASSUME NEW s \in Stacks, at'[s] = at[s], desc'[s] = desc[s]
  PROVE  Statement(s)' = Statement(s) /\ (AtEnd(s)' <=> AtEnd(s))
<1>1. AtEnd(s)' <=> AtEnd(s)
  BY DEF AtEnd, IsScript, NumStatements
<1>2. EndOfScript(s)' = EndOfScript(s)
  BY DEF EndOfScript
<1>3. QED
  BY <1>1, <1>2 DEF Statement, IsScript

LEMMA TypesOf ==
  ASSUME IInv, NEW s \in Stacks
  PROVE  /\ TypeOK /\ at \in [Stacks -> Nat] /\ ConnectionInv(s) /\ CallInv(s)
         /\ connection \in [Stacks -> Stacks \cup {None}]
         /\ pc \in [Stacks -> {"new", "done"} \cup Running]
         /\ desc \in [Stacks -> Descriptions] /\ message \in [Stacks -> Descriptions]
         /\ errmsg \in [Stacks -> Descriptions]
         /\ None \notin Stacks
  BY ConstantsAssumption DEF IInv, TypeOK, Descriptions

\* A stack that runs has begun no transaction if it is not a script.
LEMMA NotYet ==
  ASSUME IInv, NEW s \in Stacks, pc[s] # "done", Ends(s)
  PROVE  IsScript(s) /\ at[s] > 0
  BY TypesOf DEF Ends, ConnectionInv

LEMMA LookStep ==
  ASSUME IInv, NEW s \in Stacks, Look(s)
  PROVE  GoodStep(s)
<1>1. /\ pc[s] = "new" /\ connection' = [connection EXCEPT ![s] = databases[JobOf[s].db]]
      /\ pc' = [pc EXCEPT ![s] = IF connection'[s] = None THEN "opening" ELSE "ready"]
      /\ UNCHANGED <<databases, at, desc, message, semaphore, errmsg, owner, pending, file, executed, givenUp>>
      /\ MayStart(s)
  BY DEF Look, sqlite
<1>2. databases[JobOf[s].db] \in Stacks \cup {None}
  BY JobType, TypesOf DEF TypeOK
<1>3. at[s] = 0 /\ (s \in executed /\ ~IsScript(s) => Statement(s) # Begin)
  BY <1>1, TypesOf DEF ConnectionInv
<1>4. Statement(s)' = Statement(s) /\ (AtEnd(s)' <=> AtEnd(s))
  BY <1>1, SameStatement
<1>5. connection'[s] \in Stacks \cup {None} /\ pc'[s] = IF connection'[s] = None THEN "opening" ELSE "ready"
  BY <1>1, <1>2, TypesOf
<1>6. TypeOK'
  <2>1. connection' \in [Stacks -> Stacks \cup {None}]
    BY <1>1, <1>2, TypesOf
  <2>2. pc' \in [Stacks -> {"new", "done"} \cup Running]
    BY <1>1, TypesOf DEF Running
  <2>3. QED
    BY <1>1, <2>1, <2>2, TypesOf DEF TypeOK
<1>7. ConnectionInv(s)'
  BY <1>1, <1>3, <1>4, <1>5, TypesOf DEF ConnectionInv, IsScript
<1>8. CallInv(s)'
  BY <1>5 DEF CallInv, Calling
<1>9. LeavesOthers(s)
  BY <1>1, TypesOf DEF LeavesOthers
<1>10. KeepsOwner(s)
  <2>1. ~Ends(s)
    BY <1>1, <1>3, NotYet
  <2>2. QED
    BY <1>1, <2>1 DEF KeepsOwner
<1>11. QED
  BY <1>1, <1>6, <1>7, <1>8, <1>9, <1>10, TypesOf DEF GoodStep

LEMMA OpenStep ==
  ASSUME IInv, NEW s \in Stacks, Open(s)
  PROVE  GoodStep(s)
<1>1. /\ pc[s] = "opening" /\ connection' = [connection EXCEPT ![s] = s]
      /\ databases' = [databases EXCEPT ![JobOf[s].db] = s]
      /\ pc' = [pc EXCEPT ![s] = "ready"]
      /\ UNCHANGED <<at, desc, message, semaphore, errmsg, owner, pending, file, executed, givenUp>>
  BY DEF Open, sqlite
<1>2. at[s] = 0 /\ (s \in executed /\ ~IsScript(s) => Statement(s) # Begin)
  BY <1>1, TypesOf DEF ConnectionInv
<1>3. Statement(s)' = Statement(s) /\ (AtEnd(s)' <=> AtEnd(s))
  BY <1>1, SameStatement
<1>4. connection'[s] = s /\ pc'[s] = "ready"
  BY <1>1, TypesOf
<1>5. TypeOK'
  <2>1. databases' \in [Databases -> Stacks \cup {None}]
    BY <1>1, TypesOf DEF TypeOK
  <2>2. pc' \in [Stacks -> {"new", "done"} \cup Running]
    BY <1>1, TypesOf DEF Running
  <2>3. connection' \in [Stacks -> Stacks \cup {None}]
    BY <1>1, TypesOf
  <2>4. QED
    BY <1>1, <2>1, <2>2, <2>3, TypesOf DEF TypeOK
<1>6. ConnectionInv(s)'
  BY <1>1, <1>2, <1>3, <1>4, TypesOf DEF ConnectionInv, IsScript
<1>7. CallInv(s)'
  BY <1>4 DEF CallInv, Calling
<1>8. LeavesOthers(s)
  BY <1>1, TypesOf DEF LeavesOthers
<1>9. KeepsOwner(s)
  <2>1. ~Ends(s)
    BY <1>1, <1>2, NotYet
  <2>2. QED
    BY <1>1, <2>1 DEF KeepsOwner
<1>10. QED
  BY <1>1, <1>5, <1>6, <1>7, <1>8, <1>9, TypesOf DEF GoodStep, Running

LEMMA PrepareStep ==
  ASSUME IInv, NEW s \in Stacks, Prepare(s)
  PROVE  GoodStep(s)
<1>1. /\ pc[s] = "ready"
      /\ Statement(s) = Select \/ semaphore = None
      /\ semaphore' = IF Statement(s) = Select THEN semaphore ELSE s
      /\ executed' = executed \ {s}
      /\ UNCHANGED <<databases, connection, at, desc, message, owner, pending, file, givenUp>>
  BY DEF Prepare, sqlite
<1>2. \/ pc' = [pc EXCEPT ![s] = "prepared"]
      \/ /\ pc' = [pc EXCEPT ![s] = "failed"]
         /\ Statement(s) \in Wrong \/ Statement(s) \in Changes \cup {Select}
  BY DEF Prepare
<1>3. \/ errmsg' = [errmsg EXCEPT ![connection[s]] = "not an error"]
      \/ errmsg' = [errmsg EXCEPT ![connection[s]] = "an error"]
  BY DEF Prepare
<1>4. Statement(s)' = Statement(s) /\ (AtEnd(s)' <=> AtEnd(s))
  BY <1>1, SameStatement
<1>5. /\ pc'[s] \in {"prepared", "failed"}
      /\ pc'[s] = "failed" => Statement(s) \in Changes \cup {Select}
  BY <1>2, TypesOf, ConstantsAssumption
<1>6. connection[s] \in Stacks
  BY <1>1, TypesOf DEF ConnectionInv
<1>7. TypeOK'
  <2>1. pc' \in [Stacks -> {"new", "done"} \cup Running]
    BY <1>2, TypesOf DEF Running, Calling
  <2>2. errmsg' \in [Stacks -> {"not an error", "an error", "another"}]
    BY <1>3, TypesOf DEF TypeOK
  <2>3. executed' \subseteq Stacks /\ semaphore' \in Stacks \cup {None}
    BY <1>1, TypesOf DEF TypeOK
  <2>4. QED
    BY <1>1, <2>1, <2>2, <2>3, TypesOf DEF TypeOK
<1>8. ConnectionInv(s)'
  BY <1>1, <1>5, <1>6, TypesOf DEF ConnectionInv, IsScript
<1>9. CallInv(s)'
  <2>1. pc'[s] = "failed" => ~AtEnd(s)
    <3>1. Changes \cap {Commit, Rollback} = {} /\ Select \notin {Commit, Rollback}
      BY ConstantsAssumption DEF Commit, Rollback, Select
    <3>2. AtEnd(s) => Statement(s) \in {Commit, Rollback}
      BY StatementType, TypesOf
    <3>3. QED
      BY <1>5, <3>1, <3>2
  <2>2. QED
    BY <1>1, <1>4, <2>1 DEF CallInv
<1>10. LeavesOthers(s)
  <2>1. \A t \in Stacks \ {s} : pc'[t] = pc[t]
    BY <1>2, TypesOf
  <2>2. \A t \in Stacks \ {s} : semaphore = t => semaphore' = t
    BY <1>1, TypesOf
  <2>3. QED
    BY <1>1, <2>1, <2>2 DEF LeavesOthers
<1>11. KeepsOwner(s)
  <2>1. Ends(s) => IsScript(s) /\ at[s] > 0
    BY <1>1, NotYet
  <2>2. Ends(s) => Ends(s)'
    BY <1>1, <1>5, <2>1 DEF Ends, IsScript, Running, Calling
  <2>3. QED
    BY <1>1, <2>2 DEF KeepsOwner
<1>12. QED
  BY <1>1, <1>7, <1>8, <1>9, <1>10, <1>11, TypesOf DEF GoodStep, Running

LEMMA DescribeStep ==
  ASSUME IInv, NEW s \in Stacks, Describe(s)
  PROVE  GoodStep(s)
<1>1. /\ pc[s] = "prepared"
      /\ message' = [message EXCEPT ![s] = errmsg[connection[s]]]
      /\ pc' = [pc EXCEPT ![s] = "described"]
      /\ UNCHANGED <<databases, connection, at, desc, semaphore, errmsg, owner, pending, file,
                     executed, givenUp>>
  BY DEF Describe, sqlite
<1>2. Statement(s)' = Statement(s) /\ (AtEnd(s)' <=> AtEnd(s))
  BY <1>1, SameStatement
<1>3. pc'[s] = "described"
  BY <1>1, TypesOf
<1>4. connection[s] \in Stacks
  BY <1>1, TypesOf DEF ConnectionInv
<1>5. TypeOK'
  <2>1. pc' \in [Stacks -> {"new", "done"} \cup Running]
    BY <1>1, TypesOf DEF Running, Calling
  <2>2. message' \in [Stacks -> {"nil", "not an error", "an error", "another"}]
    BY <1>1, <1>4, TypesOf DEF Descriptions
  <2>3. QED
    BY <1>1, <2>1, <2>2, TypesOf DEF TypeOK
<1>6. ConnectionInv(s)'
  BY <1>1, <1>2, <1>3, <1>4, TypesOf DEF ConnectionInv, IsScript
<1>7. CallInv(s)'
  BY <1>1, <1>2, <1>3, TypesOf DEF CallInv, Calling
<1>8. LeavesOthers(s)
  BY <1>1, TypesOf DEF LeavesOthers
<1>9. KeepsOwner(s)
  <2>1. Ends(s) => IsScript(s) /\ at[s] > 0
    BY <1>1, NotYet
  <2>2. Ends(s) => Ends(s)'
    BY <1>1, <1>3, <2>1 DEF Ends, IsScript, Running, Calling
  <2>3. QED
    BY <1>1, <2>2 DEF KeepsOwner
<1>10. QED
  BY <1>1, <1>5, <1>6, <1>7, <1>8, <1>9, TypesOf DEF GoodStep, Running, Calling

\* What is common to the steps at which dbAccess returns.
LEMMA ReturnStep ==
  ASSUME IInv, NEW s \in Stacks, NEW d \in Descriptions, pc[s] \in Calling, Return(s, d),
         UNCHANGED <<databases, connection, message>>,
         errmsg' \in [Stacks -> {"not an error", "an error", "another"}],
         owner' \in Stacks \cup {None}, pending' \subseteq Changes, file' \subseteq Changes,
         executed \subseteq executed', executed' \subseteq executed \cup {s},
         givenUp \subseteq givenUp', givenUp' \subseteq givenUp \cup {s},
         \/ owner' = None
         \/ owner' = owner /\ (AtEnd(s) => owner # connection[s] \/ s \in givenUp')
         \/ /\ Statement(s) = Begin /\ owner' = connection[s]
            /\ s \in executed' /\ semaphore = s
  PROVE  GoodStep(s)
<1>1. TypeOK'
  <2>1. /\ desc' \in [Stacks -> {"nil", "not an error", "an error", "another"}]
        /\ message' \in [Stacks -> {"nil", "not an error", "an error", "another"}]
        /\ pc' \in [Stacks -> {"new", "done"} \cup Running]
        /\ semaphore' \in Stacks \cup {None}
    BY AfterReturn, TypesOf DEF Descriptions
  <2>2. \A t \in Stacks : (at[t] \in 0 .. NumStatements(t) + 1)'
    BY AfterReturn DEF NumStatements
  <2>3. /\ databases' \in [Databases -> Stacks \cup {None}]
        /\ connection' \in [Stacks -> Stacks \cup {None}]
        /\ executed' \subseteq Stacks /\ givenUp' \subseteq Stacks
    BY TypesOf DEF TypeOK
  <2>4. QED
    BY <2>1, <2>2, <2>3 DEF TypeOK
<1>2. at' \in [Stacks -> Nat]
  BY AfterReturn
<1>3. ConnectionInv(s)'
  <2>1. connection[s] \in Stacks /\ (~IsScript(s) => at[s] = 0)
    BY TypesOf DEF ConnectionInv, Calling
  <2>2. QED
    BY <2>1, AfterReturn DEF ConnectionInv, IsScript
<1>4. pc'[s] \in {"ready", "done"}
  BY AfterReturn
<1>5. CallInv(s)'
  BY <1>4 DEF CallInv, Calling
<1>6. LeavesOthers(s)
  <2>1. SUFFICES ASSUME NEW t \in Stacks \ {s}
                 PROVE  /\ pc'[t] = pc[t] /\ at'[t] = at[t] /\ connection'[t] = connection[t]
                        /\ desc'[t] = desc[t]
                        /\ (t \in executed') <=> (t \in executed)
                        /\ t \in givenUp => t \in givenUp'
                        /\ semaphore = t => semaphore' = t
    BY DEF LeavesOthers
  <2>2. /\ (t \in executed') <=> (t \in executed)
        /\ t \in givenUp => t \in givenUp'
        /\ connection'[t] = connection[t]
    OBVIOUS
  <2>3. /\ pc'[t] = pc[t] /\ at'[t] = at[t] /\ desc'[t] = desc[t]
        /\ semaphore = t => semaphore' = t
    BY TypesOf DEF Return, Release
  <2>4. QED
    BY <2>2, <2>3
<1>7. KeepsOwner(s)
  <2>1. CASE owner' = None
    BY <2>1 DEF KeepsOwner
  <2>2. CASE owner' = owner /\ (AtEnd(s) => owner # connection[s] \/ s \in givenUp')
    <3>1. ASSUME Ends(s) PROVE Ends(s)'
      <4>1. IsScript(s) /\ at[s] > 0 /\ connection[s] = owner
        BY <3>1, NotYet DEF Ends, Calling
      <4>2. CASE AtEnd(s)
        <5>1. at'[s] = at[s] /\ s \in givenUp'
          BY <2>2, <4>1, <4>2, AfterReturn
        <5>2. QED
          BY <2>2, <4>1, <5>1 DEF Ends, IsScript
      <4>3. CASE ~AtEnd(s)
        <5>1. pc'[s] = "ready" /\ at'[s] > 0
          BY <4>1, <4>3, AfterReturn
        <5>2. QED
          BY <2>2, <4>1, <5>1 DEF Ends, IsScript, Running
      <4>4. QED
        BY <4>2, <4>3
    <3>2. QED
      BY <2>2, <3>1 DEF KeepsOwner
  <2>3. CASE /\ Statement(s) = Begin /\ owner' = connection[s]
             /\ s \in executed' /\ semaphore = s
    <3>1. CASE IsScript(s)
      <4>1. ~AtEnd(s)
        BY <2>3, StatementType, TypesOf DEF Begin, Commit, Rollback
      <4>2. pc'[s] = "ready" /\ at'[s] > 0
        BY <3>1, <4>1, AfterReturn
      <4>3. QED
        BY <2>3, <3>1, <4>2 DEF KeepsOwner, Ends, IsScript, Running
    <3>2. CASE ~IsScript(s)
      <4>1. Statement(s)' = Statement(s)
        BY <3>2 DEF Statement, IsScript
      <4>2. QED
        BY <2>3, <3>2, <4>1 DEF KeepsOwner, Ends, IsScript
    <3>3. QED
      BY <3>1, <3>2
  <2>4. QED
    BY <2>1, <2>2, <2>3
<1>8. QED
  BY <1>1, <1>2, <1>3, <1>5, <1>6, <1>7 DEF GoodStep, Running, Calling

LEMMA GiveUpStep ==
  ASSUME IInv, NEW s \in Stacks, GiveUp(s)
  PROVE  GoodStep(s)
<1>1. /\ pc[s] = "described" /\ Busy(Statement(s), connection[s])
      /\ errmsg' = [errmsg EXCEPT ![connection[s]] = "another"]
      /\ Return(s, message[s])
      /\ givenUp' = IF Statement(s) = Rollback THEN givenUp \cup {s} ELSE givenUp
      /\ UNCHANGED <<databases, connection, message, owner, pending, file, executed>>
  BY DEF GiveUp, sqlite
<1>2. pc[s] \in Calling /\ message[s] \in Descriptions
  BY <1>1, TypesOf DEF Calling
<1>3. AtEnd(s) => s \in givenUp'
  <2>1. Statement(s) # Commit
    BY <1>1 DEF Busy, Select, Begin, Commit, Rollback
  <2>2. AtEnd(s) => Statement(s) = Rollback
    BY <2>1, StatementType, TypesOf
  <2>3. QED
    BY <1>1, <2>2
<1>4. errmsg' \in [Stacks -> {"not an error", "an error", "another"}]
  BY <1>1, TypesOf DEF TypeOK
<1>5. QED
  BY <1>1, <1>2, <1>3, <1>4, ReturnStep, TypesOf DEF TypeOK

LEMMA EndOfRowsStep ==
  ASSUME IInv, NEW s \in Stacks, EndOfRows(s)
  PROVE  GoodStep(s)
<1>1. /\ pc[s] = "reading"
      /\ errmsg' = [errmsg EXCEPT ![connection[s]] = "another"]
      /\ Return(s, message[s])
      /\ UNCHANGED <<databases, connection, message, owner, pending, file, executed, givenUp>>
  BY DEF EndOfRows, sqlite
<1>2. pc[s] \in Calling /\ message[s] \in Descriptions
  BY <1>1, TypesOf DEF Calling
<1>3. ~AtEnd(s)
  BY <1>1, TypesOf DEF ConnectionInv, AtEnd
<1>4. errmsg' \in [Stacks -> {"not an error", "an error", "another"}]
  BY <1>1, TypesOf DEF TypeOK
<1>5. QED
  BY <1>1, <1>2, <1>3, <1>4, ReturnStep, TypesOf DEF TypeOK

LEMMA DescribeFailureStep ==
  ASSUME IInv, NEW s \in Stacks, DescribeFailure(s)
  PROVE  GoodStep(s)
<1>1. /\ pc[s] = "failed"
      /\ Return(s, errmsg[connection[s]])
      /\ UNCHANGED <<databases, connection, message, errmsg, owner, pending, file, executed, givenUp>>
  BY DEF DescribeFailure, sqlite
<1>2. connection[s] \in Stacks
  BY <1>1, TypesOf DEF ConnectionInv
<1>3. pc[s] \in Calling /\ errmsg[connection[s]] \in Descriptions
  BY <1>1, <1>2, TypesOf DEF Calling
<1>4. AtEnd(s) => owner # connection[s]
  BY <1>1, TypesOf DEF CallInv
<1>5. QED
  BY <1>1, <1>3, <1>4, ReturnStep, TypesOf DEF TypeOK

\* What SQLite does with a statement other than a query.
LEMMA ExecuteChange ==
  ASSUME TypeOK, NEW s \in Stacks, Statement(s) # Select, connection[s] \in Stacks,
         Execute(Statement(s), connection[s])
  PROVE  /\ owner' \in Stacks \cup {None} /\ pending' \subseteq Changes /\ file' \subseteq Changes
         /\ \/ owner' = None
            \/ owner' = owner /\ ~AtEnd(s)
            \/ Statement(s) = Begin /\ owner' = connection[s]
<1>1. owner \in Stacks \cup {None} /\ pending \subseteq Changes /\ file \subseteq Changes
  BY DEF TypeOK
<1>2. CASE Statement(s) = Begin
  <2>1. Begin # Select /\ Begin # Commit /\ Begin # Rollback
    BY DEF Begin, Select, Commit, Rollback
  <2>2. owner' = connection[s] /\ pending' = {} /\ file' = file
    BY <1>2, <2>1 DEF Execute
  <2>3. QED
    BY <1>1, <1>2, <2>2
<1>3. CASE Statement(s) \in {Commit, Rollback}
  <2>1. owner' = None /\ pending' = {} /\ file' \in {file, file \cup pending}
    BY <1>3 DEF Execute, Begin, Select, Commit, Rollback
  <2>2. QED
    BY <1>1, <2>1
<1>4. CASE Statement(s) \notin {Begin, Commit, Rollback}
  <2>1. Statement(s) \in Changes /\ ~AtEnd(s)
    BY <1>4, StatementType DEF Statements
  <2>2. /\ owner' = owner
        /\ pending' \in {pending, pending \cup {Statement(s)}}
        /\ file' \in {file, file \cup {Statement(s)}}
    BY <1>4 DEF Execute, Begin, Select, Commit, Rollback
  <2>3. QED
    BY <1>1, <2>1, <2>2
<1>5. QED
  BY <1>2, <1>3, <1>4

LEMMA StepStep ==
  ASSUME IInv, NEW s \in Stacks, Step(s)
  PROVE  GoodStep(s)
<1>1. /\ pc[s] = "described"
      /\ errmsg' = [errmsg EXCEPT ![connection[s]] = "another"]
      /\ UNCHANGED <<databases, connection, message, givenUp>>
  BY DEF Step
<1>2. errmsg' \in [Stacks -> {"not an error", "an error", "another"}]
  BY <1>1, TypesOf DEF TypeOK
<1>3. /\ connection[s] \in Stacks
      /\ Statement(s) # Select => semaphore = s
      /\ s \in executed /\ ~IsScript(s) => Statement(s) # Begin
      /\ ~IsScript(s) => at[s] = 0
  BY <1>1, TypesOf DEF ConnectionInv, CallInv, Calling
<1>4. Ends(s) => IsScript(s) /\ at[s] > 0
  BY <1>1, NotYet
<1>5. CASE Refused(Statement(s), connection[s])
  <2>1. /\ pc' = [pc EXCEPT ![s] = "failed"]
        /\ UNCHANGED <<at, desc, semaphore, owner, pending, file, executed>>
    BY <1>5 DEF Step, sqlite
  <2>2. pc'[s] = "failed"
    BY <2>1, TypesOf
  <2>3. Statement(s)' = Statement(s) /\ (AtEnd(s)' <=> AtEnd(s))
    BY <2>1, SameStatement
  <2>4. AtEnd(s) => owner # connection[s]
    <3>1. AtEnd(s) => Statement(s) \in {Commit, Rollback}
      BY StatementType, TypesOf
    <3>2. Begin \notin {Commit, Rollback} /\ Failing \cap {Commit, Rollback} = {}
      BY ConstantsAssumption DEF Begin, Commit, Rollback
    <3>3. QED
      BY <1>5, <3>1, <3>2 DEF Refused
  <2>5. TypeOK'
    <3>1. pc' \in [Stacks -> {"new", "done"} \cup Running]
      BY <2>1, TypesOf DEF Running, Calling
    <3>2. QED
      BY <1>1, <1>2, <2>1, <3>1, TypesOf DEF TypeOK
  <2>6. ConnectionInv(s)'
    BY <1>1, <1>3, <2>1, <2>2, <2>3 DEF ConnectionInv, IsScript
  <2>7. CallInv(s)'
    BY <1>1, <1>3, <2>1, <2>3, <2>4 DEF CallInv
  <2>8. LeavesOthers(s)
    BY <1>1, <2>1, TypesOf DEF LeavesOthers
  <2>9. KeepsOwner(s)
    <3>1. Ends(s) => Ends(s)'
      BY <1>1, <1>4, <2>1, <2>2 DEF Ends, IsScript, Running, Calling
    <3>2. QED
      BY <2>1, <3>1 DEF KeepsOwner
  <2>10. QED
    BY <1>1, <2>1, <2>5, <2>6, <2>7, <2>8, <2>9, TypesOf DEF GoodStep, Running, Calling
<1>6. CASE ~Refused(Statement(s), connection[s]) /\ Statement(s) = Select
  <2>1. /\ pc' = [pc EXCEPT ![s] = "reading"]
        /\ executed' = executed \cup {s}
        /\ UNCHANGED <<at, desc, semaphore, owner, pending, file>>
    <3>1. Select # Begin /\ Select # Commit /\ Select # Rollback
      BY DEF Begin, Select, Commit, Rollback
    <3>2. UNCHANGED sqlite
      BY <1>6, <3>1 DEF Step, Execute
    <3>3. QED
      BY <1>6, <3>2 DEF Step, sqlite
  <2>2. pc'[s] = "reading"
    BY <2>1, TypesOf
  <2>3. Statement(s)' = Statement(s) /\ ~IsScript(s) /\ Select # Begin
    BY <1>6, <2>1, SameStatement, StatementType, TypesOf DEF Select, Begin
  <2>4. TypeOK'
    <3>1. pc' \in [Stacks -> {"new", "done"} \cup Running]
      BY <2>1, TypesOf DEF Running, Calling
    <3>2. executed' \subseteq Stacks
      BY <2>1, TypesOf DEF TypeOK
    <3>3. QED
      BY <1>1, <1>2, <2>1, <3>1, <3>2, TypesOf DEF TypeOK
  <2>5. ConnectionInv(s)'
    BY <1>1, <1>3, <1>6, <2>1, <2>2, <2>3 DEF ConnectionInv, IsScript
  <2>6. CallInv(s)'
    BY <1>6, <2>2, <2>3 DEF CallInv
  <2>7. LeavesOthers(s)
    BY <1>1, <2>1, TypesOf DEF LeavesOthers
  <2>8. KeepsOwner(s)
    BY <1>4, <2>1, <2>3 DEF KeepsOwner
  <2>9. QED
    BY <1>1, <2>1, <2>4, <2>5, <2>6, <2>7, <2>8, TypesOf DEF GoodStep, Running, Calling
<1>7. CASE ~Refused(Statement(s), connection[s]) /\ Statement(s) # Select
  <2>1. /\ Execute(Statement(s), connection[s])
        /\ executed' = executed \cup {s}
        /\ Return(s, message[s])
    BY <1>7 DEF Step
  <2>2. pc[s] \in Calling /\ message[s] \in Descriptions
    BY <1>1, TypesOf DEF Calling
  <2>3. /\ owner' \in Stacks \cup {None} /\ pending' \subseteq Changes /\ file' \subseteq Changes
        /\ \/ owner' = None
           \/ owner' = owner /\ ~AtEnd(s)
           \/ Statement(s) = Begin /\ owner' = connection[s]
    BY <1>3, <1>7, <2>1, ExecuteChange, TypesOf
  <2>4. semaphore = s /\ s \in executed'
    BY <1>3, <1>7, <2>1
  <2>5. QED
    BY <1>1, <1>2, <2>1, <2>2, <2>3, <2>4, ReturnStep
<1>8. QED
  BY <1>5, <1>6, <1>7

LEMMA EveryStepIsGood ==
  ASSUME IInv, NEW s \in Stacks, Run(s)
  PROVE  GoodStep(s)
<1>1. QED
  BY LookStep, OpenStep, PrepareStep, DescribeStep, StepStep, GiveUpStep, EndOfRowsStep,
     DescribeFailureStep DEF Run

-----------------------------------------------------------------------------
(***************************************************************************)
(* The transactions.                                                       *)
(***************************************************************************)
LEMMA InitIInv == Init => IInv
<1>1. SUFFICES ASSUME Init PROVE IInv
  OBVIOUS
<1>2. TypeOK /\ at \in [Stacks -> Nat]
  <2>1. ASSUME NEW s \in Stacks
        PROVE  at[s] \in 0 .. NumStatements(s) + 1
    <3>1. at[s] = 0 /\ NumStatements(s) \in Nat
      BY <1>1, JobType DEF Init
    <3>2. QED
      BY <3>1
  <2>2. QED
    BY <1>1, <2>1 DEF Init, TypeOK
<1>3. \A s \in Stacks : ConnectionInv(s) /\ CallInv(s)
  BY <1>1 DEF Init, ConnectionInv, CallInv, Calling
<1>4. AloneInv /\ EveryTransactionEnds
  BY <1>1, ConstantsAssumption DEF Init, AloneInv, EveryTransactionEnds, Running, Calling
<1>5. QED
  BY <1>2, <1>3, <1>4 DEF IInv

LEMMA NextIInv ==
  ASSUME IInv, NEW s \in Stacks, Run(s)
  PROVE  IInv'
<1>1. GoodStep(s)
  BY EveryStepIsGood
<1>2. ASSUME NEW t \in Stacks \ {s}
      PROVE  /\ pc'[t] = pc[t] /\ at'[t] = at[t] /\ connection'[t] = connection[t]
             /\ (t \in executed') <=> (t \in executed)
             /\ t \in givenUp => t \in givenUp'
             /\ semaphore = t => semaphore' = t
             /\ Statement(t)' = Statement(t) /\ (AtEnd(t)' <=> AtEnd(t))
  <2>1. desc'[t] = desc[t] /\ at'[t] = at[t]
    BY <1>1, <1>2 DEF GoodStep, LeavesOthers
  <2>2. Statement(t)' = Statement(t) /\ (AtEnd(t)' <=> AtEnd(t))
    BY <2>1, SameStatement
  <2>3. QED
    BY <1>1, <2>2 DEF GoodStep, LeavesOthers
<1>3. KeepsOwner(s)
  BY <1>1 DEF GoodStep
<1>4. ASSUME NEW t \in Stacks
      PROVE  ConnectionInv(t)' /\ CallInv(t)'
  <2>1. CASE t = s
    BY <1>1, <2>1 DEF GoodStep
  <2>2. CASE t # s
    <3>1. ConnectionInv(t)'
      BY <1>2, <2>2, TypesOf DEF ConnectionInv, IsScript
    <3>2. pc[t] = "failed" /\ AtEnd(t) => owner' # connection[t]
      <4>1. SUFFICES ASSUME pc[t] = "failed", AtEnd(t) PROVE owner' # connection[t]
        OBVIOUS
      <4>2. connection[t] \in Stacks /\ owner # connection[t]
        BY <4>1, TypesOf DEF ConnectionInv, CallInv
      <4>3. semaphore = t
        BY <4>1, StatementType, TypesOf DEF CallInv, Calling
      <4>4. QED
        BY <1>3, <2>2, <4>2, <4>3, ConstantsAssumption DEF KeepsOwner
    <3>3. CallInv(t)'
      BY <1>2, <2>2, <3>2, TypesOf DEF CallInv
    <3>4. QED
      BY <3>1, <3>3
  <2>3. QED
    BY <2>1, <2>2
<1>5. AloneInv'
  <2>1. ASSUME NEW u \in Alone, NEW t \in Stacks, pc'[u] \in Running, pc'[t] \in Running, u # t
        PROVE  FALSE
    <3>1. u \in Stacks
      BY ConstantsAssumption
    <3>2. CASE u # s /\ t # s
      BY <1>2, <2>1, <3>1, <3>2 DEF IInv, AloneInv
    <3>3. CASE u = s
      <4>1. pc[t] \in Running
        BY <1>2, <2>1, <3>3
      <4>2. pc[s] \in Running \/ MayStart(s)
        BY <1>1, <2>1, <3>3 DEF GoodStep
      <4>3. QED
        BY <2>1, <3>3, <4>1, <4>2 DEF IInv, AloneInv, MayStart
    <3>4. CASE t = s
      <4>1. pc[u] \in Running
        BY <1>2, <2>1, <3>1, <3>4
      <4>2. pc[s] \in Running \/ MayStart(s)
        BY <1>1, <2>1, <3>4 DEF GoodStep
      <4>3. QED
        BY <2>1, <3>1, <3>4, <4>1, <4>2 DEF IInv, AloneInv, MayStart
    <3>5. QED
      BY <3>2, <3>3, <3>4
  <2>2. QED
    BY <2>1 DEF AloneInv
<1>6. EveryTransactionEnds'
  <2>1. SUFFICES ASSUME owner' # None PROVE \E t \in Stacks : Ends(t)'
    BY DEF EveryTransactionEnds, Ends
  <2>2. CASE Ends(s)'
    BY <2>2
  <2>3. CASE owner' = owner /\ (Ends(s) => Ends(s)')
    <3>1. PICK t \in Stacks : Ends(t)
      BY <2>1, <2>3 DEF IInv, EveryTransactionEnds, Ends
    <3>2. t # s => Ends(t)'
      BY <1>2, <2>3, <3>1 DEF Ends, IsScript
    <3>3. QED
      BY <2>3, <3>1, <3>2
  <2>4. QED
    BY <1>3, <2>1, <2>2, <2>3 DEF KeepsOwner
<1>7. QED
  BY <1>1, <1>4, <1>5, <1>6 DEF IInv, GoodStep

LEMMA StutterIInv == IInv /\ UNCHANGED vars => IInv'
<1>1. SUFFICES ASSUME IInv, UNCHANGED vars PROVE IInv'
  OBVIOUS
<1>2. UNCHANGED <<databases, connection, pc, at, desc, message, semaphore, errmsg, owner, pending,
                  file, executed, givenUp>>
  BY <1>1 DEF vars, sqlite
<1>3. TypeOK' /\ at' \in [Stacks -> Nat]
  BY <1>1, <1>2 DEF IInv, TypeOK
<1>4. ASSUME NEW s \in Stacks
      PROVE  ConnectionInv(s)' /\ CallInv(s)'
  BY <1>1, <1>2, SameStatement DEF IInv, ConnectionInv, CallInv, IsScript
<1>5. AloneInv'
  BY <1>1, <1>2 DEF IInv, AloneInv
<1>6. EveryTransactionEnds'
  <2>1. \A s \in Stacks : Statement(s)' = Statement(s)
    BY <1>1, <1>2, SameStatement
  <2>2. QED
    BY <1>1, <1>2, <2>1 DEF IInv, EveryTransactionEnds, IsScript
<1>7. QED
  BY <1>3, <1>4, <1>5, <1>6 DEF IInv

\* The invariant: who holds the semaphore of SQLiteDataAccess, who has a connection, and
\* who is to end the transaction that is open.
THEOREM InductiveInvariant == Spec => []IInv
<1>1. IInv /\ [Next]_vars => IInv'
  BY NextIInv, StutterIInv DEF Next
<1>2. QED
  BY <1>1, InitIInv, PTL DEF Spec

\* The variables keep their types.
THEOREM TypeCorrect == Spec => []TypeOK
<1>1. IInv => TypeOK
  BY DEF IInv
<1>2. QED
  BY <1>1, InductiveInvariant, PTL

\* Whatever scripts, changes and queries run at once on whatever connections, an open
\* transaction has a script that has still to end it, or is one that the page has begun,
\* or that a script could not roll back because of a query.
THEOREM TransactionsEnd == Spec => []EveryTransactionEnds
<1>1. IInv => EveryTransactionEnds
  BY DEF IInv
<1>2. QED
  BY <1>1, InductiveInvariant, PTL

-----------------------------------------------------------------------------
(***************************************************************************)
(* The scripts.                                                            *)
(***************************************************************************)

\* What a step does to the changes that are made.
LEMMA ChangesStep ==
  ASSUME IInv, NEW s \in Stacks, Run(s)
  PROVE  /\ file \subseteq file' /\ file' \subseteq file \cup pending \cup ChangesOf(s)
         /\ pending' \subseteq pending \cup ChangesOf(s)
<1>1. CASE UNCHANGED <<pending, file>>
  BY <1>1
<1>2. CASE Step(s) /\ ~UNCHANGED <<pending, file>>
  <2>1. Execute(Statement(s), connection[s])
    BY <1>2 DEF Step, sqlite
  <2>2. CASE Statement(s) \in {Begin, Commit, Rollback, Select}
    BY <2>1, <2>2 DEF Execute, Begin, Commit, Rollback, Select, sqlite
  <2>3. CASE Statement(s) \notin {Begin, Commit, Rollback, Select}
    <3>1. Statement(s) \in ChangesOf(s)
      BY <2>3, StatementType, TypesOf DEF Statements
    <3>2. /\ pending' \in {pending, pending \cup {Statement(s)}}
          /\ file' \in {file, file \cup {Statement(s)}}
      BY <2>1, <2>3 DEF Execute
    <3>3. QED
      BY <3>1, <3>2
  <2>4. QED
    BY <2>2, <2>3
<1>3. Step(s) \/ UNCHANGED <<pending, file>>
  BY DEF Run, Look, Open, Prepare, Describe, GiveUp, EndOfRows, DescribeFailure, sqlite
<1>4. QED
  BY <1>1, <1>2, <1>3

\* Only a stack that runs or begins to takes a step.
LEMMA WhoSteps ==
  ASSUME NEW s \in Stacks, Run(s)
  PROVE  pc[s] \in Running \/ MayStart(s)
  BY DEF Run, Look, Open, Prepare, Describe, Step, GiveUp, EndOfRows, DescribeFailure, Running,
         Calling

\* Steps of others.
LEMMA OthersKeepScript ==
  ASSUME IInv, NEW s \in Alone, IsScript(s), ScriptInv(s), NEW u \in Stacks, u # s, Run(u)
  PROVE  ScriptInv(s)'
<1>1. s \in Stacks
  BY ConstantsAssumption
<1>2. pc[s] \notin Running
  BY <1>1, WhoSteps DEF IInv, AloneInv, MayStart
<1>3. pc'[s] = pc[s] /\ desc'[s] = desc[s]
  BY <1>1, EveryStepIsGood DEF GoodStep, LeavesOthers
<1>4. ChangesOf(s) \cap ChangesOf(u) = {}
  BY <1>1, ChangesAreDistinct
<1>5. /\ file \subseteq file' /\ file' \subseteq file \cup pending \cup ChangesOf(u)
      /\ pending' \subseteq pending \cup ChangesOf(u)
  BY ChangesStep
<1>6. ChangesOf(s) \cap (file \cup pending) = {} => (ChangesOf(s) \cap (file \cup pending) = {})'
  BY <1>4, <1>5 DEF ChangesOf
<1>7. ChangesOf(s) \subseteq file => (ChangesOf(s) \subseteq file)'
  BY <1>5 DEF ChangesOf
<1>8. QED
  BY <1>2, <1>3, <1>6, <1>7 DEF ScriptInv, Running, Calling

\* What is known of a script that runs alone.
LEMMA RunsAlone ==
  ASSUME IInv, NEW s \in Alone, IsScript(s), pc[s] \in Running
  PROVE  /\ s \in Stacks
         /\ ~ReadElsewhere(connection[s]) /\ ~Reading(connection[s])
         /\ pc[s] # "opening" => connection[s] \in Stacks
<1>1. s \in Stacks
  BY ConstantsAssumption
<1>2. \A t \in Stacks : pc[t] # "reading"
  BY <1>1, TypesOf DEF IInv, AloneInv, ConnectionInv, Running, Calling
<1>3. QED
  BY <1>1, <1>2, TypesOf DEF ReadElsewhere, Reading, ConnectionInv, Running, Calling

LEMMA ScriptStarts ==
  ASSUME IInv, NEW s \in Alone, IsScript(s), ScriptInv(s), Look(s) \/ Open(s)
  PROVE  ScriptInv(s)'
<1>1. s \in Stacks
  BY ConstantsAssumption
<1>2. pc[s] \in {"new", "opening"} /\ pc'[s] \in {"opening", "ready"}
  <2>1. CASE Look(s)
    BY <1>1, <2>1, TypesOf DEF Look
  <2>2. CASE Open(s)
    BY <1>1, <2>2, TypesOf DEF Open
  <2>3. QED
    BY <2>1, <2>2
<1>3. at'[s] = 0 /\ UNCHANGED <<file, pending>>
  BY <1>1, <1>2, TypesOf DEF Look, Open, ConnectionInv, sqlite
<1>4. ChangesOf(s) \cap (file \cup pending) = {}
  BY <1>2 DEF ScriptInv
<1>5. ~(at'[s] > 0)
  BY <1>3
<1>6. MessageInv(s)'
  BY <1>2 DEF MessageInv
<1>7. (ChangesOf(s) \cap (file \cup pending) = {})' /\ (ChangesOf(s) \cap file = {})'
        /\ (ChangesOf(s) \cap pending = {})'
  BY <1>3, <1>4 DEF ChangesOf
<1>8. pc'[s] \notin {"failed", "done"}
  BY <1>2
<1>9. QED
  BY <1>5, <1>6, <1>7, <1>8 DEF ScriptInv

\* The transaction is as it was at a step that stays at the statement.
LEMMA SameTransaction ==
  ASSUME NEW s \in Stacks, UNCHANGED <<connection, at, desc, owner, pending, file>>,
         TransactionInv(s)
  PROVE  TransactionInv(s)'
<1>1. AtEnd(s)' <=> AtEnd(s)
  BY SameStatement
<1>2. QED
  BY <1>1 DEF TransactionInv, ChangesOf, NumStatements

LEMMA ScriptPrepares ==
  ASSUME IInv, NEW s \in Alone, IsScript(s), ScriptInv(s), Prepare(s)
  PROVE  ScriptInv(s)'
<1>1. /\ pc[s] = "ready"
      /\ UNCHANGED <<databases, connection, at, desc, message, owner, pending, file, givenUp>>
  BY DEF Prepare, sqlite
<1>2. s \in Stacks /\ pc[s] \in Running /\ connection[s] \in Stacks
  BY <1>1, RunsAlone DEF Running
<1>3. \/ pc'[s] = "prepared" /\ errmsg'[connection[s]] = "not an error"
      \/ /\ pc'[s] = "failed" /\ errmsg'[connection[s]] = "an error"
         /\ Statement(s) \in Wrong \/ Statement(s) \in Changes \cup {Select}
  BY <1>2, TypesOf DEF Prepare
<1>4. pc'[s] = "failed" => at[s] # 0
  <2>1. Begin \notin Changes \cup {Select} \cup Wrong
    BY ConstantsAssumption DEF Begin, Select
  <2>2. QED
    BY <1>2, <1>3, <2>1, StatementType, TypesOf
<1>5. MessageInv(s)'
  BY <1>1, <1>3 DEF MessageInv
<1>6. at[s] > 0 => TransactionInv(s)'
  BY <1>1, <1>2, SameTransaction DEF ScriptInv
<1>7. pc'[s] \in {"prepared", "failed"}
  BY <1>3
<1>8. QED
  BY <1>1, <1>2, <1>4, <1>5, <1>6, <1>7 DEF ScriptInv, ChangesOf

LEMMA ScriptDescribes ==
  ASSUME IInv, NEW s \in Alone, IsScript(s), ScriptInv(s), Describe(s)
  PROVE  ScriptInv(s)'
<1>1. /\ pc[s] = "prepared"
      /\ UNCHANGED <<connection, at, desc, errmsg, owner, pending, file>>
      /\ message' = [message EXCEPT ![s] = errmsg[connection[s]]]
      /\ pc' = [pc EXCEPT ![s] = "described"]
  BY DEF Describe, sqlite
<1>2. s \in Stacks /\ pc[s] \in Running
  BY <1>1, RunsAlone DEF Running, Calling
<1>3. pc'[s] = "described" /\ message'[s] = errmsg[connection[s]]
  BY <1>1, <1>2, TypesOf
<1>4. MessageInv(s)'
  BY <1>1, <1>2, <1>3 DEF ScriptInv, MessageInv
<1>5. at[s] > 0 => TransactionInv(s)'
  BY <1>1, <1>2, SameTransaction DEF ScriptInv
<1>6. QED
  BY <1>1, <1>2, <1>3, <1>4, <1>5 DEF ScriptInv, ChangesOf

\* A statement fails.
LEMMA ScriptFails ==
  ASSUME IInv, NEW s \in Alone, IsScript(s), ScriptInv(s), Step(s),
         Refused(Statement(s), connection[s])
  PROVE  ScriptInv(s)'
<1>1. /\ pc[s] = "described"
      /\ UNCHANGED <<connection, at, desc, owner, pending, file>>
      /\ errmsg' = [errmsg EXCEPT ![connection[s]] = "another"]
      /\ pc' = [pc EXCEPT ![s] = "failed"]
  BY DEF Step, sqlite
<1>2. s \in Stacks /\ pc[s] \in Running /\ connection[s] \in Stacks
  BY <1>1, RunsAlone DEF Running, Calling
<1>3. pc'[s] = "failed" /\ errmsg'[connection[s]] = "another"
  BY <1>1, <1>2, TypesOf
<1>4. MessageInv(s)'
  BY <1>1, <1>3 DEF MessageInv
<1>5. at[s] > 0 => TransactionInv(s)'
  BY <1>1, <1>2, SameTransaction DEF ScriptInv
<1>6. at[s] = 0 => owner # None
  <2>1. Begin \notin {Commit, Rollback} \cup Failing
    BY ConstantsAssumption DEF Begin, Commit, Rollback
  <2>2. at[s] = 0 => owner = connection[s]
    BY <1>2, <2>1, StatementType, TypesOf DEF Refused
  <2>3. QED
    BY <1>2, <2>2, ConstantsAssumption
<1>7. QED
  BY <1>1, <1>2, <1>3, <1>4, <1>5, <1>6 DEF ScriptInv, ChangesOf

\* What is left to show of a script when dbAccess has returned in the middle of it.
LEMMA ScriptGoesOn ==
  ASSUME IInv, NEW s \in Alone, IsScript(s), NEW d \in Descriptions, Return(s, d), ~AtEnd(s),
         ChangesOf(s) \cap file' = {}, TransactionInv(s)'
  PROVE  ScriptInv(s)'
<1>1. s \in Stacks
  BY ConstantsAssumption
<1>2. pc'[s] = "ready" /\ at'[s] > 0 /\ at'[s] = NextAt(s, d)
  BY <1>1, AfterReturn
<1>3. at'[s] # 0
  BY <1>2
<1>4. MessageInv(s)'
  BY <1>2 DEF MessageInv
<1>5. (ChangesOf(s) \cap file = {})'
  BY DEF ChangesOf
<1>6. QED
  BY <1>2, <1>3, <1>4, <1>5 DEF ScriptInv

\* Where the script is then.
LEMMA ScriptMoves ==
  ASSUME IInv, NEW s \in Alone, IsScript(s), NEW d \in Descriptions, Return(s, d), ~AtEnd(s)
  PROVE  /\ at'[s] = NextAt(s, d) /\ desc'[s] = d
         /\ at[s] = 0 => at'[s] = 1
         /\ d = "not an error" => at'[s] = at[s] + 1
         /\ at[s] > 0 /\ d # "not an error" => at'[s] = NumStatements(s) + 1
<1>1. s \in Stacks
  BY ConstantsAssumption
<1>2. at'[s] = NextAt(s, d) /\ desc'[s] = d
  BY <1>1, AfterReturn
<1>3. at[s] = 0 => at'[s] = 1
  BY <1>1, <1>2, NextAtType, TypesOf
<1>4. d = "not an error" => at'[s] = at[s] + 1
  BY <1>2 DEF NextAt
<1>5. at[s] > 0 /\ d # "not an error" => at'[s] = NumStatements(s) + 1
  BY <1>2 DEF NextAt
<1>6. QED
  BY <1>2, <1>3, <1>4, <1>5

\* While another connection has a transaction, the script makes no change.
LEMMA ScriptGivesUp ==
  ASSUME IInv, NEW s \in Alone, IsScript(s), ScriptInv(s), GiveUp(s)
  PROVE  ScriptInv(s)'
<1>1. /\ pc[s] = "described" /\ Busy(Statement(s), connection[s])
      /\ Return(s, message[s])
      /\ UNCHANGED <<connection, owner, pending, file>>
  BY DEF GiveUp, sqlite
<1>2. /\ s \in Stacks /\ pc[s] \in Running
      /\ ~ReadElsewhere(connection[s]) /\ ~Reading(connection[s])
  BY <1>1, RunsAlone DEF Running, Calling
<1>3. message[s] \in Descriptions
  BY <1>2, TypesOf
<1>4. Locked(connection[s]) /\ Statement(s) \notin {Commit, Rollback}
  BY <1>1, <1>2 DEF Busy, Select, Begin, Commit, Rollback
<1>5. ~AtEnd(s)
  BY <1>2, <1>4, StatementType, TypesOf
<1>6. owner # None /\ owner # connection[s]
  BY <1>4 DEF Locked
<1>7. ChangesOf(s) \cap (file \cup pending) = {}
  <2>1. CASE at[s] = 0
    BY <1>2, <2>1 DEF ScriptInv
  <2>2. CASE at[s] # 0
    <3>1. at[s] > 0
      BY <1>2, <2>2, TypesOf
    <3>2. QED
      BY <1>2, <1>6, <3>1 DEF ScriptInv, TransactionInv
  <2>3. QED
    BY <2>1, <2>2
<1>8. TransactionInv(s)'
  BY <1>1, <1>6, <1>7 DEF TransactionInv, ChangesOf
<1>9. QED
  BY <1>1, <1>3, <1>5, <1>7, <1>8, ScriptGoesOn

\* The transaction in which a failed statement leaves the script.
LEMMA ScriptDescribesFailure ==
  ASSUME IInv, NEW s \in Alone, IsScript(s), ScriptInv(s), DescribeFailure(s)
  PROVE  ScriptInv(s)'
<1> DEFINE d == errmsg[connection[s]]
<1>1. /\ pc[s] = "failed" /\ Return(s, d)
      /\ UNCHANGED <<connection, owner, pending, file>>
  BY DEF DescribeFailure, sqlite
<1>2. s \in Stacks /\ pc[s] \in Running /\ connection[s] \in Stacks
  BY <1>1, RunsAlone DEF Running, Calling
<1>3. d \in Descriptions /\ d # "not an error"
  BY <1>1, <1>2, TypesOf DEF ScriptInv, MessageInv
<1>4. ChangesOf(s) \cap file = {}
  BY <1>2 DEF ScriptInv
<1> HIDE DEF d
<1>5. CASE at[s] = 0
  <2>1. ~AtEnd(s) /\ owner # None /\ ChangesOf(s) \cap pending = {}
    BY <1>1, <1>2, <1>5, StatementType, TypesOf DEF ScriptInv
  <2>2. at'[s] = 1
    BY <1>1, <1>3, <1>5, <2>1, ScriptMoves
  <2>3. \A n \in 1 .. NumStatements(s) : ~(n < at'[s])
    BY <1>2, <2>2, JobType
  <2>4. TransactionInv(s)'
    BY <1>1, <2>1, <2>3 DEF TransactionInv, ChangesOf, NumStatements
  <2>5. QED
    BY <1>1, <1>3, <1>4, <2>1, <2>4, ScriptGoesOn
<1>6. CASE at[s] > 0 /\ ~AtEnd(s)
  <2>1. TransactionInv(s)
    BY <1>2, <1>6 DEF ScriptInv
  <2>2. at'[s] = NumStatements(s) + 1 /\ desc'[s] = d
    BY <1>1, <1>3, <1>6, ScriptMoves
  <2>3. AtEnd(s)' /\ desc'[s] # "not an error"
    BY <1>3, <2>2 DEF AtEnd, IsScript, NumStatements
  <2>4. TransactionInv(s)'
    BY <1>1, <2>1, <2>3 DEF TransactionInv, ChangesOf
  <2>5. QED
    BY <1>1, <1>3, <1>4, <1>6, <2>4, ScriptGoesOn
<1>7. CASE at[s] > 0 /\ AtEnd(s)
  <2>1. owner # connection[s]
    BY <1>1, <1>2, <1>7, TypesOf DEF CallInv
  <2>2. ChangesOf(s) \cap pending = {}
    BY <1>2, <1>7, <2>1 DEF ScriptInv, TransactionInv
  <2>3. pc'[s] = "done" /\ desc'[s] # "not an error"
    <3>1. /\ pc'[s] = "done"
          /\ desc'[s] = IF AtEnd(s) /\ Statement(s) = Rollback THEN desc[s] ELSE d
      BY <1>1, <1>2, <1>3, <1>7, AfterReturn
    <3>2. Statement(s) = Rollback => desc[s] # "not an error"
      BY <1>2, <1>7, StatementType, TypesOf DEF EndOfScript, Commit, Rollback
    <3>3. QED
      BY <1>3, <3>1, <3>2
  <2>4. (ChangesOf(s) \cap (file \cup pending) = {})'
    BY <1>1, <1>4, <2>2 DEF ChangesOf
  <2>5. QED
    BY <2>3, <2>4 DEF ScriptInv, Running, Calling
<1>8. QED
  BY <1>2, <1>5, <1>6, <1>7, TypesOf

\* A statement is executed.
LEMMA ScriptExecutes ==
  ASSUME IInv, NEW s \in Alone, IsScript(s), ScriptInv(s), Step(s),
         ~Refused(Statement(s), connection[s])
  PROVE  ScriptInv(s)'
<1> DEFINE c == connection[s]
<1>1. /\ pc[s] = "described" /\ ~Busy(Statement(s), c)
      /\ UNCHANGED connection
  BY DEF Step
<1>2. /\ s \in Stacks /\ pc[s] \in Running /\ c \in Stacks
      /\ ~ReadElsewhere(c) /\ ~Reading(c)
  BY <1>1, RunsAlone DEF Running, Calling
<1>3. message[s] = "not an error" /\ message[s] \in Descriptions
  BY <1>1, <1>2, TypesOf DEF ScriptInv, MessageInv
<1>4. Statement(s) # Select
  BY <1>2, StatementType, TypesOf
<1>5. Execute(Statement(s), c) /\ Return(s, "not an error") /\ "not an error" \in Descriptions
  BY <1>3, <1>4 DEF Step
<1>6. ChangesOf(s) \cap file = {}
  BY <1>2 DEF ScriptInv
<1>7. Begin # Select /\ Begin # Commit /\ Begin # Rollback /\ Commit # Select /\ Commit # Rollback
        /\ Rollback # Select
  BY DEF Begin, Select, Commit, Rollback
<1>8. CASE at[s] = 0
  <2>1. Statement(s) = Begin /\ ~AtEnd(s)
    BY <1>2, <1>8, StatementType, TypesOf
  <2>2. owner' = c /\ UNCHANGED file
    BY <1>5, <1>7, <2>1 DEF Execute
  <2>3. at'[s] = 1
    BY <1>5, <1>8, <2>1, ScriptMoves
  <2>4. \A n \in 1 .. NumStatements(s) : ~(n < at'[s])
    BY <1>2, <2>3, JobType
  <2>5. TransactionInv(s)'
    BY <1>1, <1>2, <2>2, <2>4, ConstantsAssumption DEF TransactionInv, ChangesOf, NumStatements
  <2>6. QED
    BY <1>5, <1>6, <2>1, <2>2, <2>5, ScriptGoesOn
<1>9. CASE at[s] > 0 /\ ~AtEnd(s)
  <2>1. TransactionInv(s)
    BY <1>2, <1>9 DEF ScriptInv
  <2>2. /\ Statement(s) \in Changes
        /\ Statement(s) = JobOf[s].statements[at[s]]
        /\ at[s] \in 1 .. NumStatements(s)
    BY <1>2, <1>9, StatementType, TypesOf
  <2>3. Statement(s) \notin {Begin, Commit, Rollback, Select}
    BY <2>2, ConstantsAssumption
  <2>4. owner = c
    BY <1>1, <2>1, <2>3 DEF Busy, Locked, TransactionInv
  <2>5. pending' = pending \cup {Statement(s)} /\ UNCHANGED <<owner, file>>
    BY <1>5, <2>3, <2>4 DEF Execute
  <2>6. at'[s] = at[s] + 1
    BY <1>5, <1>9, ScriptMoves
  <2>7. ASSUME NEW n \in 1 .. NumStatements(s), n < at'[s]
        PROVE  JobOf[s].statements[n] \in pending'
    <3>1. n < at[s] \/ n = at[s]
      BY <2>2, <2>6, <2>7, JobType
    <3>2. CASE n < at[s]
      BY <1>9, <2>1, <2>4, <2>5, <3>2 DEF TransactionInv
    <3>3. CASE n = at[s]
      BY <2>2, <2>5, <3>3
    <3>4. QED
      BY <3>1, <3>2, <3>3
  <2>8. TransactionInv(s)'
    BY <1>1, <1>2, <2>4, <2>5, <2>7, ConstantsAssumption DEF TransactionInv, NumStatements
  <2>9. QED
    BY <1>5, <1>6, <1>9, <2>5, <2>8, ScriptGoesOn
<1>10. CASE at[s] > 0 /\ AtEnd(s)
  <2>1. TransactionInv(s)
    BY <1>2, <1>10 DEF ScriptInv
  <2>2. Statement(s) = EndOfScript(s) /\ Statement(s) \in {Commit, Rollback}
    BY <1>2, <1>10, StatementType, TypesOf
  <2>3. owner = c
    BY <2>2 DEF Refused
  <2>4. /\ pc'[s] = "done"
        /\ desc'[s] = IF Statement(s) = Rollback THEN desc[s] ELSE "not an error"
    BY <1>2, <1>5, <1>10, AfterReturn
  <2>5. CASE desc[s] = "not an error"
    <3>1. Statement(s) = Commit
      BY <2>2, <2>5 DEF EndOfScript
    <3>2. file' = file \cup pending
      BY <1>5, <1>7, <3>1 DEF Execute
    <3>3. \A n \in 1 .. NumStatements(s) : JobOf[s].statements[n] \in pending
      <4>1. at[s] = NumStatements(s) + 1
        BY <1>10 DEF AtEnd
      <4>2. \A n \in 1 .. NumStatements(s) : n < at[s]
        BY <1>2, <4>1, JobType
      <4>3. QED
        BY <2>1, <2>3, <2>5, <4>2 DEF TransactionInv
    <3>4. ChangesOf(s) \subseteq file'
      BY <3>2, <3>3 DEF ChangesOf, NumStatements
    <3>5. desc'[s] = "not an error"
      BY <1>7, <2>4, <3>1
    <3>6. QED
      BY <2>4, <3>4, <3>5 DEF ScriptInv, ChangesOf, Running, Calling
  <2>6. CASE desc[s] # "not an error"
    <3>1. Statement(s) = Rollback
      BY <2>2, <2>6 DEF EndOfScript
    <3>2. pending' = {} /\ UNCHANGED file
      BY <1>5, <1>7, <3>1 DEF Execute
    <3>3. desc'[s] # "not an error"
      BY <2>4, <2>6, <3>1
    <3>4. (ChangesOf(s) \cap (file \cup pending) = {})'
      BY <1>6, <3>2 DEF ChangesOf
    <3>5. QED
      BY <2>4, <3>3, <3>4 DEF ScriptInv, Running, Calling
  <2>7. QED
    BY <2>5, <2>6
<1>11. QED
  BY <1>2, <1>8, <1>9, <1>10, TypesOf

LEMMA NextScriptsInv ==
  ASSUME IInv, ScriptsInv, NEW u \in Stacks, Run(u)
  PROVE  ScriptsInv'
<1>1. SUFFICES ASSUME NEW s \in Alone, IsScript(s) PROVE ScriptInv(s)'
  BY DEF ScriptsInv, IsScript
<1>2. ScriptInv(s)
  BY <1>1 DEF ScriptsInv
<1>3. CASE u # s
  BY <1>1, <1>2, <1>3, OthersKeepScript
<1>4. CASE u = s
  <2>1. CASE Look(s) \/ Open(s)
    BY <1>1, <1>2, <2>1, ScriptStarts
  <2>2. CASE Prepare(s)
    BY <1>1, <1>2, <2>2, ScriptPrepares
  <2>3. CASE Describe(s)
    BY <1>1, <1>2, <2>3, ScriptDescribes
  <2>4. CASE Step(s)
    BY <1>1, <1>2, <2>4, ScriptFails, ScriptExecutes
  <2>5. CASE GiveUp(s)
    BY <1>1, <1>2, <2>5, ScriptGivesUp
  <2>6. CASE EndOfRows(s)
    <3>1. s \in Stacks /\ pc[s] = "reading"
      BY <2>6, ConstantsAssumption DEF EndOfRows
    <3>2. QED
      BY <1>1, <3>1, TypesOf DEF ConnectionInv
  <2>7. CASE DescribeFailure(s)
    BY <1>1, <1>2, <2>7, ScriptDescribesFailure
  <2>8. QED
    BY <1>4, <2>1, <2>2, <2>3, <2>4, <2>5, <2>6, <2>7 DEF Run
<1>5. QED
  BY <1>3, <1>4

\* A script that runs while no other stack does has made all its changes if it answers
\* "not an error", and none otherwise, whatever ran before and whatever transaction was
\* open when it began.
THEOREM AtomicScripts == Spec => []ScriptsAreAtomic
<1>1. Init => ScriptsInv
  <2>1. ASSUME Init, NEW s \in Alone
        PROVE  pc[s] = "new" /\ file = {} /\ pending = {}
    BY <2>1, ConstantsAssumption DEF Init
  <2>2. QED
    BY <2>1 DEF ScriptsInv, ScriptInv, Running, Calling
<1>2. IInv /\ ScriptsInv /\ [Next]_vars => ScriptsInv'
  <2>1. ASSUME ScriptsInv, UNCHANGED vars
        PROVE  ScriptsInv'
    <3>1. UNCHANGED <<connection, pc, at, desc, message, errmsg, owner, pending, file>>
      BY <2>1 DEF vars, sqlite
    <3>2. ASSUME NEW s \in Alone, IsScript(s) PROVE ScriptInv(s)'
      <4>1. s \in Stacks /\ ScriptInv(s)
        BY <2>1, <3>2, ConstantsAssumption DEF ScriptsInv
      <4>2. TransactionInv(s) => TransactionInv(s)'
        BY <3>1, <4>1, SameTransaction
      <4>3. MessageInv(s) => MessageInv(s)'
        BY <3>1 DEF MessageInv
      <4>4. QED
        BY <3>1, <4>1, <4>2, <4>3 DEF ScriptInv, ChangesOf
    <3>3. QED
      BY <3>2 DEF ScriptsInv, IsScript
  <2>2. QED
    BY <2>1, NextScriptsInv DEF Next
<1>3. ScriptsInv => ScriptsAreAtomic
  BY DEF ScriptsInv, ScriptInv, ScriptsAreAtomic, Running, Calling
<1>4. QED
  BY <1>1, <1>2, <1>3, InductiveInvariant, PTL DEF Spec
=============================================================================
