------------------------------- MODULE DBScript -------------------------------
(***************************************************************************)
(* DBScript and DataAccessObject.executeBatch: a script is built statement *)
(* by statement and run in one transaction of the browser's database.      *)
(*                                                                         *)
(* The statements are kept in an object, the linker, under keys: the text  *)
(* of a number, or for a statement with parameters the text of an array of *)
(* its number and them.  They are run in the order of a for-in loop, which *)
(* comes to the keys that are numbers first, in ascending order, and then  *)
(* to the others, in the order they were put in.                           *)
(*                                                                         *)
(* A synchronised statement stands for two: one that records it in the     *)
(* table sync_temp, for the server, and the one it is stored for.          *)
(*                                                                         *)
(* Nothing waits for the results: the execution key that the callbacks of  *)
(* executeBatch look for is always the one that no stack has.              *)
(***************************************************************************)
EXTENDS Integers, Sequences, FiniteSets

CONSTANTS
  MaxStatements, \* how many statements are added, for the checker
  MaxRuns        \* how often the script is run, for the checker

ASSUME ConstantsAssumption == MaxStatements \in Nat /\ MaxRuns \in Nat

\* Whether an added statement has parameters, and whether it is synchronised.
Forms == [parameters : BOOLEAN, synced : BOOLEAN]

\* What is stored: the statement itself or its record, of the of-th that was added.
Entries == [what : {"statement", "record"}, of : 1 .. MaxStatements]

\* A key: of a number, or of an array that begins with it.
Keys == [array : BOOLEAN, number : 1 .. 2 * MaxStatements]

VARIABLES
  added,              \* the form of each statement that was added
  numGeneratedParams, \* the last number given
  linker,             \* the entries, by key
  waiting,            \* for each transaction asked for and not begun, how many
                      \* statements had been added then
  batch,              \* the entries the current transaction is to execute
  executed,           \* how many of them it has executed
  runs                \* the batches that were committed, with what they waited with

vars == <<added, numGeneratedParams, linker, waiting, batch, executed, runs>>

Idle == <<>>

Init ==
  /\ added = <<>>
  /\ numGeneratedParams = 0
  /\ linker = <<>>
  /\ waiting = <<>>
  /\ batch = Idle
  /\ executed = 0
  /\ runs = <<>>

-----------------------------------------------------------------------------
(***************************************************************************)
(* addStatement.                                                           *)
(***************************************************************************)

\* How many entries a statement is stored as: it is preceded by its record.
NumEntries(form) == IF form.synced THEN 2 ELSE 1

\* (Faulty variant of Key.)  The number of the entry is left out of an array.
KeyWithoutNumber(form, number) ==
  [array |-> form.parameters, number |-> IF form.parameters THEN 1 ELSE numGeneratedParams']

\* The key of an entry: its own number if there are parameters, and otherwise the
\* last one given.
Key(form, number) ==
  [array |-> form.parameters,
   number |-> IF form.parameters THEN number ELSE numGeneratedParams']

Put(map, key, entry) ==
  [k \in DOMAIN map \cup {key} |-> IF k = key THEN entry ELSE map[k]]

addStatement(form) ==
  /\ Len(added) < MaxStatements
  /\ added' = Append(added, form)
  /\ numGeneratedParams' = numGeneratedParams + NumEntries(form)
  /\ LET entry(what) == [what |-> what, of |-> Len(added) + 1]
         recorded == IF form.synced
                       THEN Put(linker, Key(form, numGeneratedParams + 1), entry("record"))
                       ELSE linker
     IN  linker' = Put(recorded, Key(form, numGeneratedParams'), entry("statement"))
  /\ UNCHANGED <<waiting, batch, executed, runs>>

-----------------------------------------------------------------------------
(***************************************************************************)
(* executeSetDataScript and executeBatch.                                  *)
(***************************************************************************)

\* Keys that are numbers come first; arrays were put in by ascending numbers.
ComesBefore(k, l) ==
  \/ ~k.array /\ l.array
  \/ k.array = l.array /\ k.number < l.number

\* The n-th key of the loop: n - 1 others come before it.
NthKey(map, n) ==
  CHOOSE k \in DOMAIN map :
    Cardinality({l \in DOMAIN map : ComesBefore(l, k)}) = n - 1

\* (Faulty variant of ForIn.)  The keys are gone through from the last.
ForInBackwards(map) ==
  LET last == Cardinality(DOMAIN map)
  IN  [n \in 1 .. last |-> map[NthKey(map, last + 1 - n)]]

ForIn(map) == [n \in 1 .. Cardinality(DOMAIN map) |-> map[NthKey(map, n)]]

\* A transaction is asked for.
executeSetDataScript ==
  /\ Len(waiting) + Len(runs) < MaxRuns
  /\ waiting' = Append(waiting, Len(added))
  /\ UNCHANGED <<added, numGeneratedParams, linker, batch, executed, runs>>

\* It begins: only now is the linker gone through.  Without entries it ends at once.
StartTransaction ==
  /\ waiting # <<>>
  /\ batch = Idle
  /\ IF ForIn(linker) = Idle
       THEN waiting' = Tail(waiting) /\ UNCHANGED batch
       ELSE batch' = ForIn(linker) /\ UNCHANGED waiting
  /\ executed' = 0
  /\ UNCHANGED <<added, numGeneratedParams, linker, runs>>

StatementSucceeds ==
  /\ executed < Len(batch)
  /\ executed' = executed + 1
  /\ UNCHANGED <<added, numGeneratedParams, linker, waiting, batch, runs>>

\* All statements have been executed and are committed; or one has failed, whose
\* callback returns true, or the commit fails, and all are rolled back.
EndTransaction(committed) ==
  /\ batch # Idle
  /\ committed => executed = Len(batch)
  /\ runs' = IF committed THEN Append(runs, [batch |-> batch, asked |-> Head(waiting)]) ELSE runs
  /\ waiting' = Tail(waiting)
  /\ batch' = Idle
  /\ executed' = 0
  /\ UNCHANGED <<added, numGeneratedParams, linker>>

-----------------------------------------------------------------------------
Next ==
  \/ \E form \in Forms : addStatement(form)
  \/ executeSetDataScript
  \/ StartTransaction
  \/ StatementSucceeds
  \/ \E committed \in BOOLEAN : EndTransaction(committed)

Spec == Init /\ [][Next]_vars

-----------------------------------------------------------------------------
(***************************************************************************)
(* Properties.                                                             *)
(***************************************************************************)
\* Where the batch b has the entry e.
Places(b, e) == {n \in DOMAIN b : b[n] = e}

\* A script that is committed has executed every statement that was added before it
\* was asked for, and none twice, whatever was added, with parameters or without,
\* in between or before earlier runs.
EveryStatementOnce ==
  \A r \in 1 .. Len(runs) : \A k \in 1 .. Len(added) :
    LET places == Places(runs[r].batch, [what |-> "statement", of |-> k])
    IN  /\ \A m, n \in places : m = n
        /\ k <= runs[r].asked => places # {}

\* Statements of one kind, with parameters or without, keep their order.
OrderWithinKinds ==
  \A r \in 1 .. Len(runs) : LET b == runs[r].batch IN
    \A m, n \in DOMAIN b :
      m < n /\ added[b[m].of].parameters = added[b[n].of].parameters => b[m].of <= b[n].of

\* The inductive invariant behind both.  The kinds of entries that what is stored may
\* be, of one of the statements added so far.
Stored == [what : {"statement", "record"}, of : 1 .. Len(added)]

\* The linker has every statement under one key, and the keys of each kind in the
\* order of the statements.
LinkerInv ==
  /\ IsFiniteSet(DOMAIN linker)
  /\ DOMAIN linker \subseteq [array : BOOLEAN, number : 1 .. numGeneratedParams]
  /\ \A k \in DOMAIN linker :
       linker[k] \in Stored /\ added[linker[k].of].parameters = k.array
  /\ \A k, l \in DOMAIN linker :
       /\ linker[k] = linker[l] /\ linker[k].what = "statement" => k = l
       /\ k.array = l.array /\ k.number < l.number => linker[k].of <= linker[l].of
  /\ \A i \in 1 .. Len(added) :
       \E k \in DOMAIN linker : linker[k] = [what |-> "statement", of |-> i]

\* What a transaction is to execute, when so many statements had been added before it
\* was asked for.
GoodBatch(b, asked) ==
  /\ \A n \in DOMAIN b : b[n] \in Stored
  /\ \A m, n \in DOMAIN b :
       /\ b[m] = b[n] /\ b[m].what = "statement" => m = n
       /\ m < n /\ added[b[m].of].parameters = added[b[n].of].parameters => b[m].of <= b[n].of
  /\ \A i \in 1 .. asked : \E n \in DOMAIN b : b[n] = [what |-> "statement", of |-> i]

IInv ==
  /\ LinkerInv
  /\ \A i \in 1 .. Len(waiting) : waiting[i] \in 0 .. Len(added)
  /\ batch # Idle => waiting # <<>> /\ GoodBatch(batch, Head(waiting))
  /\ \A r \in 1 .. Len(runs) : GoodBatch(runs[r].batch, runs[r].asked)
=============================================================================
