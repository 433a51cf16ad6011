---------------------------- MODULE NativeDatabase ----------------------------
(***************************************************************************)
(* SQLiteDataAccess and the business control objects that use it on iOS:   *)
(* ExecuteDBScriptBCO, SetDataBCO, GetDataBCO and TransactionHandlerBCO.   *)
(*                                                                         *)
(* Every stack runs on a thread of its own.  A database name has one       *)
(* connection, kept in controller.databases, and all of them are           *)
(* connections to one file, since initWithDatabase opens data.sqlite       *)
(* whatever the name.  Statements that change data run one at a time,      *)
(* under a semaphore that belongs to the class; queries run beside them.   *)
(*                                                                         *)
(* Of SQLite (3.7.9, as vendored), the module has the exclusive            *)
(* transaction, the locks, the refusal to roll back under a query, and the *)
(* error message, a property of the connection that every call on the      *)
(* connection sets anew.  The rows and the closing of a connection are     *)
(* left out; how the locks come about is in SQLitePager.                   *)
(***************************************************************************)
EXTENDS Integers, Sequences

CONSTANTS
  Stacks,     \* the stacks, each of which does one job
  Databases,  \* the names of the databases
  Changes,    \* the changes to the data that scripts and stacks can make
  JobOf,      \* the job of each stack
  Before,     \* the stacks whose answers the page waits for before it asks for
              \* this one
  Failing,    \* the changes that violate a constraint when they are executed
  Wrong,      \* the statements that cannot be prepared
  Alone,      \* the stacks that the page asks for only when none is running, and
              \* whose answers it waits for before it asks for another
  None        \* no stack

(***************************************************************************)
(* The job of a stack: a script of changes, or a single statement.         *)
(***************************************************************************)
Begin    == "BEGIN EXCLUSIVE TRANSACTION"
Commit   == "COMMIT"
Rollback == "ROLLBACK"
Select   == "SELECT"

Statements == Changes \cup {Begin, Commit, Rollback, Select}

Jobs == [db : Databases, script : BOOLEAN, statements : Seq(Statements)]

ChangesOf(s) == {JobOf[s].statements[n] : n \in 1 .. Len(JobOf[s].statements)} \cap Changes

ASSUME ConstantsAssumption ==
  /\ JobOf \in [Stacks -> Jobs]
  /\ \A s \in Stacks : IF JobOf[s].script THEN JobOf[s].statements \in Seq(Changes)
                                          ELSE Len(JobOf[s].statements) = 1
  /\ Changes \cap {Begin, Commit, Rollback, Select} = {}
  /\ Before \in [Stacks -> SUBSET Stacks]
  /\ Failing \subseteq Changes
  /\ Wrong \subseteq Changes \cup {Select}
  /\ Alone \subseteq Stacks
  /\ None \notin Stacks

\* A change tells who has made it.
ASSUME ChangesAreDistinct ==
  \A s, t \in Stacks : s # t => ChangesOf(s) \cap ChangesOf(t) = {}

VARIABLES
  databases, \* controller.databases: the stack that opened each connection
  connection,\* the connection of each stack, by the stack that opened it
  pc,        \* what each stack is doing
  at,        \* the statement each stack is at: in a script, 0 begins and the one
             \* after the last change ends the transaction
  desc,      \* errorDescription of the result each stack has kept, retVal
  message,   \* errorDescription of the result each stack's call is making
  semaphore, \* the stack that holds dbSemaphore
  errmsg,    \* SQLite: the error message of each connection
  owner,     \* SQLite: the connection that has a transaction
  pending,   \* SQLite: the changes made in the transaction
  file,      \* SQLite: the changes that are in the file
  executed,  \* history: the stacks whose last statement SQLite executed
  givenUp    \* history: the stacks that have given up a rollback

sqlite == <<owner, pending, file>>

vars == <<databases, connection, pc, at, desc, message, semaphore, errmsg, sqlite, executed,
          givenUp>>

(***************************************************************************)
(* "new": not asked for yet.  "opening": found no connection.  "ready":    *)
(* before a call of dbAccess.  Within dbAccess, "prepared": the statement  *)
(* has been; "described": errorDescription has been set; "reading": a      *)
(* query has rows to go; "failed": an error has not been described yet.    *)
(***************************************************************************)
Calling == {"prepared", "described", "reading", "failed"}

Running == {"opening", "ready"} \cup Calling

Init ==
  /\ databases = [d \in Databases |-> None]
  /\ connection = [s \in Stacks |-> None]
  /\ pc = [s \in Stacks |-> "new"]
  /\ at = [s \in Stacks |-> 0]
  /\ desc = [s \in Stacks |-> "nil"]
  /\ message = [s \in Stacks |-> "nil"]
  /\ semaphore = None
  /\ errmsg = [s \in Stacks |-> "not an error"]
  /\ owner = None
  /\ pending = {}
  /\ file = {}
  /\ executed = {}
  /\ givenUp = {}

-----------------------------------------------------------------------------
(***************************************************************************)
(* The statement a stack is at.                                            *)
(***************************************************************************)
IsScript(s) == JobOf[s].script

NumStatements(s) == Len(JobOf[s].statements)

\* In a script, the end of the transaction.
AtEnd(s) == IsScript(s) /\ at[s] = NumStatements(s) + 1

\* (Faulty variant of EndOfScript.)  A failed script that just stops.
EndWithoutRollback(s) == IF desc[s] = "not an error" THEN Commit ELSE Select

\* How a script ends: by the last result.
EndOfScript(s) == IF desc[s] = "not an error" THEN Commit ELSE Rollback

Statement(s) ==
  IF ~IsScript(s) THEN JobOf[s].statements[1]
  ELSE IF at[s] = 0 THEN Begin
  ELSE IF AtEnd(s) THEN EndOfScript(s)
  ELSE JobOf[s].statements[at[s]]

-----------------------------------------------------------------------------
(***************************************************************************)
(* SQLite: what happens to a statement on connection c.                    *)
(***************************************************************************)
Locked(c) == owner \notin {None, c}

\* Queries of other connections hold the file.
ReadElsewhere(c) == \E s \in Stacks : pc[s] = "reading" /\ connection[s] # c

\* A query of the connection itself is under way.
Reading(c) == \E s \in Stacks : pc[s] = "reading" /\ connection[s] = c

\* SQLITE_BUSY.  A rollback is refused while a query of its connection has rows to go;
\* a commit only while another statement writes, which the semaphore excludes.
Busy(q, c) ==
  CASE q = Select   -> Locked(c)
    [] q = Begin    -> owner # c /\ (Locked(c) \/ ReadElsewhere(c))
    [] q = Commit   -> FALSE
    [] q = Rollback -> owner = c /\ Reading(c)
    [] OTHER        -> Locked(c) \/ (owner = None /\ ReadElsewhere(c))

\* An error, of a statement that is not busy.
Refused(q, c) ==
  \/ q = Begin /\ owner = c
  \/ q \in {Commit, Rollback} /\ owner # c
  \/ q \in Failing

\* Neither busy nor refused.
Execute(q, c) ==
  CASE q = Select   -> UNCHANGED sqlite
    [] q = Begin    -> owner' = c /\ pending' = {} /\ UNCHANGED file
    [] q = Commit   -> owner' = None /\ pending' = {} /\ file' = file \cup pending
    [] q = Rollback -> owner' = None /\ pending' = {} /\ UNCHANGED file
    [] OTHER        -> IF owner = c
                         THEN pending' = pending \cup {q} /\ UNCHANGED <<owner, file>>
                         ELSE file' = file \cup {q} /\ UNCHANGED <<owner, pending>>

-----------------------------------------------------------------------------
(***************************************************************************)
(* Finding the connection.                                                 *)
(***************************************************************************)
MayStart(s) ==
  /\ \A b \in Before[s] : pc[b] = "done"
  /\ \A other \in Stacks : pc[other] \in Running => {s, other} \cap Alone = {}

\* The start of handleIt: look for the connection.
Look(s) ==
  /\ pc[s] = "new"
  /\ MayStart(s)
  /\ connection' = [connection EXCEPT ![s] = databases[JobOf[s].db]]
  /\ pc' = [pc EXCEPT ![s] = IF connection'[s] = None THEN "opening" ELSE "ready"]
  /\ UNCHANGED <<databases, at, desc, message, semaphore, errmsg, sqlite, executed, givenUp>>

\* initWithDatabase, and the connection is put in its place.
Open(s) ==
  /\ pc[s] = "opening"
  /\ databases' = [databases EXCEPT ![JobOf[s].db] = s]
  /\ connection' = [connection EXCEPT ![s] = s]
  /\ pc' = [pc EXCEPT ![s] = "ready"]
  /\ UNCHANGED <<at, desc, message, semaphore, errmsg, sqlite, executed, givenUp>>

-----------------------------------------------------------------------------
(***************************************************************************)
(* dbAccess.                                                               *)
(***************************************************************************)

\* (Faulty variants of NextAt.)  A script that goes on after a failed change, and
\* one that steps over every second.
NextAtRegardless(s, d) == at[s] + 1
NextAtTwice(s, d) == at[s] + 2

\* Where a script is after a result with the description d: at its end if a change
\* has failed.  The result of Begin is not looked at.
NextAt(s, d) ==
  IF at[s] > 0 /\ d # "not an error" THEN NumStatements(s) + 1 ELSE at[s] + 1

\* (Faulty variant of Release.)  An error leaves the semaphore taken.
ReleaseAfterSuccess(s, d) == IF semaphore = s /\ d = "not an error" THEN None ELSE semaphore

Release(s, d) == IF semaphore = s THEN None ELSE semaphore

\* dbAccess returns with the description d; the result of Rollback is dropped.
Return(s, d) ==
  LET more == IsScript(s) /\ ~AtEnd(s)
  IN  /\ desc' = [desc EXCEPT ![s] = IF AtEnd(s) /\ Statement(s) = Rollback THEN @ ELSE d]
      /\ at' = [at EXCEPT ![s] = IF more THEN NextAt(s, d) ELSE @]
      /\ pc' = [pc EXCEPT ![s] = IF more THEN "ready" ELSE "done"]
      /\ semaphore' = Release(s, d)

\* getData or setData is called and the statement prepared.  It cannot be if the
\* statement is wrong, and may not be if SQLite must read the schema of a locked
\* file for it.
Prepare(s) ==
  LET q == Statement(s)
      c == connection[s]
      says(m) == errmsg' = [errmsg EXCEPT ![c] = m]
      becomes(p) == pc' = [pc EXCEPT ![s] = p]
  IN  /\ pc[s] = "ready"
      /\ q = Select \/ semaphore = None
      /\ semaphore' = IF q = Select THEN semaphore ELSE s
      /\ \/ q \notin Wrong /\ says("not an error") /\ becomes("prepared")
         \/ /\ q \in Wrong \/ (q \in Changes \cup {Select} /\ Locked(c))
            /\ says("an error") /\ becomes("failed")
      /\ executed' = executed \ {s}
      /\ UNCHANGED <<databases, connection, at, desc, message, sqlite, givenUp>>

\* errorDescription is set to the message of the connection, which should be "not
\* an error" since the statement has been prepared.
Describe(s) ==
  /\ pc[s] = "prepared"
  /\ message' = [message EXCEPT ![s] = errmsg[connection[s]]]
  /\ pc' = [pc EXCEPT ![s] = "described"]
  /\ UNCHANGED <<databases, connection, at, desc, semaphore, errmsg, sqlite, executed, givenUp>>

\* sqlite3_step.  It leaves a message that is not "not an error" even when all is
\* well: the code of a row or of the end is a message too.
Step(s) ==
  LET q == Statement(s)
      c == connection[s]
  IN  /\ pc[s] = "described"
      /\ ~Busy(q, c)
      /\ errmsg' = [errmsg EXCEPT ![c] = "another"]
      /\ IF Refused(q, c)
           THEN /\ pc' = [pc EXCEPT ![s] = "failed"]
                /\ UNCHANGED <<at, desc, semaphore, sqlite, executed>>
           ELSE /\ Execute(q, c)
                /\ executed' = executed \cup {s}
                /\ IF q = Select
                     THEN pc' = [pc EXCEPT ![s] = "reading"] /\ UNCHANGED <<at, desc, semaphore>>
                     ELSE Return(s, message[s])
      /\ UNCHANGED <<databases, connection, message, givenUp>>

\* The statement has been busy as often as it is tried.
GiveUp(s) ==
  /\ pc[s] = "described"
  /\ Busy(Statement(s), connection[s])
  /\ errmsg' = [errmsg EXCEPT ![connection[s]] = "another"]
  /\ Return(s, message[s])
  /\ givenUp' = IF Statement(s) = Rollback THEN givenUp \cup {s} ELSE givenUp
  /\ UNCHANGED <<databases, connection, message, sqlite, executed>>

\* The rows of a query end.
EndOfRows(s) ==
  /\ pc[s] = "reading"
  /\ errmsg' = [errmsg EXCEPT ![connection[s]] = "another"]
  /\ Return(s, message[s])
  /\ UNCHANGED <<databases, connection, message, sqlite, executed, givenUp>>

\* errorDescription is set to the message of the connection, which should be that
\* of the failure.
DescribeFailure(s) ==
  /\ pc[s] = "failed"
  /\ Return(s, errmsg[connection[s]])
  /\ UNCHANGED <<databases, connection, message, errmsg, sqlite, executed, givenUp>>

-----------------------------------------------------------------------------
Run(s) ==
  \/ Look(s) \/ Open(s)
  \/ Prepare(s) \/ Describe(s) \/ Step(s) \/ GiveUp(s) \/ EndOfRows(s) \/ DescribeFailure(s)

Next == \E s \in Stacks : Run(s)

Spec == Init /\ [][Next]_vars

\* Fairness: as long as some thread can run, one does.
FairSpec == Spec /\ WF_vars(Next)

-----------------------------------------------------------------------------
(***************************************************************************)
(* Properties.                                                             *)
(***************************************************************************)
TypeOK ==
  /\ databases \in [Databases -> Stacks \cup {None}]
  /\ connection \in [Stacks -> Stacks \cup {None}]
  /\ pc \in [Stacks -> {"new", "done"} \cup Running]
  /\ \A s \in Stacks : at[s] \in 0 .. NumStatements(s) + 1
  /\ {desc, message} \subseteq [Stacks -> {"nil", "not an error", "an error", "another"}]
  /\ semaphore \in Stacks \cup {None}
  /\ errmsg \in [Stacks -> {"not an error", "an error", "another"}]
  /\ owner \in Stacks \cup {None}
  /\ pending \subseteq Changes
  /\ file \subseteq Changes
  /\ executed \subseteq Stacks
  /\ givenUp \subseteq Stacks

\* A script that ran while no other stack did has made all its changes if it
\* answers "not an error", and none otherwise, whatever transaction the page or
\* another database had open when it began, and whatever ran before.
ScriptsAreAtomic ==
  \A s \in Alone :
    IsScript(s) /\ pc[s] = "done" =>
      IF desc[s] = "not an error" THEN ChangesOf(s) \subseteq file
                                  ELSE ChangesOf(s) \cap (file \cup pending) = {}

\* However scripts, changes and queries interleave on however many connections, an
\* open transaction has a script that has still to end it, or is one that the page
\* has begun, or that a script could not roll back because of a query.
EveryTransactionEnds ==
  owner # None =>
    \E s \in Stacks :
      /\ connection[s] = owner
      /\ IF IsScript(s) THEN at[s] > 0 /\ (pc[s] \in Running \/ s \in givenUp)
                        ELSE Statement(s) = Begin /\ s \in executed

\* Every stack the page asks for answers, though all wait for one semaphore and for
\* each other's locks.
StacksAnswer == <>(\A s \in Stacks : pc[s] = "done")

\* "The rollback function unwinds any successful transact calls that happen between
\* the beginTransaction and commit": when a page has begun a transaction, made
\* changes and rolled back, all of it answered with "not an error", the changes are
\* not in the file.
RollbackUnwinds ==
  \A s \in Stacks :
    pc[s] = "done" /\ Statement(s) = Rollback /\ ~IsScript(s)
      /\ (\A b \in Before[s] \cup {s} : desc[b] = "not an error")
    => \A b \in Before[s] : ChangesOf(b) \cap file = {}
=============================================================================
