------------------------------ MODULE SQLitePager ------------------------------
(***************************************************************************)
(* The pager of the SQLite that the iOS library is built with (3.7.9): how *)
(* the connections of one process share a database file, commit to it and  *)
(* roll back, and recover it after a failure.                              *)
(*                                                                         *)
(* The journal is deleted at the end of a transaction (journal_mode=delete)*)
(* and the files are synced (synchronous=full), the defaults, which        *)
(* SQLiteDataAccess leaves as they are; it sets no busy handler either, so *)
(* that a lock that cannot be had is SQLITE_BUSY at once.                  *)
(*                                                                         *)
(* An action is what a connection does to a file or to the locks in one    *)
(* call to the operating system.  The pages of the file are numbered from  *)
(* 1, and page 1 is its change counter; any other page is the number of    *)
(* the transaction that wrote it.  Savepoints, attached databases, WAL and *)
(* auto-vacuum are left out: nothing in the program asks for them.         *)
(***************************************************************************)
EXTENDS Integers, Sequences, FiniteSetsExt

CONSTANTS
  Conns,        \* the connections to the file
  MaxPages,     \* bound on the size of the file
  InitialSizes, \* the sizes the file may have at first
  MaxTxns,      \* bound on the transactions begun
  MaxFaults,    \* bound on the failures
  Absent,       \* a page that is not there
  Torn,         \* a page of which only a part has been written
  NoJournal     \* no journal file

ASSUME ConstantsAssumption ==
  /\ MaxPages \in Nat \ {0}
  /\ InitialSizes \subseteq 0 .. MaxPages
  /\ MaxTxns \in Nat /\ MaxFaults \in Nat
  /\ Absent \notin Int /\ Torn \notin Int /\ Absent # Torn

VARIABLES
  db,       \* the pages of the database file, as the operating system has them
  disk,     \* the pages as they are on the disk
  unsynced, \* the pages written since the file was last synced
  journal,  \* the journal file, as the operating system has it
  stable,   \* what of the journal is sure to be on the disk
  gone,     \* a journal that has been deleted, but may still be on the disk
  lock,     \* eFileLock of each connection
  pc,       \* what each connection does next
  cache,    \* the pages in the cache of each connection
  vers,     \* dbFileVers of each connection: the counter it has last seen
  dirty,    \* the pages the writer has changed and not written yet
  eState,   \* the state of the writer's pager
  task,     \* what the connection that has the file to itself is doing
  played,   \* the journal's records it has played back
  txns,     \* the transactions begun
  faults    \* the failures so far

files  == <<db, disk, unsynced, journal, stable, gone>>
writer == <<dirty, eState, task, played>>

vars == <<files, lock, pc, cache, vers, writer, txns, faults>>

NoLock    == 0
Shared    == 1
Reserved  == 2
Pending   == 3
Exclusive == 4

Pages == 1 .. MaxPages

\* What a page can be: at a commit the counter goes up by one, or by two if page 1
\* has been spilled.
Contents == 0 .. 2 * MaxTxns

NoPages == [p \in Pages |-> Absent]

Largest(S) == Max(S \cup {0})

\* The size of a file.
Size(f) == Largest({p \in Pages : f[p] # Absent})

-----------------------------------------------------------------------------
(***************************************************************************)
(* The journal: the size the file had, the records of the pages the        *)
(* transaction changes, how many of them its headers count, and whether    *)
(* the first header has its magic number, without which it is not hot.     *)
(***************************************************************************)
Hot(j) == j # NoJournal /\ j.magic

\* The records a playback restores: it stops where they end.
Restorable(j) == IF Hot(j) THEN Min({j.counted, Len(j.recs)}) ELSE 0

InJournal(p) == \E n \in 1 .. Len(journal.recs) : journal.recs[n].page = p

\* The number of the record of page p.
RecordOf(p) == CHOOSE n \in 1 .. Len(journal.recs) : journal.recs[n].page = p

Truncated(f, size) == [p \in Pages |-> IF p > size THEN Absent ELSE f[p]]

\* What the database is, whatever the state of its files: what is left after the
\* journal has been played back.
Recovered(f, j) ==
  IF ~Hot(j) THEN f
  ELSE [p \in Pages |->
         LET recs == {n \in 1 .. Restorable(j) : j.recs[n].page = p}
         IN  IF recs # {} THEN j.recs[Min(recs)].content ELSE Truncated(f, j.size)[p]]

\* Nothing of a journal is sure to be on the disk.
Unstable == [entry |-> FALSE, recs |-> 0, counted |-> 0, magic |-> FALSE]

AllOf(j) == [entry |-> TRUE, recs |-> Len(j.recs), counted |-> j.counted, magic |-> j.magic]

-----------------------------------------------------------------------------
(***************************************************************************)
(* pc.  "open": no lock; "reader": a read transaction; "writing": a write  *)
(* transaction that is open.  Within sqlite3PagerSharedLock: "shared",     *)
(* "exists", "unreserved", "hot", "exclusive", "validate".  To commit or   *)
(* to spill: "upgrade", "sync", "header", "syncheader", "write".  To play  *)
(* a journal back: "truncate", "replay".  At the end: "dbsync", "unjournal"*)
(* and "downgrade".  "busy": all locks are to be let go of.                *)
(***************************************************************************)
Steps == {"open", "reader", "writing", "shared", "exists", "unreserved", "hot",
          "exclusive", "validate", "upgrade", "sync", "header", "syncheader", "write",
          "truncate", "replay", "dbsync", "unjournal", "downgrade", "busy"}

FileOfSize(n) == [p \in Pages |-> IF p <= n THEN 0 ELSE Absent]

Init ==
  /\ \E n \in InitialSizes : db = FileOfSize(n)
  /\ disk = db
  /\ unsynced = {}
  /\ journal = NoJournal
  /\ stable = Unstable
  /\ gone = NoJournal
  /\ lock = [c \in Conns |-> NoLock]
  /\ pc = [c \in Conns |-> "open"]
  /\ cache = [c \in Conns |-> NoPages]
  /\ vers = [c \in Conns |-> 0]
  /\ dirty = {}
  /\ eState = "READER"
  /\ task = "none"
  /\ played = 0
  /\ txns = 0
  /\ faults = 0

Goto(c, step) == pc' = [pc EXCEPT ![c] = step]

SetLock(c, level) == lock' = [lock EXCEPT ![c] = level]

SetCache(c, pages) == cache' = [cache EXCEPT ![c] = pages]

Others(c) == Conns \ {c}

\* No other connection has more than a shared lock.
MayReserve(c) == \A d \in Others(c) : lock[d] <= Shared

\* (Faulty variant of Obtained.)  Shared locks do not count.
ObtainedRegardless(c) == Exclusive

\* unixLock for EXCLUSIVE, when no other connection has more than a shared lock:
\* shared locks leave PENDING.
Obtained(c) == IF \A d \in Others(c) : lock[d] = NoLock THEN Exclusive ELSE Pending

-----------------------------------------------------------------------------
(***************************************************************************)
(* sqlite3PagerSharedLock.                                                 *)
(***************************************************************************)

AcquireShared(c) ==
  /\ pc[c] = "open"
  /\ \A d \in Others(c) : lock[d] < Pending
  /\ SetLock(c, Shared)
  /\ Goto(c, "shared")
  /\ UNCHANGED <<files, cache, vers, writer, txns, faults>>

\* hasHotJournal: is there a journal?
JournalExists(c) ==
  /\ pc[c] = "shared"
  /\ Goto(c, IF journal = NoJournal THEN "validate" ELSE "exists")
  /\ UNCHANGED <<files, lock, cache, vers, writer, txns, faults>>

\* hasHotJournal: is it the journal of a connection that has a reserved lock?  A
\* pending lock counts as one.
CheckReserved(c) ==
  /\ pc[c] = "exists"
  /\ Goto(c, IF MayReserve(c) THEN "unreserved" ELSE "validate")
  /\ UNCHANGED <<files, lock, cache, vers, writer, txns, faults>>

\* hasHotJournal: the journal of an empty file is deleted; another is hot if it has
\* a header, or cannot be opened any more.
CheckHeader(c) ==
  /\ pc[c] = "unreserved"
  /\ IF db = NoPages
       THEN /\ Goto(c, "validate")
            /\ journal' = IF MayReserve(c) THEN NoJournal ELSE journal
            /\ stable' = IF MayReserve(c) THEN Unstable ELSE stable
            /\ gone' = IF MayReserve(c) /\ stable.entry THEN journal ELSE gone
       ELSE /\ Goto(c, IF journal = NoJournal \/ Hot(journal) THEN "hot" ELSE "validate")
            /\ UNCHANGED <<journal, stable, gone>>
  /\ UNCHANGED <<db, disk, unsynced, lock, cache, vers, writer, txns, faults>>

\* The journal is to be played back: the exclusive lock, without the reserved lock.
LockForRecovery(c) ==
  /\ pc[c] = "hot"
  /\ IF MayReserve(c)
       THEN /\ SetLock(c, Obtained(c))
            /\ Goto(c, IF Obtained(c) = Exclusive THEN "exclusive" ELSE "busy")
       ELSE Goto(c, "busy") /\ UNCHANGED lock
  /\ UNCHANGED <<files, cache, vers, writer, txns, faults>>

\* pagerSyncHotJournal, if the journal is still there.
OpenHotJournal(c) ==
  /\ pc[c] = "exclusive"
  /\ IF journal = NoJournal
       THEN /\ SetLock(c, Shared)
            /\ Goto(c, "validate")
            /\ UNCHANGED <<stable, cache, task, played>>
       ELSE /\ stable' = AllOf(journal)
            /\ SetCache(c, IF Restorable(journal) > 0 THEN NoPages ELSE cache[c])
            /\ task' = "recovery"
            /\ played' = 0
            /\ Goto(c, IF Hot(journal) THEN "truncate" ELSE "dbsync")
            /\ UNCHANGED lock
  /\ UNCHANGED <<db, disk, unsynced, journal, gone, vers, dirty, eState, txns, faults>>

\* The counter in the file is the one the cache has been read with.
Valid(c) == vers[c] = IF db[1] = Absent THEN 0 ELSE db[1]

\* The cache is kept if it is valid, and page 1 is read (lockBtree).
Validate(c) ==
  /\ pc[c] = "validate"
  /\ LET kept == IF Valid(c) THEN cache[c] ELSE NoPages
     IN  SetCache(c, [kept EXCEPT ![1] = IF @ = Absent THEN db[1] ELSE @])
  /\ vers' = [vers EXCEPT ![c] = IF db[1] \in Contents THEN db[1] ELSE @]
  /\ Goto(c, "reader")
  /\ UNCHANGED <<files, lock, writer, txns, faults>>

\* pager_unlock, after a lock that could not be had, an error, or a read transaction.
LetGo(c) ==
  /\ pc[c] \in {"busy", "reader"}
  /\ SetLock(c, NoLock)
  /\ Goto(c, "open")
  /\ UNCHANGED <<files, cache, vers, writer, txns, faults>>

\* sqlite3PagerClose: the cache goes with the connection.
Close(c) ==
  /\ pc[c] = "open"
  /\ cache[c] # NoPages
  /\ SetCache(c, NoPages)
  /\ vers' = [vers EXCEPT ![c] = 0]
  /\ UNCHANGED <<files, lock, pc, writer, txns, faults>>

-----------------------------------------------------------------------------
(***************************************************************************)
(* Reading and writing.                                                    *)
(***************************************************************************)

\* The content of a page, for the statements of a connection.
PageOf(c, p) == IF cache[c][p] # Absent THEN cache[c][p] ELSE db[p]

\* sqlite3PagerAcquire, of a page that is not in the cache.
Read(c, p) ==
  /\ pc[c] = "reader"
  /\ cache[c][p] = Absent /\ db[p] # Absent
  /\ SetCache(c, [cache[c] EXCEPT ![p] = db[p]])
  /\ UNCHANGED <<files, lock, pc, vers, writer, txns, faults>>

\* sqlite3PagerBegin, for a statement.
Begin(c) ==
  /\ pc[c] = "reader"
  /\ MayReserve(c)
  /\ txns < MaxTxns
  /\ txns' = txns + 1
  /\ SetLock(c, Reserved)
  /\ Goto(c, "writing")
  /\ eState' = "LOCKED"
  /\ UNCHANGED <<files, cache, vers, dirty, task, played, faults>>

\* sqlite3PagerBegin, for BEGIN EXCLUSIVE.
BeginExclusive(c) ==
  /\ pc[c] = "reader"
  /\ MayReserve(c)
  /\ txns < MaxTxns
  /\ txns' = txns + 1
  /\ SetLock(c, Obtained(c))
  /\ IF Obtained(c) = Exclusive THEN Goto(c, "writing") /\ eState' = "LOCKED"
                                ELSE Goto(c, "busy") /\ UNCHANGED eState
  /\ UNCHANGED <<files, cache, vers, dirty, task, played, faults>>

\* dbSize: the size of the database, as the transaction has made it.
DbSize == Largest({p \in Pages : db[p] # Absent} \cup dirty)

\* The journal when page p of connection c has been journalled, if it has to be.
Journalled(c, p) ==
  LET j == IF eState = "LOCKED"
             THEN [size |-> Size(db), recs |-> <<>>, counted |-> 0, magic |-> FALSE]
             ELSE journal
  IN  IF p <= j.size /\ \A n \in 1 .. Len(j.recs) : j.recs[n].page # p
        THEN [j EXCEPT !.recs = Append(@, [page |-> p, content |-> PageOf(c, p)])]
        ELSE j

\* pager_write: the journal is opened, the page is journalled, then changed.  Page 1
\* is changed at the commit, but it is also the first page of a new file.
Write(c, p) ==
  /\ pc[c] = "writing"
  /\ p <= DbSize + 1 /\ (p = 1 => DbSize = 0)
  /\ journal' = Journalled(c, p)
  /\ stable' = IF eState = "LOCKED" THEN Unstable ELSE stable
  /\ eState' = IF eState = "LOCKED" THEN "CACHEMOD" ELSE eState
  /\ SetCache(c, [cache[c] EXCEPT ![p] = IF p = 1 THEN vers[c] + 1 ELSE txns])
  /\ dirty' = dirty \cup {p}
  /\ UNCHANGED <<db, disk, unsynced, gone, lock, pc, vers, task, played, txns, faults>>

-----------------------------------------------------------------------------
(***************************************************************************)
(* sqlite3PagerCommitPhaseOne and pagerStress.                             *)
(***************************************************************************)

\* (Faulty variants of NextVersion.)  The counter stays; a commit that is tried again
\* counts again.
SameVersion(c) == vers[c]
NextVersionOfCache(c) == IF cache[c][1] = Absent THEN 1 ELSE cache[c][1] + 1

\* pager_write_changecounter.
NextVersion(c) == vers[c] + 1

\* The change counter goes up (pager_incr_changecounter), and with it page 1.
Commit(c) ==
  /\ pc[c] = "writing"
  /\ eState # "LOCKED"
  /\ journal' = Journalled(c, 1)
  /\ SetCache(c, [cache[c] EXCEPT ![1] = NextVersion(c)])
  /\ dirty' = dirty \cup {1}
  /\ task' = "commit"
  /\ Goto(c, "upgrade")
  /\ UNCHANGED <<db, disk, unsynced, stable, gone, lock, vers, eState, played, txns, faults>>

\* The cache is full: a page must be written, and the journal synced if the record of
\* the page has not been.
Spill(c, p) ==
  /\ pc[c] = "writing"
  /\ p \in dirty
  /\ task' = "spill"
  /\ Goto(c, IF eState = "DBMOD" /\ (InJournal(p) => RecordOf(p) <= stable.counted)
               THEN "write" ELSE "upgrade")
  /\ UNCHANGED <<files, lock, cache, vers, dirty, eState, played, txns, faults>>

\* sqlite3PagerExclusiveLock.
Upgrade(c) ==
  /\ pc[c] = "upgrade"
  /\ SetLock(c, Obtained(c))
  /\ Goto(c, IF Obtained(c) = Exclusive THEN "sync" ELSE "writing")
  /\ UNCHANGED <<files, cache, vers, writer, txns, faults>>

\* syncJournal: the records are synced, and with the first the directory.
SyncRecords(c) ==
  /\ pc[c] = "sync"
  /\ stable' = AllOf(journal)
  /\ gone' = NoJournal
  /\ Goto(c, "header")
  /\ UNCHANGED <<db, disk, unsynced, journal, lock, cache, vers, writer, txns, faults>>

\* syncJournal: the header says how many records there are.
WriteHeader(c) ==
  /\ pc[c] = "header"
  /\ journal' = [journal EXCEPT !.counted = Len(journal.recs), !.magic = TRUE]
  /\ Goto(c, "syncheader")
  /\ UNCHANGED <<db, disk, unsynced, stable, gone, lock, cache, vers, writer, txns, faults>>

\* (Faulty variant of SyncHeader.)
SyncNoHeader(c) ==
  /\ pc[c] = "syncheader"
  /\ eState' = "DBMOD"
  /\ Goto(c, "write")
  /\ UNCHANGED <<files, lock, cache, vers, dirty, task, played, txns, faults>>

SyncHeader(c) ==
  /\ pc[c] = "syncheader"
  /\ stable' = AllOf(journal)
  /\ eState' = "DBMOD"
  /\ Goto(c, "write")
  /\ UNCHANGED <<db, disk, unsynced, journal, gone, lock, cache, vers, dirty, task, played,
                 txns, faults>>

\* Page p of connection c is written to the file (pager_write_pagelist).
PutPage(c, p) ==
  LET content == IF p = 1 THEN NextVersion(c) ELSE cache[c][p]
  IN  /\ db' = [db EXCEPT ![p] = content]
      /\ unsynced' = unsynced \cup {p}
      /\ SetCache(c, [cache[c] EXCEPT ![p] = content])
      /\ vers' = [vers EXCEPT ![c] = IF p = 1 THEN content ELSE @]
      /\ dirty' = dirty \ {p}

\* A spill writes one page, of those whose records are synced; a commit all of them
\* by their numbers.
WritePage(c, p) ==
  /\ pc[c] = "write"
  /\ p \in dirty
  /\ IF task = "spill"
       THEN InJournal(p) => RecordOf(p) <= stable.counted
       ELSE p = Min(dirty)
  /\ PutPage(c, p)
  /\ Goto(c, CASE task = "spill" -> "writing"
               [] task # "spill" /\ dirty # {p} -> "write"
               [] OTHER -> "dbsync")
  /\ UNCHANGED <<disk, journal, stable, gone, lock, eState, task, played, txns, faults>>

-----------------------------------------------------------------------------
(***************************************************************************)
(* sqlite3PagerRollback and pager_playback.                                *)
(***************************************************************************)

\* The cache with the pages restored that the journal has, and without those that
\* the transaction has appended.
Unchanged(c) ==
  [p \in Pages |-> IF cache[c][p] = Absent \/ p > journal.size THEN Absent
                   ELSE IF InJournal(p) THEN journal.recs[RecordOf(p)].content
                   ELSE cache[c][p]]

\* A rollback restores the cache, and the file if it has been written to.
Undo(c) ==
  /\ task' = "rollback"
  /\ played' = 0
  /\ dirty' = {}
  /\ IF eState = "LOCKED"
       THEN Goto(c, "downgrade") /\ UNCHANGED <<cache, vers>>
       ELSE /\ SetCache(c, Unchanged(c))
            /\ vers' = [vers EXCEPT ![c] = IF Unchanged(c)[1] = Absent THEN @ ELSE Unchanged(c)[1]]
            /\ Goto(c, IF eState = "DBMOD" THEN "truncate" ELSE "unjournal")
  /\ UNCHANGED <<files, lock, eState, txns>>

Rollback(c) ==
  /\ pc[c] = "writing"
  /\ Undo(c)
  /\ UNCHANGED faults

\* The file has its old size again.
Truncate(c) ==
  /\ pc[c] = "truncate"
  /\ db' = Truncated(db, journal.size)
  /\ unsynced' = unsynced \cup {p \in Pages : db[p] # Absent /\ p > journal.size}
  /\ Goto(c, "replay")
  /\ UNCHANGED <<disk, journal, stable, gone, lock, cache, vers, writer, txns, faults>>

\* (Faulty variant of ToRestore.)
ToRestoreUnsynced == Restorable(journal)

\* The number of records to write to the file: a rollback leaves out those that have
\* not been synced, whose pages have not been written either.
ToRestore == IF task = "recovery" THEN Restorable(journal) ELSE stable.counted

\* pager_playback_one_page.
Replay(c) ==
  /\ pc[c] = "replay"
  /\ IF played < ToRestore
       THEN LET r == journal.recs[played + 1]
            IN  /\ db' = [db EXCEPT ![r.page] = r.content]
                /\ unsynced' = unsynced \cup {r.page}
                /\ played' = played + 1
                /\ UNCHANGED pc
       ELSE /\ Goto(c, "dbsync")
            /\ UNCHANGED <<db, unsynced, played>>
  /\ UNCHANGED <<disk, journal, stable, gone, lock, cache, vers, dirty, eState, task, txns, faults>>

-----------------------------------------------------------------------------
(***************************************************************************)
(* The end of a commit, a rollback or a recovery (pager_end_transaction).  *)
(***************************************************************************)

SyncDatabase(c) ==
  /\ pc[c] = "dbsync"
  /\ disk' = db
  /\ unsynced' = {}
  /\ Goto(c, "unjournal")
  /\ UNCHANGED <<db, journal, stable, gone, lock, cache, vers, writer, txns, faults>>

\* The journal is deleted, which commits the transaction or ends the rollback.  The
\* directory is not synced.
DeleteJournal(c) ==
  /\ pc[c] = "unjournal"
  /\ journal' = NoJournal
  /\ gone' = IF stable.entry THEN journal ELSE gone
  /\ stable' = Unstable
  /\ Goto(c, "downgrade")
  /\ UNCHANGED <<db, disk, unsynced, lock, cache, vers, writer, txns, faults>>

\* The lock goes back to SHARED.
Downgrade(c) ==
  /\ pc[c] = "downgrade"
  /\ SetLock(c, Shared)
  /\ Goto(c, IF task = "recovery" THEN "validate" ELSE "reader")
  /\ eState' = "READER"
  /\ task' = "none"
  /\ played' = 0
  /\ UNCHANGED <<files, cache, vers, dirty, txns, faults>>

-----------------------------------------------------------------------------
(***************************************************************************)
(* Failures.                                                               *)
(***************************************************************************)
Fault == faults < MaxFaults /\ faults' = faults + 1

\* (Faulty variant of Abandon.)  The cache survives the error.
AbandonFilesOnly(c) ==
  /\ UNCHANGED <<cache, vers, files, txns>>
  /\ dirty' = {} /\ eState' = "READER" /\ task' = "none" /\ played' = 0
  /\ SetLock(c, IF pc[c] = "unjournal" THEN Shared ELSE lock[c])
  /\ Goto(c, "busy")

\* pager_error: the cache cannot be trusted any more, and the journal is left to
\* whoever comes next.
Abandon(c) ==
  /\ SetCache(c, NoPages)
  /\ dirty' = {} /\ eState' = "READER" /\ task' = "none" /\ played' = 0
  /\ SetLock(c, IF pc[c] = "unjournal" THEN Shared ELSE lock[c])
  /\ Goto(c, "busy")
  /\ UNCHANGED <<files, vers, txns>>

\* The operating system cannot write, sync or delete a file.  A commit is rolled back,
\* if the journal is still there.
IOError(c) ==
  /\ Fault
  /\ \/ /\ pc[c] \in {"sync", "header", "syncheader", "write", "dbsync"}
        /\ task = "commit"
        /\ Undo(c)
     \/ /\ pc[c] \in {"sync", "header", "syncheader", "write", "dbsync", "truncate", "replay"}
        /\ task # "commit"
        /\ Abandon(c)
     \/ /\ pc[c] = "unjournal"
        /\ Abandon(c)

\* The process is gone, and with it the locks and the caches.
Restart ==
  /\ lock' = [c \in Conns |-> NoLock]
  /\ pc' = [c \in Conns |-> "open"]
  /\ cache' = [c \in Conns |-> NoPages]
  /\ vers' = [c \in Conns |-> 0]
  /\ dirty' = {}
  /\ eState' = "READER"
  /\ task' = "none"
  /\ played' = 0
  /\ UNCHANGED txns

\* The system ends the process: the files are as it left them.
Kill ==
  /\ Fault
  /\ Restart
  /\ UNCHANGED files

\* The files a failure of the power may leave.  A page that has not been synced may be
\* as it was or as it is, or neither.
SurvivingPages ==
  {[p \in Pages |-> CASE p \in new -> db[p] [] p \in torn \ new -> Torn [] OTHER -> disk[p]] :
     new \in SUBSET unsynced, torn \in SUBSET unsynced}

\* Of the journal, there are the records up to some number, and either header.
SurvivorsOf(j) ==
  {[size |-> j.size, recs |-> SubSeq(j.recs, 1, n), counted |-> h.counted, magic |-> h.magic] :
     n \in stable.recs .. Len(j.recs),
     h \in {[counted |-> stable.counted, magic |-> stable.magic],
            [counted |-> j.counted, magic |-> j.magic]}}

SurvivingJournals ==
  IF journal = NoJournal THEN {gone, NoJournal}
  ELSE SurvivorsOf(journal) \cup IF stable.entry THEN {} ELSE {gone, NoJournal}

PowerFailure ==
  /\ Fault
  /\ Restart
  /\ db' \in SurvivingPages
  /\ disk' = db'
  /\ unsynced' = {}
  /\ journal' \in SurvivingJournals
  /\ stable' = IF journal' = NoJournal THEN Unstable ELSE AllOf(journal')
  /\ gone' = NoJournal

-----------------------------------------------------------------------------
Opening(c) ==
  \/ AcquireShared(c) \/ JournalExists(c) \/ CheckHeader(c) \/ LockForRecovery(c)
  \/ OpenHotJournal(c) \/ Validate(c) \/ LetGo(c) \/ Close(c)

Working(c) ==
  \/ Begin(c) \/ BeginExclusive(c) \/ Commit(c) \/ Rollback(c)
  \/ \E p \in Pages : Read(c, p) \/ Write(c, p) \/ Spill(c, p)

Committing(c) ==
  \/ Upgrade(c) \/ SyncRecords(c) \/ WriteHeader(c) \/ SyncHeader(c)
  \/ \E p \in Pages : WritePage(c, p)

Ending(c) ==
  Truncate(c) \/ Replay(c) \/ SyncDatabase(c) \/ DeleteJournal(c) \/ Downgrade(c)

AllButCheckReserved ==
  \/ \E c \in Conns : Opening(c) \/ Working(c) \/ Committing(c) \/ Ending(c) \/ IOError(c)
  \/ Kill \/ PowerFailure

Next == AllButCheckReserved \/ \E c \in Conns : CheckReserved(c)

Spec == Init /\ [][Next]_vars

\* A connection is about to take the lock of another that tries to recover the database
\* for that of a transaction in progress, and so the hot journal for its journal.
AboutToMistake(c) == ~MayReserve(c) /\ Hot(journal)

\* What happens as long as no connection does.
CarefulNext ==
  AllButCheckReserved \/ \E c \in Conns : ~AboutToMistake(c) /\ CheckReserved(c)

CarefulSpec == Init /\ [][CarefulNext]_vars

-----------------------------------------------------------------------------
(***************************************************************************)
(* Properties.                                                             *)
(***************************************************************************)
Journals ==
  [size : 0 .. MaxPages,
   recs : Seq([page : Pages, content : Contents]),
   counted : 0 .. MaxPages,
   magic : BOOLEAN]

ASSUME NoJournalAssumption == NoJournal \notin Journals

TypeOK ==
  /\ db \in [Pages -> Contents \cup {Absent, Torn}]
  /\ disk \in [Pages -> Contents \cup {Absent, Torn}]
  /\ unsynced \subseteq Pages
  /\ journal \in Journals \cup {NoJournal}
  /\ stable \in [entry : BOOLEAN, recs : 0 .. MaxPages, counted : 0 .. MaxPages, magic : BOOLEAN]
  /\ gone \in Journals \cup {NoJournal}
  /\ lock \in [Conns -> NoLock .. Exclusive]
  /\ pc \in [Conns -> Steps]
  /\ cache \in [Conns -> [Pages -> Contents \cup {Absent}]]
  /\ vers \in [Conns -> Contents]
  /\ dirty \subseteq Pages
  /\ eState \in {"READER", "LOCKED", "CACHEMOD", "DBMOD"}
  /\ task \in {"none", "commit", "spill", "rollback", "recovery"}
  /\ played \in 0 .. MaxPages
  /\ txns \in 0 .. MaxTxns
  /\ faults \in 0 .. MaxFaults

\* The steps that sync the journal of pages to be written, write the file, or play a
\* journal back.
Rewriting == {"exclusive", "sync", "header", "syncheader", "write", "truncate", "replay",
              "dbsync"}

\* Locks are taken in steps and by many paths (a commit, a full cache, BEGIN EXCLUSIVE,
\* a recovery, whatever fails on the way): whoever rewrites the file has it alone, and
\* nobody is in the middle of looking for a journal or of reading.
WritersAreAlone ==
  \A c \in Conns : pc[c] \in Rewriting =>
    lock[c] = Exclusive /\ \A d \in Others(c) : lock[d] = NoLock /\ pc[d] = "open"

Image == Recovered(db, journal)

\* A read transaction sees the last committed image and nothing else, whether a page
\* comes from the file or from a cache kept since an earlier transaction, while other
\* connections commit, spill, roll back and recover.
ReadersSeeTheImage ==
  \A c \in Conns : pc[c] = "reader" => \A p \in Pages : PageOf(c, p) = Image[p]

\* The counter is enough to tell whether a cache is out of date: no cache of a
\* connection without a lock has the counter of the image and another content.
VersionTellsContent ==
  \A c \in Conns :
    pc[c] = "open" /\ cache[c][1] # Absent /\ vers[c] = Image[1] =>
      \A p \in Pages : cache[c][p] # Absent => cache[c][p] = Image[p]

\* Whatever fails, and when: the file has the image of the last committed transaction
\* as a whole.  Only a failure of the power may bring the image before that back, and
\* only until the next transaction has synced its journal.
S == INSTANCE Store WITH
  Images <- [Pages -> Contents \cup {Absent}],
  image  <- Image,
  before <- IF gone = NoJournal THEN Image ELSE Recovered(db, gone)

StoreSpec == S!Spec

\* "Immediately after obtaining the SHARED lock, the file-system is checked for a
\* hot-journal, which is played back if present": who reads finds none.
HotJournalIsPlayedBack == \A c \in Conns : pc[c] = "reader" => ~Hot(journal)
=============================================================================
