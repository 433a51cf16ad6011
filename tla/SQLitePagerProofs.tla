--------------------------- MODULE SQLitePagerProofs ---------------------------
(***************************************************************************)
(* Proofs about SQLitePager, for any connections and bounds: who rewrites  *)
(* the database file has it alone, whatever fails; and, if the file has a  *)
(* page at first or at most one thing fails, readers see the last commit,  *)
(* the change counter tells which caches are out of date, and the file and *)
(* its journal are a Store.                                                *)
(***************************************************************************)
EXTENDS SQLitePager, FiniteSetTheorems, TLAPS

(***************************************************************************)
(* The invariant: where a connection is says which lock it has, and two    *)
(* locks of different connections exclude each other.                      *)
(***************************************************************************)

Levels == NoLock .. Exclusive

LockTypes ==
  /\ lock \in [Conns -> Levels]
  /\ pc \in [Conns -> Steps]

\* What connection c holds.  The writer that has changed the file keeps its exclusive
\* lock while it goes on with its transaction.
LockOfStep(c) ==
  /\ pc[c] = "open" <=> lock[c] = NoLock
  /\ pc[c] \in {"shared", "exists", "unreserved", "hot", "validate", "reader"} => lock[c] = Shared
  /\ pc[c] \in {"writing", "upgrade", "unjournal", "downgrade"} => lock[c] >= Reserved
  /\ pc[c] \in Rewriting => lock[c] = Exclusive
  /\ pc[c] \in {"writing", "upgrade"} /\ eState = "DBMOD" => lock[c] = Exclusive

\* The locks of two connections.
Apart(c, d) ==
  /\ lock[c] > Shared => lock[d] <= Shared
  /\ lock[c] = Exclusive => lock[d] = NoLock

LockInv ==
  /\ LockTypes
  /\ \A c \in Conns : LockOfStep(c)
  /\ \A c \in Conns : \A d \in Others(c) : Apart(c, d)

USE DEF NoLock, Shared, Reserved, Pending, Exclusive, Levels

\* The lock and the place of one connection change, and the writer's state does not
\* become that of a changed file unless it has the file.
LEMMA OneMoves ==
  ASSUME LockInv, NEW c \in Conns, NEW p \in Steps, NEW l \in Levels,
         pc' = [pc EXCEPT ![c] = p],
         lock' = [lock EXCEPT ![c] = l],
         LockOfStep(c)',
         l > Shared => MayReserve(c),
         l = Exclusive => \A d \in Others(c) : lock[d] = NoLock,
         l # NoLock => \A d \in Others(c) : lock[d] # Exclusive,
         eState' = "DBMOD" => eState = "DBMOD" \/ l = Exclusive
  PROVE  LockInv'
<1>1. LockTypes'
  BY DEF LockInv, LockTypes
<1>2. \A d \in Others(c) : lock'[d] = lock[d] /\ pc'[d] = pc[d]
  BY DEF LockInv, LockTypes, Others
<1>3. lock'[c] = l
  BY DEF LockInv, LockTypes
<1>4. \A d \in Others(c) : LockOfStep(d)'
  <2> TAKE d \in Others(c)
  <2>1. d \in Conns /\ LockOfStep(d)
    BY DEF LockInv, Others
  <2>2. CASE l = Exclusive
    <3>1. lock[d] = NoLock /\ pc[d] = "open"
      BY <2>1, <2>2 DEF LockOfStep
    <3>2. QED
      BY <3>1, <1>2, <2>1 DEF LockOfStep, Rewriting
  <2>3. CASE l # Exclusive
    BY <2>1, <2>3, <1>2 DEF LockOfStep
  <2>4. QED
    BY <2>2, <2>3
<1>5. \A b \in Conns : \A d \in Others(b) : Apart(b, d)'
  <2> TAKE b \in Conns
  <2> TAKE d \in Others(b)
  <2>1. d \in Conns /\ d # b /\ Apart(b, d) /\ lock[b] \in Levels /\ lock[d] \in Levels
    BY DEF LockInv, LockTypes, Others
  <2>2. CASE b = c
    <3>1. lock'[b] = l /\ lock'[d] = lock[d]
      BY <1>2, <1>3, <2>2
    <3>2. QED
      BY <3>1, <2>2, <2>1 DEF Apart, MayReserve
  <2>3. CASE d = c
    <3>1. b \in Others(c)
      BY <2>1, <2>3 DEF Others
    <3>2. lock'[d] = l /\ lock'[b] = lock[b]
      BY <1>2, <1>3, <2>3, <3>1
    <3>3. l > Shared => lock[b] <= Shared
      BY <3>1 DEF MayReserve
    <3>4. QED
      BY <3>1, <3>2, <3>3, <2>1 DEF Apart
  <2>4. CASE b # c /\ d # c
    BY <2>1, <2>4, <1>2 DEF Apart, Others
  <2>5. QED
    BY <2>2, <2>3, <2>4
<1>6. QED
  BY <1>1, <1>4, <1>5 DEF LockInv, Others

\* Nothing changes but the files, the caches, and the writer's state before it has
\* changed the file.
LEMMA NobodyMoves ==
  ASSUME LockInv, UNCHANGED <<pc, lock>>, eState' = "DBMOD" => eState = "DBMOD"
  PROVE  LockInv'
  BY DEF LockInv, LockTypes, LockOfStep, Apart

\* Every connection starts anew.
LEMMA AllRestart ==
  ASSUME Restart
  PROVE  LockInv'
  BY DEF Restart, LockInv, LockTypes, LockOfStep, Apart, Steps, Rewriting, Others

\* The lock that a connection keeps excludes what it has excluded.
LEMMA KeepsApart ==
  ASSUME LockInv, NEW c \in Conns
  PROVE  /\ lock[c] \in Levels
         /\ lock = [lock EXCEPT ![c] = lock[c]]
         /\ lock[c] > Shared => MayReserve(c)
         /\ lock[c] = Exclusive => \A d \in Others(c) : lock[d] = NoLock
         /\ lock[c] # NoLock => \A d \in Others(c) : lock[d] # Exclusive
<1>1. \A d \in Others(c) : d \in Conns /\ c \in Others(d)
  BY DEF Others
<1>2. \A d \in Others(c) : Apart(c, d) /\ Apart(d, c) /\ lock[d] \in Levels /\ lock[c] \in Levels
  BY <1>1 DEF LockInv, LockTypes
<1>3. lock[c] \in Levels /\ lock = [lock EXCEPT ![c] = lock[c]]
  BY DEF LockInv, LockTypes
<1>4. QED
  BY <1>2, <1>3 DEF Apart, MayReserve

\* A connection goes on with the lock it has.
LEMMA Proceeds ==
  ASSUME LockInv, NEW c \in Conns, NEW p \in Steps,
         Goto(c, p), UNCHANGED lock,
         pc[c] # "open", p # "open",
         p \in {"shared", "exists", "unreserved", "hot", "validate", "reader"} => lock[c] = Shared,
         p \in {"writing", "upgrade", "unjournal", "downgrade"} => lock[c] >= Reserved,
         p \in Rewriting => lock[c] = Exclusive,
         p \in {"writing", "upgrade"} /\ eState' = "DBMOD" => lock[c] = Exclusive,
         eState' = "DBMOD" => eState = "DBMOD" \/ lock[c] = Exclusive
  PROVE  LockInv'
<1>1. pc' = [pc EXCEPT ![c] = p] /\ lock' = [lock EXCEPT ![c] = lock[c]]
  BY KeepsApart DEF Goto
<1>2. pc'[c] = p /\ lock'[c] = lock[c]
  BY <1>1 DEF LockInv, LockTypes
<1>3. LockOfStep(c)'
  BY <1>2 DEF LockInv, LockOfStep
<1>4. QED
  BY <1>1, <1>3, KeepsApart, OneMoves

\* A connection takes, changes or gives up its lock.
LEMMA Relocks ==
  ASSUME LockInv, NEW c \in Conns, NEW p \in Steps, NEW l \in Levels,
         Goto(c, p), SetLock(c, l),
         p = "open" <=> l = NoLock,
         p \in {"shared", "exists", "unreserved", "hot", "validate", "reader"} => l = Shared,
         p \in {"writing", "upgrade", "unjournal", "downgrade"} => l >= Reserved,
         p \in Rewriting => l = Exclusive,
         p \in {"writing", "upgrade"} /\ eState' = "DBMOD" => l = Exclusive,
         l > Shared => MayReserve(c),
         l = Exclusive => \A d \in Others(c) : lock[d] = NoLock,
         l # NoLock => \A d \in Others(c) : lock[d] # Exclusive,
         eState' = "DBMOD" => eState = "DBMOD" \/ l = Exclusive
  PROVE  LockInv'
<1>1. pc' = [pc EXCEPT ![c] = p] /\ lock' = [lock EXCEPT ![c] = l]
  BY DEF Goto, SetLock
<1>2. pc'[c] = p /\ lock'[c] = l
  BY <1>1 DEF LockInv, LockTypes
<1>3. LockOfStep(c)'
  BY <1>2 DEF LockOfStep
<1>4. QED
  BY <1>1, <1>3, OneMoves

\* unixLock for EXCLUSIVE, by a connection that holds a lock which the others' shared
\* locks do not exclude.
LEMMA ObtainedExcludes ==
  ASSUME LockInv, NEW c \in Conns, MayReserve(c), lock[c] # NoLock
  PROVE  /\ Obtained(c) \in {Pending, Exclusive}
         /\ Obtained(c) = Exclusive <=> \A d \in Others(c) : lock[d] = NoLock
         /\ lock[c] = Exclusive => Obtained(c) = Exclusive
         /\ \A d \in Others(c) : lock[d] # Exclusive
  BY KeepsApart DEF Obtained

-----------------------------------------------------------------------------
(***************************************************************************)
(* The steps.                                                              *)
(***************************************************************************)

LEMMA InitLockInv == Init => LockInv
  BY DEF Init, LockInv, LockTypes, LockOfStep, Apart, Others, Steps, Rewriting

LEMMA OpeningStep ==
  ASSUME LockInv, NEW c \in Conns, Opening(c) \/ CheckReserved(c)
  PROVE  LockInv'
<1>1. LockOfStep(c)
  BY DEF LockInv
<1> USE DEF writer
<1>2. CASE AcquireShared(c)
  BY <1>2, Relocks DEF AcquireShared, Steps, Rewriting
<1>3. CASE JournalExists(c)
  BY <1>1, <1>3, Proceeds DEF JournalExists, LockOfStep, Steps, Rewriting
<1>4. CASE CheckReserved(c)
  BY <1>1, <1>4, Proceeds DEF CheckReserved, LockOfStep, Steps, Rewriting
<1>5. CASE CheckHeader(c)
  BY <1>1, <1>5, Proceeds DEF CheckHeader, LockOfStep, Steps, Rewriting
<1>6. CASE LockForRecovery(c)
  <2>1. lock[c] # NoLock /\ lock[c] = Shared
    BY <1>1, <1>6 DEF LockForRecovery, LockOfStep
  <2>2. CASE MayReserve(c)
    BY <1>6, <2>1, <2>2, ObtainedExcludes, Relocks DEF LockForRecovery, Steps, Rewriting
  <2>3. CASE ~MayReserve(c)
    BY <1>1, <1>6, <2>1, <2>3, Proceeds DEF LockForRecovery, Steps, Rewriting
  <2>4. QED
    BY <2>2, <2>3
<1>7. CASE OpenHotJournal(c)
  <2>1. lock[c] = Exclusive /\ UNCHANGED eState
    BY <1>1, <1>7 DEF OpenHotJournal, LockOfStep, Rewriting
  <2>2. CASE journal = NoJournal
    BY <1>7, <2>1, <2>2, KeepsApart, Relocks DEF OpenHotJournal, Steps, Rewriting
  <2>3. CASE journal # NoJournal
    BY <1>1, <1>7, <2>1, <2>3, Proceeds DEF OpenHotJournal, Steps, Rewriting
  <2>4. QED
    BY <2>2, <2>3
<1>8. CASE Validate(c)
  BY <1>1, <1>8, Proceeds DEF Validate, LockOfStep, Steps, Rewriting
<1>9. CASE LetGo(c)
  BY <1>9, Relocks DEF LetGo, Steps, Rewriting
<1>10. CASE Close(c)
  BY <1>10, NobodyMoves DEF Close
<1>11. QED
  BY <1>2, <1>3, <1>4, <1>5, <1>6, <1>7, <1>8, <1>9, <1>10 DEF Opening

LEMMA WorkingStep ==
  ASSUME LockInv, NEW c \in Conns, Working(c)
  PROVE  LockInv'
<1>1. LockOfStep(c)
  BY DEF LockInv
<1> USE DEF writer
<1>2. CASE Begin(c)
  <2>1. \A d \in Others(c) : lock[d] # Exclusive
    BY <1>2 DEF Begin, MayReserve
  <2>2. QED
    BY <1>2, <2>1, Relocks DEF Begin, Steps, Rewriting
<1>3. CASE BeginExclusive(c)
  <2>1. lock[c] # NoLock /\ MayReserve(c)
    BY <1>1, <1>3 DEF BeginExclusive, LockOfStep
  <2>2. QED
    BY <1>3, <2>1, ObtainedExcludes, Relocks DEF BeginExclusive, Steps, Rewriting
<1>4. CASE Commit(c)
  BY <1>1, <1>4, Proceeds DEF Commit, LockOfStep, Steps, Rewriting
<1>5. CASE Rollback(c)
  BY <1>1, <1>5, Proceeds DEF Rollback, Undo, LockOfStep, Steps, Rewriting
<1>6. CASE \E p \in Pages : Read(c, p)
  BY <1>6, NobodyMoves DEF Read
<1>7. CASE \E p \in Pages : Write(c, p)
  BY <1>7, NobodyMoves DEF Write
<1>8. CASE \E p \in Pages : Spill(c, p)
  BY <1>1, <1>8, Proceeds DEF Spill, LockOfStep, Steps, Rewriting
<1>9. QED
  BY <1>2, <1>3, <1>4, <1>5, <1>6, <1>7, <1>8 DEF Working

LEMMA CommittingStep ==
  ASSUME LockInv, NEW c \in Conns, Committing(c)
  PROVE  LockInv'
<1>1. LockOfStep(c)
  BY DEF LockInv
<1> USE DEF writer
<1>2. CASE Upgrade(c)
  <2>1. lock[c] # NoLock /\ MayReserve(c) /\ UNCHANGED eState
    BY <1>1, <1>2, KeepsApart DEF Upgrade, LockOfStep
  <2>2. eState = "DBMOD" => Obtained(c) = Exclusive
    BY <1>1, <1>2, <2>1, ObtainedExcludes DEF Upgrade, LockOfStep
  <2>3. QED
    BY <1>2, <2>1, <2>2, ObtainedExcludes, Relocks DEF Upgrade, Steps, Rewriting
<1>3. CASE SyncRecords(c)
  BY <1>1, <1>3, Proceeds DEF SyncRecords, LockOfStep, Steps, Rewriting
<1>4. CASE WriteHeader(c)
  BY <1>1, <1>4, Proceeds DEF WriteHeader, LockOfStep, Steps, Rewriting
<1>5. CASE SyncHeader(c)
  BY <1>1, <1>5, Proceeds DEF SyncHeader, LockOfStep, Steps, Rewriting
<1>6. CASE \E p \in Pages : WritePage(c, p)
  BY <1>1, <1>6, Proceeds DEF WritePage, PutPage, LockOfStep, Steps, Rewriting
<1>7. QED
  BY <1>2, <1>3, <1>4, <1>5, <1>6 DEF Committing

LEMMA EndingStep ==
  ASSUME LockInv, NEW c \in Conns, Ending(c)
  PROVE  LockInv'
<1>1. LockOfStep(c)
  BY DEF LockInv
<1> USE DEF writer
<1>2. CASE Truncate(c)
  BY <1>1, <1>2, Proceeds DEF Truncate, LockOfStep, Steps, Rewriting
<1>3. CASE Replay(c)
  <2>1. CASE played < ToRestore
    BY <1>3, <2>1, NobodyMoves DEF Replay
  <2>2. CASE ~(played < ToRestore)
    BY <1>1, <1>3, <2>2, Proceeds DEF Replay, LockOfStep, Steps, Rewriting
  <2>3. QED
    BY <2>1, <2>2
<1>4. CASE SyncDatabase(c)
  BY <1>1, <1>4, Proceeds DEF SyncDatabase, LockOfStep, Steps, Rewriting
<1>5. CASE DeleteJournal(c)
  BY <1>1, <1>5, Proceeds DEF DeleteJournal, LockOfStep, Steps, Rewriting
<1>6. CASE Downgrade(c)
  <2>1. lock[c] # NoLock
    BY <1>1, <1>6 DEF Downgrade, LockOfStep
  <2>2. QED
    BY <1>6, <2>1, KeepsApart, Relocks DEF Downgrade, Steps, Rewriting
<1>7. QED
  BY <1>2, <1>3, <1>4, <1>5, <1>6 DEF Ending

LEMMA IOErrorStep ==
  ASSUME LockInv, NEW c \in Conns, IOError(c)
  PROVE  LockInv'
<1>1. LockOfStep(c)
  BY DEF LockInv
<1>2. CASE Undo(c)
  <2>1. pc[c] \in {"sync", "header", "syncheader", "write", "dbsync"}
    BY <1>2 DEF IOError, Undo, Abandon
  <2>2. QED
    BY <1>1, <1>2, <2>1, Proceeds DEF Undo, LockOfStep, Steps, Rewriting
<1>3. CASE Abandon(c)
  <2>1. pc[c] # "open" /\ lock[c] # NoLock
    BY <1>1, <1>3 DEF IOError, LockOfStep
  <2>2. CASE pc[c] = "unjournal"
    BY <1>3, <2>1, <2>2, KeepsApart, Relocks DEF Abandon, Steps, Rewriting
  <2>3. CASE pc[c] # "unjournal"
    BY <1>3, <2>1, <2>3, KeepsApart, Relocks DEF Abandon, Steps, Rewriting
  <2>4. QED
    BY <2>2, <2>3
<1>4. QED
  BY <1>2, <1>3 DEF IOError

LEMMA NextStep == LockInv /\ [Next]_vars => LockInv'
<1> SUFFICES ASSUME LockInv, [Next]_vars
             PROVE  LockInv'
  OBVIOUS
<1>1. CASE \E c \in Conns : Opening(c) \/ CheckReserved(c)
  BY <1>1, OpeningStep
<1>2. CASE \E c \in Conns : Working(c)
  BY <1>2, WorkingStep
<1>3. CASE \E c \in Conns : Committing(c)
  BY <1>3, CommittingStep
<1>4. CASE \E c \in Conns : Ending(c)
  BY <1>4, EndingStep
<1>5. CASE \E c \in Conns : IOError(c)
  BY <1>5, IOErrorStep
<1>6. CASE Kill \/ PowerFailure
  BY <1>6, AllRestart DEF Kill, PowerFailure
<1>7. CASE UNCHANGED vars
  BY <1>7, NobodyMoves DEF vars, writer
<1>8. QED
  BY <1>1, <1>2, <1>3, <1>4, <1>5, <1>6, <1>7 DEF Next, AllButCheckReserved

LEMMA LocksIsolate == LockInv => WritersAreAlone
<1> SUFFICES ASSUME LockInv, NEW c \in Conns, pc[c] \in Rewriting, NEW d \in Others(c)
             PROVE  lock[c] = Exclusive /\ lock[d] = NoLock /\ pc[d] = "open"
  BY DEF WritersAreAlone, LockInv, LockOfStep
<1>1. lock[c] = Exclusive
  BY DEF LockInv, LockOfStep
<1>2. lock[d] = NoLock
  BY <1>1 DEF LockInv, Apart
<1>3. d \in Conns
  BY DEF Others
<1>4. QED
  BY <1>1, <1>2, <1>3 DEF LockInv, LockOfStep

-----------------------------------------------------------------------------
(***************************************************************************)
(* The theorems about the locks.                                           *)
(***************************************************************************)

\* The lock a connection has is the one its step needs, and the locks of any two
\* connections are compatible, in every behaviour of the pager: also after errors, the
\* end of the process and a failure of the power.
THEOREM LocksAreConsistent == Spec => []LockInv
<1>1. QED
  BY InitLockInv, NextStep, PTL DEF Spec

\* Whoever syncs, writes or truncates the file for a transaction or plays a journal back
\* has the file alone (unixLock, sqlite3PagerExclusiveLock, pager_end_transaction):
\* nobody reads it or looks for a journal meanwhile.
THEOREM WritersExclude == Spec => []WritersAreAlone
<1>1. QED
  BY LocksAreConsistent, LocksIsolate, PTL

\* The same of the behaviours in which no recovery is mistaken for a transaction, those
\* that the runs check.
THEOREM CarefulWritersExclude == CarefulSpec => []WritersAreAlone
<1>1. [CarefulNext]_vars => [Next]_vars
  BY DEF CarefulNext, Next
<1>2. QED
  BY <1>1, InitLockInv, NextStep, LocksIsolate, PTL DEF CarefulSpec
-----------------------------------------------------------------------------
(***************************************************************************)
(* What the files hold.                                                    *)
(***************************************************************************)

\* A file of n pages, all of them whole.
Whole(f, n) == \A p \in Pages : IF p <= n THEN f[p] \in Contents ELSE f[p] = Absent

\* One of the first n records of a journal is that of page p.
Covers(j, n, p) == \E i \in 1 .. n : j.recs[i].page = p

\* A journal as such: it has one record of a page, and counts none that it has not.
JournalOK(j) ==
  /\ j \in Journals
  /\ j.counted <= Len(j.recs)
  /\ \A m, n \in 1 .. Len(j.recs) : j.recs[m].page = j.recs[n].page => m = n
  /\ \A n \in 1 .. Len(j.recs) : j.recs[n].page <= j.size

\* All its records, counted or not, are those of the database I.
Holds(j, I) ==
  /\ Whole(I, j.size)
  /\ \A n \in 1 .. Len(j.recs) : j.recs[n].content = I[j.recs[n].page]

FileTypes ==
  /\ db \in [Pages -> Contents \cup {Absent, Torn}]
  /\ disk \in [Pages -> Contents \cup {Absent, Torn}]
  /\ unsynced \subseteq Pages
  /\ stable \in [entry : BOOLEAN, recs : Nat, counted : Nat, magic : BOOLEAN]

ImageInv ==
  /\ Image \in [Pages -> Contents \cup {Absent}]
  /\ \E n \in 0 .. MaxPages : Whole(Image, n)

\* Nothing fails any more.
Spared == faults = MaxFaults

\* A file that is not new has a first page, also on the disk.
FirstPageInv == Image[1] # Absent => db[1] # Absent /\ (Spared \/ disk[1] # Absent)

\* The file is on the disk as it is, if that matters.
Synced == Spared \/ (disk = db /\ unsynced = {})

\* What of the journal is on the disk: its headers count no record that is not.
StableInv ==
  /\ stable.counted <= journal.counted
  /\ journal.counted <= stable.recs
  /\ stable.recs <= Len(journal.recs)
  /\ stable.magic => journal.magic

JournalInv ==
  IF journal = NoJournal THEN stable = Unstable
  ELSE JournalOK(journal) /\ Holds(journal, Image) /\ StableInv

GoneInv == gone # NoJournal => JournalOK(gone) /\ Holds(gone, Recovered(db, gone))

\* Page p need not be restored: it is what it was, also on the disk.
Intact(p) == db[p] = Image[p] /\ (Spared \/ (disk[p] = Image[p] /\ p \notin unsynced))

\* Without a hot journal the file is the database.  With one, a page differs from that
\* of the database only if a failure of the power leaves its record, and counted.
HotInv ==
  IF Hot(journal)
    THEN /\ gone = NoJournal /\ stable.entry
         /\ stable.magic \/ (Synced /\ db = Image)
         /\ \A p \in Pages : p <= journal.size => Covers(journal, stable.counted, p) \/ Intact(p)
    ELSE Synced

FilesInv == FileTypes /\ ImageInv /\ FirstPageInv /\ JournalInv /\ GoneInv /\ HotInv

\* There is nothing to play back.  A journal may be left of a file that is still empty.
Clean == Hot(journal) => db = NoPages /\ Spared /\ faults # 0

\* What a failure of the power may bring back.
Before == IF gone = NoJournal THEN Image ELSE Recovered(db, gone)

\* The change counter of a database.
Version(I) == IF I[1] = Absent THEN 0 ELSE I[1]

\* A transaction adds two to the counter at most.
BoundInv == Version(Image) <= 2 * txns /\ Version(Before) <= 2 * txns

\* A file is new until its first transaction is sure to be on the disk.
NewInv ==
  /\ Before[1] = Absent => MaxFaults <= 1
  /\ Image[1] = Absent => Before[1] = Absent

-----------------------------------------------------------------------------
(***************************************************************************)
(* What the caches hold.                                                   *)
(***************************************************************************)

Agrees(c) == \A p \in Pages : cache[c][p] # Absent => cache[c][p] = Image[p]

\* A cache that may be out of date: then the counter says so.
Kept(c) ==
  cache[c] = NoPages \/ (vers[c] <= Version(Image) /\ (vers[c] = Version(Image) => Agrees(c)))

\* The cache of a connection that sees the database.
Current(c) == Agrees(c) /\ (Image[1] # Absent => cache[c][1] # Absent /\ vers[c] = Image[1])

\* How often the transaction has written page 1, since it began with counter b: not, or
\* once for a full cache, or a second time at the commit.
Counts(c, b) ==
  /\ b <= 2 * (txns - 1)
  /\ Image[1] # Absent => b = Image[1]
  /\ IF db[1] = Absent THEN vers[c] = b ELSE vers[c] = db[1]
  /\ \/ vers[c] = b
     \/ vers[c] = b + 1 /\ eState = "DBMOD"
     \/ /\ vers[c] = b + 2 /\ eState = "DBMOD"
        /\ task = "commit" /\ pc[c] \in {"write", "dbsync", "unjournal"}
        /\ 1 \notin dirty
  /\ 1 \in dirty /\ vers[c] # b => task = "commit" /\ pc[c] # "writing"
  /\ task = "commit" /\ pc[c] # "writing" => 1 \in dirty \/ vers[c] # b

CounterInv(c) == \E b \in Contents : Counts(c, b)

\* The pages of the transaction: those it has changed and not written are in the cache,
\* and in the journal if they were in the file.
DirtyInv(c) ==
  /\ \A p \in Pages : db[p] # Torn
  /\ \A p \in dirty : cache[c][p] \in Contents /\ (p <= journal.size => InJournal(p))
  /\ \A p \in Pages \ dirty : cache[c][p] \in {Absent, db[p]}
  /\ db[1] # Absent => cache[c][1] # Absent
  /\ \E m \in 0 .. MaxPages : \A p \in Pages : p <= m <=> (db[p] # Absent \/ p \in dirty)

\* How far the transaction is: nothing changed, only the cache changed, or the file.
WriterInv(c) ==
  /\ eState \in {"LOCKED", "CACHEMOD", "DBMOD"}
  /\ eState = "LOCKED" => pc[c] = "writing" /\ dirty = {} /\ Clean
  /\ eState = "CACHEMOD" => /\ journal # NoJournal /\ db = Image /\ Synced
                            /\ pc[c] # "syncheader" => ~Hot(journal)
  /\ eState = "DBMOD" => Hot(journal) /\ stable.magic
  /\ pc[c] \in {"write", "dbsync", "unjournal"} => eState = "DBMOD"
  /\ pc[c] = "header" => stable.entry /\ stable.recs = Len(journal.recs) /\ gone = NoJournal
  /\ pc[c] = "syncheader" => Hot(journal) /\ journal.counted = Len(journal.recs)
  /\ pc[c] = "write" /\ task = "commit" => stable.counted = Len(journal.recs)
  /\ pc[c] \in {"dbsync", "unjournal"} => dirty = {} /\ lock[c] = Exclusive
  /\ task \in {"commit", "spill"} \/ (pc[c] = "writing" /\ task = "none")

\* A journal that is being played back.
PlaybackInv(c) ==
  /\ Hot(journal) /\ stable.magic
  /\ task = "recovery" => stable.counted = journal.counted
  /\ pc[c] = "truncate" => played = 0
  /\ pc[c] = "replay" =>
       /\ played <= stable.counted
       /\ \A p \in Pages : p > journal.size => db[p] = Absent
       /\ \A n \in 1 .. played : db[journal.recs[n].page] = journal.recs[n].content

-----------------------------------------------------------------------------
(***************************************************************************)
(* The three roles of a connection.                                        *)
(***************************************************************************)

Ends == {"truncate", "replay", "dbsync", "unjournal", "downgrade"}

Idle == {"open", "shared", "exists", "unreserved", "hot", "exclusive", "validate", "busy",
         "reader"}

Waits(c) ==
  \/ pc[c] \in Idle \ {"reader"}
  \/ pc[c] \in Ends /\ task = "recovery"

Sees(c) ==
  \/ pc[c] = "reader"
  \/ pc[c] \in Ends /\ task = "rollback"
  \/ pc[c] = "downgrade" /\ task = "commit"

Changes(c) ==
  \/ pc[c] \in {"writing", "upgrade", "sync", "header", "syncheader", "write"}
  \/ pc[c] \in {"dbsync", "unjournal"} /\ task = "commit"

ConnInv(c) ==
  /\ cache[c] \in [Pages -> Contents \cup {Absent}]
  /\ vers[c] \in 0 .. 2 * txns
  /\ Waits(c) \/ Sees(c) \/ Changes(c)
  /\ Waits(c) => Kept(c)
  /\ Sees(c) => Current(c)
  /\ Changes(c) => WriterInv(c) /\ DirtyInv(c) /\ CounterInv(c)
  /\ pc[c] \in {"validate", "reader", "downgrade"} => Clean
  /\ pc[c] = "unjournal" /\ lock[c] # Exclusive => ~Hot(journal)
  /\ pc[c] \in {"truncate", "replay"} => PlaybackInv(c)
  /\ pc[c] \in {"dbsync", "unjournal"} /\ task # "commit" => db = Image
  /\ pc[c] = "unjournal" => Synced
  /\ pc[c] \in Ends => dirty = {}

GlobalTypes ==
  /\ cache \in [Conns -> [Pages -> Contents \cup {Absent}]]
  /\ vers \in [Conns -> 0 .. 2 * txns]
  /\ dirty \subseteq Pages
  /\ eState \in {"READER", "LOCKED", "CACHEMOD", "DBMOD"}
  /\ task \in {"none", "commit", "spill", "rollback", "recovery"}
  /\ played \in 0 .. MaxPages
  /\ txns \in 0 .. MaxTxns
  /\ faults \in 0 .. MaxFaults

\* When nobody writes: a hot journal is what a failure has left.
Left == dirty = {} /\ task = "none" /\ (Hot(journal) => faults # 0)

IdleInv == (\A c \in Conns : pc[c] \in Idle) => Left

IInv == /\ LockInv
        /\ GlobalTypes
        /\ FilesInv
        /\ BoundInv
        /\ NewInv
        /\ IdleInv
        /\ \A c \in Conns : ConnInv(c)

-----------------------------------------------------------------------------
(***************************************************************************)
(* Journals and what they restore.                                         *)
(***************************************************************************)

AnyRecord == [page : Pages, content : Contents]

LEMMA JournalFields ==
  ASSUME NEW j, JournalOK(j)
  PROVE  /\ j # NoJournal
         /\ j.size \in 0 .. MaxPages /\ j.size \in Nat /\ j.counted \in Nat /\ j.magic \in BOOLEAN
         /\ j.recs \in Seq(AnyRecord) /\ Len(j.recs) \in Nat
         /\ \A n \in 1 .. Len(j.recs) : j.recs[n].page \in Pages /\ j.recs[n].content \in Contents
<1>1. j \in [size : 0 .. MaxPages, recs : Seq(AnyRecord), counted : 0 .. MaxPages, magic : BOOLEAN]
  BY DEF JournalOK, Journals, AnyRecord
<1>2. j.recs \in Seq(AnyRecord)
  BY <1>1
<1>3. Len(j.recs) \in Nat /\ \A n \in 1 .. Len(j.recs) : j.recs[n] \in AnyRecord
  BY <1>2
<1>4. j # NoJournal
  BY NoJournalAssumption DEF JournalOK
<1>5. QED
  BY <1>1, <1>2, <1>3, <1>4, ConstantsAssumption DEF AnyRecord, JournalOK

LEMMA MinOfTwo ==
  ASSUME NEW m \in Nat, NEW n \in Nat, m <= n
  PROVE  Min({m, n}) = m
<1>1. m \in {m, n} /\ \A y \in {m, n} : m <= y
  OBVIOUS
<1>2. \A x \in {m, n} : (\A y \in {m, n} : x <= y) => x = m
  OBVIOUS
<1>3. QED
  BY <1>1, <1>2 DEF Min

LEMMA MinOfOne ==
  ASSUME NEW n \in Nat
  PROVE  Min({n}) = n
<1>1. n \in {n} /\ \A y \in {n} : n <= y
  OBVIOUS
<1>2. QED
  BY <1>1 DEF Min

\* What a hot journal restores: the pages of the records its header counts, and the size.
LEMMA HotImage ==
  ASSUME NEW f, NEW j, JournalOK(j), j.magic
  PROVE  /\ Hot(j)
         /\ Restorable(j) = j.counted
         /\ Recovered(f, j) = [p \in Pages |-> Recovered(f, j)[p]]
         /\ \A n \in 1 .. j.counted : Recovered(f, j)[j.recs[n].page] = j.recs[n].content
         /\ \A p \in Pages : ~Covers(j, j.counted, p) =>
              Recovered(f, j)[p] = IF p > j.size THEN Absent ELSE f[p]
<1>1. Hot(j)
  BY JournalFields DEF Hot
<1>2. Restorable(j) = j.counted
  BY <1>1, JournalFields, MinOfTwo DEF Restorable, JournalOK
<1> DEFINE Recs(p) == {n \in 1 .. j.counted : j.recs[n].page = p}
           Old(p) == IF Recs(p) # {} THEN j.recs[Min(Recs(p))].content ELSE Truncated(f, j.size)[p]
<1>3. Recovered(f, j) = [p \in Pages |-> Old(p)]
  BY <1>1, <1>2 DEF Recovered
<1>4. \A n \in 1 .. j.counted : n \in 1 .. Len(j.recs) /\ j.recs[n].page \in Pages
  BY JournalFields DEF JournalOK
<1>5. ASSUME NEW n \in 1 .. j.counted
      PROVE  Recovered(f, j)[j.recs[n].page] = j.recs[n].content
  <2>1. Recs(j.recs[n].page) = {n}
    BY <1>4 DEF JournalOK
  <2>2. Min(Recs(j.recs[n].page)) = n
    BY <2>1, MinOfOne
  <2> HIDE DEF Recs
  <2>3. Old(j.recs[n].page) = j.recs[n].content
    BY <2>1, <2>2
  <2> HIDE DEF Old
  <2>4. QED
    BY <2>3, <1>3, <1>4
<1>6. ASSUME NEW p \in Pages, ~Covers(j, j.counted, p)
      PROVE  Recovered(f, j)[p] = IF p > j.size THEN Absent ELSE f[p]
  <2>1. Recs(p) = {}
    BY <1>6 DEF Covers
  <2> HIDE DEF Recs
  <2>2. Old(p) = IF p > j.size THEN Absent ELSE f[p]
    BY <2>1 DEF Truncated
  <2> HIDE DEF Old
  <2>3. QED
    BY <2>2, <1>3
<1>7. Recovered(f, j) = [p \in Pages |-> Recovered(f, j)[p]]
  <2> HIDE DEF Old
  <2> QED
    BY <1>3
<1>8. QED
  BY <1>1, <1>2, <1>5, <1>6, <1>7

\* A journal restores the database that its records are of, if nothing else differs.
LEMMA Restores ==
  ASSUME NEW I, I = [p \in Pages |-> I[p]],
         NEW f, NEW j, JournalOK(j), j.magic, Holds(j, I),
         \A p \in Pages : p <= j.size => Covers(j, j.counted, p) \/ f[p] = I[p]
  PROVE  Recovered(f, j) = I
<1>1. ASSUME NEW p \in Pages
      PROVE  Recovered(f, j)[p] = I[p]
  <2>1. CASE Covers(j, j.counted, p)
    <3>1. PICK n \in 1 .. j.counted : j.recs[n].page = p
      BY <2>1 DEF Covers
    <3>2. n \in 1 .. Len(j.recs)
      BY JournalFields DEF JournalOK
    <3>3. QED
      BY <3>1, <3>2, HotImage DEF Holds
  <2>2. CASE ~Covers(j, j.counted, p) /\ p <= j.size
    BY <2>2, HotImage, JournalFields DEF Pages
  <2>3. CASE ~Covers(j, j.counted, p) /\ p > j.size
    BY <2>3, HotImage, JournalFields DEF Holds, Whole, Pages
  <2>4. QED
    BY <2>1, <2>2, <2>3, JournalFields DEF Pages
<1>2. Recovered(f, j) = [p \in Pages |-> Recovered(f, j)[p]]
  BY HotImage
<1>3. QED
  BY <1>1, <1>2

LEMMA ColdImage ==
  ASSUME NEW f, NEW j, ~Hot(j)
  PROVE  Recovered(f, j) = f
  BY DEF Recovered

LEMMA JournalLength ==
  ASSUME NEW j, JournalOK(j)
  PROVE  Len(j.recs) <= MaxPages
<1> DEFINE D == 1 .. Len(j.recs)
           page == [n \in D |-> j.recs[n].page]
<1>1. Len(j.recs) \in Nat /\ page \in [D -> Pages]
  BY JournalFields
<1>2. \A m, n \in D : page[m] = page[n] => m = n
  BY DEF JournalOK
<1>3. IsFiniteSet(D) /\ Cardinality(D) = Len(j.recs)
  <2>1. \A n \in Nat : IsFiniteSet(1 .. n) /\ Cardinality(1 .. n) = IF 1 > n THEN 0 ELSE n - 1 + 1
    BY FS_Interval
  <2>2. \A n \in Nat : (IF 1 > n THEN 0 ELSE n - 1 + 1) = n
    OBVIOUS
  <2>3. QED
    BY <1>1, <2>1, <2>2
<1>4. IsFiniteSet(Pages) /\ Cardinality(Pages) = MaxPages
  BY FS_Interval, ConstantsAssumption DEF Pages
<1> HIDE DEF D, page
<1>5. ASSUME MaxPages < Len(j.recs)
      PROVE  FALSE
  <2>1. Cardinality(Pages) < Cardinality(D)
    BY <1>3, <1>4, <1>5
  <2>2. \E m, n \in D : m # n /\ page[m] = page[n]
    BY <2>1, <1>1, <1>3, <1>4, FS_PigeonHole
  <2>3. QED
    BY <2>2, <1>2
<1>6. QED
  BY <1>1, <1>5, ConstantsAssumption

\* A record is added (pager_write).
LEMMA Appended ==
  ASSUME NEW j, JournalOK(j), NEW p \in Pages, p <= j.size,
         \A n \in 1 .. Len(j.recs) : j.recs[n].page # p,
         NEW v \in Contents
  PROVE  LET k == [j EXCEPT !.recs = Append(@, [page |-> p, content |-> v])]
         IN  /\ JournalOK(k)
             /\ k.size = j.size /\ k.counted = j.counted /\ k.magic = j.magic
             /\ Len(k.recs) = Len(j.recs) + 1
             /\ \A n \in 1 .. Len(j.recs) : k.recs[n] = j.recs[n]
             /\ k.recs[Len(j.recs) + 1] = [page |-> p, content |-> v]
<1> DEFINE r == [page |-> p, content |-> v]
           recs == Append(j.recs, r)
           k == [j EXCEPT !.recs = recs]
<1>1. r \in AnyRecord /\ r.page = p
  BY DEF AnyRecord
<1> HIDE DEF r
<1>2. j.recs \in Seq(AnyRecord) /\ Len(j.recs) \in Nat
  BY JournalFields
<1>3. /\ recs \in Seq(AnyRecord) /\ Len(recs) = Len(j.recs) + 1
      /\ \A n \in 1 .. Len(j.recs) : recs[n] = j.recs[n]
      /\ recs[Len(j.recs) + 1] = r
  BY <1>1, <1>2
<1> HIDE DEF recs
<1>4. j \in [size : 0 .. MaxPages, recs : Seq(AnyRecord), counted : 0 .. MaxPages, magic : BOOLEAN]
  BY DEF JournalOK, Journals, AnyRecord
<1>5. /\ k \in [size : 0 .. MaxPages, recs : Seq(AnyRecord), counted : 0 .. MaxPages, magic : BOOLEAN]
      /\ k.size = j.size /\ k.counted = j.counted /\ k.magic = j.magic /\ k.recs = recs
  BY <1>3, <1>4
<1> HIDE DEF k
<1>6. k \in Journals
  BY <1>5 DEF Journals, AnyRecord
<1>7. k.counted <= Len(k.recs)
  BY <1>2, <1>3, <1>5, JournalFields DEF JournalOK
<1>8. ASSUME NEW m \in 1 .. Len(k.recs), NEW n \in 1 .. Len(k.recs), k.recs[m].page = k.recs[n].page
      PROVE  m = n
  <2>1. \A i \in 1 .. Len(k.recs) :
          i = Len(j.recs) + 1 \/ (i \in 1 .. Len(j.recs) /\ k.recs[i] = j.recs[i])
    BY <1>2, <1>3, <1>5
  <2>2. k.recs[Len(j.recs) + 1].page = p
    BY <1>1, <1>3, <1>5
  <2>3. \A i, l \in 1 .. Len(j.recs) : j.recs[i].page = j.recs[l].page => i = l
    BY DEF JournalOK
  <2>4. QED
    BY <1>8, <2>1, <2>2, <2>3
<1>9. \A n \in 1 .. Len(k.recs) : k.recs[n].page <= k.size
  BY <1>1, <1>2, <1>3, <1>5 DEF JournalOK
<1>10. JournalOK(k)
  BY <1>6, <1>7, <1>8, <1>9 DEF JournalOK
<1>11. QED
  BY <1>3, <1>5, <1>10 DEF k, recs, r

\* The header is written (syncJournal).
LEMMA Headed ==
  ASSUME NEW j, JournalOK(j)
  PROVE  LET k == [j EXCEPT !.counted = Len(j.recs), !.magic = TRUE]
         IN  /\ JournalOK(k)
             /\ k.size = j.size /\ k.counted = Len(j.recs) /\ k.magic /\ k.recs = j.recs
<1> DEFINE k == [j EXCEPT !.counted = Len(j.recs), !.magic = TRUE]
<1>1. j \in [size : 0 .. MaxPages, recs : Seq(AnyRecord), counted : 0 .. MaxPages, magic : BOOLEAN]
  BY DEF JournalOK, Journals, AnyRecord
<1>2. Len(j.recs) \in 0 .. MaxPages
  BY JournalFields, JournalLength, ConstantsAssumption
<1>3. /\ k \in [size : 0 .. MaxPages, recs : Seq(AnyRecord), counted : 0 .. MaxPages, magic : BOOLEAN]
      /\ k.size = j.size /\ k.counted = Len(j.recs) /\ k.magic /\ k.recs = j.recs
  BY <1>1, <1>2
<1> HIDE DEF k
<1>4. k \in Journals
  BY <1>3 DEF Journals, AnyRecord
<1>5. JournalOK(k)
  BY <1>2, <1>3, <1>4 DEF JournalOK
<1>6. QED
  BY <1>3, <1>5 DEF k

\* A part of the journal survives a failure of the power.
LEMMA Cut ==
  ASSUME NEW j, JournalOK(j), NEW n \in 0 .. Len(j.recs), NEW m \in 0 .. n, NEW b \in BOOLEAN
  PROVE  LET k == [size |-> j.size, recs |-> SubSeq(j.recs, 1, n), counted |-> m, magic |-> b]
         IN  /\ JournalOK(k)
             /\ k.size = j.size /\ k.counted = m /\ k.magic = b
             /\ Len(k.recs) = n
             /\ \A i \in 1 .. n : k.recs[i] = j.recs[i]
<1> DEFINE recs == SubSeq(j.recs, 1, n)
           k == [size |-> j.size, recs |-> recs, counted |-> m, magic |-> b]
<1>1. j.recs \in Seq(AnyRecord) /\ Len(j.recs) \in Nat /\ j.size \in 0 .. MaxPages
  BY JournalFields
<1>2. /\ recs \in Seq(AnyRecord) /\ Len(recs) = n
      /\ \A i \in 1 .. n : recs[i] = j.recs[i]
  BY <1>1
<1> HIDE DEF recs
<1>3. m \in 0 .. MaxPages
  BY <1>1, JournalLength, ConstantsAssumption
<1>4. /\ k \in [size : 0 .. MaxPages, recs : Seq(AnyRecord), counted : 0 .. MaxPages, magic : BOOLEAN]
      /\ k.size = j.size /\ k.counted = m /\ k.magic = b /\ k.recs = recs
  BY <1>1, <1>2, <1>3
<1> HIDE DEF k
<1>5. k \in Journals
  BY <1>4 DEF Journals, AnyRecord
<1>6. /\ \A i, l \in 1 .. Len(j.recs) : j.recs[i].page = j.recs[l].page => i = l
      /\ \A i \in 1 .. Len(j.recs) : j.recs[i].page <= j.size
  BY DEF JournalOK
<1>7. /\ \A i \in 1 .. n : i \in 1 .. Len(j.recs)
      /\ m <= n
  BY <1>1
<1>8. JournalOK(k)
  BY <1>2, <1>4, <1>5, <1>6, <1>7 DEF JournalOK
<1>9. QED
  BY <1>2, <1>4, <1>8 DEF k, recs
-----------------------------------------------------------------------------
(***************************************************************************)
(* What the steps do to the files.  A step keeps the database, if what a   *)
(* failure of the power may leave is what it was before or the database    *)
(* itself.                                                                 *)
(***************************************************************************)

Keeps == Image' = Image /\ Before' \in {Before, Image}

\* What has failed has failed.
Endures == (Spared => Spared') /\ (faults # 0 => faults' # 0)

LEMMA NothingFails ==
  ASSUME UNCHANGED faults
  PROVE  Endures
  BY DEF Endures, Spared

LEMMA FilesUntouched ==
  ASSUME FilesInv, UNCHANGED files, Endures
  PROVE  FilesInv' /\ Keeps
<1>1. Image' = Image /\ Before' = Before
  BY DEF files, Image, Before
<1>2. FileTypes' /\ ImageInv' /\ FirstPageInv' /\ JournalInv' /\ GoneInv'
  BY <1>1 DEF files, Endures, FilesInv, FileTypes, ImageInv, FirstPageInv, JournalInv, StableInv,
              GoneInv
<1>3. (Synced => Synced') /\ \A p \in Pages : Intact(p) => Intact(p)'
  BY <1>1 DEF files, Endures, Synced, Intact
<1>4. HotInv'
  BY <1>1, <1>3 DEF files, FilesInv, HotInv
<1>5. QED
  BY <1>1, <1>2, <1>4 DEF Keeps, FilesInv

\* The image is a database of some pages, or of none.
LEMMA ImageIsWhole ==
  ASSUME FilesInv
  PROVE  /\ Image \in [Pages -> Contents \cup {Absent}]
         /\ Image = [p \in Pages |-> Image[p]]
         /\ Image[1] # Absent => Image[1] \in Contents
         /\ Image[1] = Absent => Image = NoPages
         /\ Version(Image) \in Contents
         /\ journal # NoJournal => Whole(Image, journal.size) /\ journal.size \in 0 .. MaxPages
         /\ ~Hot(journal) => Image = db /\ Synced
         /\ Clean => Image = db /\ Synced
<1>1. Image \in [Pages -> Contents \cup {Absent}] /\ 1 \in Pages
  BY ConstantsAssumption DEF FilesInv, ImageInv, Pages
<1>2. PICK n \in 0 .. MaxPages : Whole(Image, n)
  BY DEF FilesInv, ImageInv
<1>3. Image[1] = Absent => Image = NoPages
  <2>1. Image[1] = Absent => n = 0
    BY <1>1, <1>2, ConstantsAssumption DEF Whole, Contents
  <2>2. \A p \in Pages : n = 0 => Image[p] = Absent
    BY <1>2, ConstantsAssumption DEF Whole, Pages
  <2>3. QED
    BY <1>1, <2>1, <2>2 DEF NoPages
<1>4. Version(Image) \in Contents
  BY <1>1, ConstantsAssumption DEF Version, Contents
<1>5. journal # NoJournal => Whole(Image, journal.size) /\ journal.size \in 0 .. MaxPages
  BY JournalFields DEF FilesInv, JournalInv, Holds
<1>6. ~Hot(journal) => Image = db /\ Synced
  BY ColdImage DEF FilesInv, HotInv, Image
<1>7. Hot(journal) /\ Clean => Image = db /\ Synced
  <2>1. NoPages[1] = Absent
    BY <1>1 DEF NoPages
  <2>2. QED
    BY <1>3, <2>1 DEF Clean, FilesInv, FirstPageInv, Synced
<1>8. QED
  BY <1>1, <1>3, <1>4, <1>5, <1>6, <1>7

\* So is what a failure of the power may bring back.
LEMMA BeforeIsWhole ==
  ASSUME FilesInv
  PROVE  /\ Before \in [Pages -> Contents \cup {Absent}]
         /\ Version(Before) \in Contents
<1>1. gone # NoJournal => Whole(Recovered(db, gone), gone.size)
  BY DEF FilesInv, GoneInv, Holds
<1>2. gone # NoJournal => Recovered(db, gone) \in [Pages -> Contents \cup {Absent}]
  <2>1. CASE ~Hot(gone)
    BY <1>1, <2>1, ColdImage DEF FilesInv, FileTypes, Whole
  <2>2. CASE Hot(gone)
    <3>1. gone # NoJournal => Recovered(db, gone) = [p \in Pages |-> Recovered(db, gone)[p]]
      BY <2>2, HotImage DEF FilesInv, GoneInv, Hot
    <3>2. gone # NoJournal => \A p \in Pages : Recovered(db, gone)[p] \in Contents \cup {Absent}
      BY <1>1 DEF Whole
    <3>3. QED
      BY <3>1, <3>2
  <2>3. QED
    BY <2>1, <2>2
<1>3. Before \in [Pages -> Contents \cup {Absent}] /\ 1 \in Pages
  BY <1>2, ImageIsWhole, ConstantsAssumption DEF Before, Pages
<1>4. QED
  BY <1>3, ConstantsAssumption DEF Version, Contents

\* With a hot journal only pages are written that will be restored.
LEMMA Rewrites ==
  ASSUME FilesInv, Hot(journal), stable.magic, UNCHANGED <<journal, stable, gone, disk>>, Endures,
         db' \in [Pages -> Contents \cup {Absent, Torn}], unsynced' \subseteq Pages,
         Image[1] # Absent => db'[1] # Absent,
         \A p \in Pages : p <= journal.size /\ ~Covers(journal, stable.counted, p) =>
                            db'[p] = db[p] /\ (p \in unsynced' => p \in unsynced)
  PROVE  FilesInv' /\ Keeps
<1>1. /\ JournalOK(journal) /\ Holds(journal, Image) /\ StableInv /\ journal.magic
      /\ gone = NoJournal
  BY DEF FilesInv, JournalInv, HotInv, Hot
<1>2. \A p \in Pages : Covers(journal, stable.counted, p) => Covers(journal, journal.counted, p)
  BY <1>1, JournalFields DEF Covers, StableInv, FilesInv, FileTypes
<1>3. \A p \in Pages : p <= journal.size =>
        \/ Covers(journal, stable.counted, p)
        \/ db'[p] = Image[p] /\ (Spared' \/ (disk[p] = Image[p] /\ p \notin unsynced'))
  BY DEF FilesInv, HotInv, Intact, Endures
<1>4. Recovered(db', journal) = Image
  BY <1>1, <1>2, <1>3, ImageIsWhole, Restores
<1>5. Image' = Image /\ Keeps
  BY <1>1, <1>4 DEF Image, Keeps, Before
<1>6. FileTypes' /\ ImageInv' /\ FirstPageInv'
  BY <1>5 DEF FilesInv, FileTypes, ImageInv, FirstPageInv, Endures
<1>7. JournalInv' /\ GoneInv'
  BY <1>1, <1>5, JournalFields DEF JournalInv, GoneInv, StableInv
<1>8. HotInv'
  BY <1>1, <1>3, <1>5 DEF FilesInv, HotInv, Intact
<1>9. QED
  BY <1>5, <1>6, <1>7, <1>8 DEF FilesInv

\* The journal is synced, and perhaps the directory.
LEMMA JournalSynced ==
  ASSUME FilesInv, journal # NoJournal, stable' = AllOf(journal), gone' \in {gone, NoJournal},
         UNCHANGED <<db, disk, unsynced, journal>>, Endures
  PROVE  FilesInv' /\ Keeps
<1>1. JournalOK(journal) /\ Holds(journal, Image) /\ StableInv
  BY DEF FilesInv, JournalInv
<1>2. /\ stable'.entry /\ stable'.recs = Len(journal.recs) /\ stable'.counted = journal.counted
      /\ stable'.magic = journal.magic
      /\ stable' \in [entry : BOOLEAN, recs : Nat, counted : Nat, magic : BOOLEAN]
  BY <1>1, JournalFields DEF AllOf
<1>3. Image' = Image /\ Keeps
  BY DEF Image, Keeps, Before
<1>4. FileTypes' /\ ImageInv' /\ FirstPageInv'
  BY <1>2, <1>3 DEF FilesInv, FileTypes, ImageInv, FirstPageInv, Endures
<1>5. JournalInv'
  BY <1>1, <1>2, <1>3, JournalFields DEF JournalInv, StableInv, JournalOK
<1>6. GoneInv'
  BY DEF FilesInv, GoneInv
<1>7. \A p \in Pages : Covers(journal, stable.counted, p) => Covers(journal, journal.counted, p)
  BY <1>1, JournalFields DEF Covers, StableInv, FilesInv, FileTypes
<1>8. HotInv'
  BY <1>2, <1>3, <1>7 DEF FilesInv, HotInv, Synced, Intact, Hot, Endures
<1>9. QED
  BY <1>3, <1>4, <1>5, <1>6, <1>8 DEF FilesInv

\* The header is written when the records are synced.
LEMMA HeaderWritten ==
  ASSUME FilesInv, journal # NoJournal, stable.entry, stable.recs = Len(journal.recs),
         gone = NoJournal,
         JournalOK(journal'), journal'.size = journal.size, journal'.recs = journal.recs,
         journal'.counted = Len(journal.recs), journal'.magic,
         UNCHANGED <<db, disk, unsynced, stable, gone>>, Endures
  PROVE  FilesInv' /\ Keeps /\ Hot(journal')
<1>1. JournalOK(journal) /\ Holds(journal, Image) /\ StableInv
  BY DEF FilesInv, JournalInv
<1>2. JournalOK(journal') /\ journal'.magic
  OBVIOUS
<1>3. Hot(journal') /\ journal' # NoJournal
  BY <1>2, JournalFields DEF Hot
<1>4. Holds(journal', Image)
  BY <1>1, <1>2 DEF Holds
<1>5. \A p \in Pages : Covers(journal, stable.counted, p) =>
        Covers(journal', stable.counted, p) /\ Covers(journal', journal'.counted, p)
  BY <1>1, <1>2, JournalFields DEF Covers, StableInv, FilesInv, FileTypes, JournalOK
<1>6. \A p \in Pages : p <= journal.size => Covers(journal, stable.counted, p) \/ Intact(p)
  <2>1. CASE Hot(journal)
    BY <2>1 DEF FilesInv, HotInv
  <2>2. CASE ~Hot(journal)
    BY <2>2, ImageIsWhole DEF Intact, Synced
  <2>3. QED
    BY <2>1, <2>2
<1>7. Recovered(db, journal') = Image
  <2>1. \A p \in Pages : p <= journal'.size =>
          Covers(journal', journal'.counted, p) \/ db[p] = Image[p]
    BY <1>5, <1>6 DEF Intact
  <2>2. QED
    BY <1>4, <2>1, ImageIsWhole, Restores
<1>8. Image' = Image /\ Keeps
  BY <1>7 DEF Image, Keeps, Before
<1>9. FileTypes' /\ ImageInv' /\ FirstPageInv' /\ GoneInv'
  BY <1>8 DEF FilesInv, FileTypes, ImageInv, FirstPageInv, GoneInv, Endures
<1>10. JournalInv'
  BY <1>1, <1>2, <1>3, <1>4, <1>8, JournalFields DEF JournalInv, StableInv, JournalOK,
     FilesInv, FileTypes
<1>11. stable.magic \/ (Synced /\ db = Image)
  BY <1>1, ImageIsWhole DEF FilesInv, HotInv, Hot
<1>12. HotInv'
  BY <1>3, <1>5, <1>6, <1>8, <1>11 DEF HotInv, Intact, Synced, Endures
<1>13. QED
  BY <1>3, <1>8, <1>9, <1>10, <1>12 DEF FilesInv

\* A journal is begun, perhaps with a record.
LEMMA JournalBegun ==
  ASSUME FilesInv, Clean, JournalOK(journal'), Holds(journal', Image),
         journal'.counted = 0, ~journal'.magic, stable' = Unstable,
         UNCHANGED <<db, disk, unsynced, gone>>, Endures
  PROVE  FilesInv' /\ Keeps /\ ~Hot(journal')
<1>1. ~Hot(journal')
  BY DEF Hot
<1>2. Image' = Image /\ Keeps
  <2>1. Image' = db'
    BY <1>1, ColdImage DEF Image
  <2>2. QED
    BY <2>1, ImageIsWhole DEF Keeps, Before
<1>3. /\ stable'.recs = 0 /\ stable'.counted = 0 /\ ~stable'.magic
      /\ stable' \in [entry : BOOLEAN, recs : Nat, counted : Nat, magic : BOOLEAN]
  BY DEF Unstable
<1>4. FileTypes' /\ ImageInv' /\ FirstPageInv' /\ GoneInv'
  BY <1>2, <1>3 DEF FilesInv, FileTypes, ImageInv, FirstPageInv, GoneInv, Endures
<1>5. JournalInv'
  BY <1>2, <1>3, JournalFields DEF JournalInv, StableInv
<1>6. HotInv'
  BY <1>1, ImageIsWhole DEF HotInv, Synced, Endures
<1>7. QED
  BY <1>1, <1>2, <1>4, <1>5, <1>6 DEF FilesInv

\* A record that no header counts is added.
LEMMA RecordAdded ==
  ASSUME FilesInv, journal # NoJournal, JournalOK(journal'), Holds(journal', Image),
         journal'.size = journal.size, journal'.counted = journal.counted,
         journal'.magic = journal.magic, Len(journal.recs) <= Len(journal'.recs),
         \A n \in 1 .. Len(journal.recs) : journal'.recs[n] = journal.recs[n],
         UNCHANGED <<db, disk, unsynced, stable, gone>>, Endures
  PROVE  FilesInv' /\ Keeps /\ (Hot(journal') <=> Hot(journal))
<1>1. JournalOK(journal) /\ Holds(journal, Image) /\ StableInv
  BY DEF FilesInv, JournalInv
<1>2. Hot(journal') <=> Hot(journal)
  BY JournalFields DEF Hot
<1>3. \A p \in Pages : /\ Covers(journal', stable.counted, p) <=> Covers(journal, stable.counted, p)
                       /\ Covers(journal, stable.counted, p) => Covers(journal', journal'.counted, p)
  <2>1. /\ stable.counted \in Nat /\ journal.counted \in Nat /\ Len(journal.recs) \in Nat
        /\ stable.counted <= journal.counted /\ journal.counted <= Len(journal.recs)
    BY <1>1, JournalFields DEF StableInv, FilesInv, FileTypes, JournalOK
  <2>2. \A n \in 1 .. stable.counted :
          n \in 1 .. journal.counted /\ journal'.recs[n] = journal.recs[n]
    BY <2>1
  <2>3. QED
    BY <2>2 DEF Covers
<1>4. Image' = Image
  <2>1. CASE Hot(journal)
    <3>1. \A p \in Pages : p <= journal'.size =>
            Covers(journal', journal'.counted, p) \/ db[p] = Image[p]
      BY <2>1, <1>3 DEF FilesInv, HotInv, Intact
    <3>2. journal'.magic
      BY <2>1 DEF Hot
    <3>3. Recovered(db, journal') = Image
      BY <3>1, <3>2, ImageIsWhole, Restores
    <3>4. QED
      BY <3>3 DEF Image
  <2>2. CASE ~Hot(journal)
    BY <2>2, <1>2, ColdImage DEF Image
  <2>3. QED
    BY <2>1, <2>2
<1>5. Keeps
  BY <1>4 DEF Keeps, Before
<1>6. FileTypes' /\ ImageInv' /\ FirstPageInv' /\ GoneInv'
  BY <1>4 DEF FilesInv, FileTypes, ImageInv, FirstPageInv, GoneInv, Endures
<1>7. JournalInv'
  BY <1>1, <1>4, JournalFields DEF JournalInv, StableInv, FilesInv, FileTypes
<1>8. HotInv'
  BY <1>2, <1>3, <1>4 DEF FilesInv, HotInv, Synced, Intact, Endures
<1>9. QED
  BY <1>2, <1>4, <1>5, <1>6, <1>7, <1>8 DEF FilesInv

\* The file is synced.
LEMMA FileSynced ==
  ASSUME FilesInv, disk' = db, unsynced' = {}, UNCHANGED <<db, journal, stable, gone>>, Endures
  PROVE  FilesInv' /\ Keeps
<1>1. Image' = Image /\ Keeps
  BY DEF Image, Keeps, Before
<1>2. FileTypes' /\ ImageInv' /\ FirstPageInv' /\ GoneInv'
  BY <1>1 DEF FilesInv, FileTypes, ImageInv, FirstPageInv, GoneInv
<1>3. JournalInv'
  BY <1>1 DEF FilesInv, JournalInv, StableInv
<1>4. HotInv'
  BY <1>1 DEF FilesInv, HotInv, Synced, Intact
<1>5. QED
  BY <1>1, <1>2, <1>3, <1>4 DEF FilesInv

\* The journal is deleted.
LEMMA JournalDeleted ==
  ASSUME FilesInv, Synced, \E n \in 0 .. MaxPages : Whole(db, n),
         journal' = NoJournal, stable' = Unstable,
         gone' = IF stable.entry THEN journal ELSE gone,
         UNCHANGED <<db, disk, unsynced>>, Endures
  PROVE  FilesInv' /\ Image' = db /\ Before' \in {Before, Image} /\ (Hot(journal) => Before' = Image)
<1>1. Image' = db
  BY DEF Image, Recovered, Hot
<1>2. stable' \in [entry : BOOLEAN, recs : Nat, counted : Nat, magic : BOOLEAN]
  BY DEF Unstable
<1>3. \A p \in Pages : db[p] \in Contents \cup {Absent}
  BY DEF Whole
<1>4. FileTypes' /\ ImageInv' /\ FirstPageInv'
  BY <1>1, <1>2, <1>3 DEF FilesInv, FileTypes, ImageInv, FirstPageInv, Whole, Synced, Endures
<1>5. JournalInv' /\ HotInv'
  BY DEF JournalInv, HotInv, Hot, Synced, Endures
<1>6. GoneInv'
  BY DEF FilesInv, GoneInv, JournalInv, Image
<1>7. journal = NoJournal => ~stable.entry
  BY DEF FilesInv, JournalInv, Unstable
<1>8. Before' = IF stable.entry THEN Image ELSE Before
  <2>1. CASE stable.entry
    <3>1. gone' = journal /\ gone' # NoJournal
      BY <2>1, <1>7
    <3>2. Before' = Recovered(db, journal)
      BY <3>1 DEF Before
    <3>3. QED
      BY <2>1, <3>2 DEF Image
  <2>2. CASE ~stable.entry /\ gone = NoJournal
    <3>1. Before = Image /\ Before' = Image'
      BY <2>2 DEF Before
    <3>2. ~Hot(journal)
      BY <2>2 DEF FilesInv, HotInv
    <3>3. QED
      BY <2>2, <3>1, <3>2, <1>1, ImageIsWhole
  <2>3. CASE ~stable.entry /\ gone # NoJournal
    BY <2>3 DEF Before
  <2>4. QED
    BY <2>1, <2>2, <2>3
<1>9. Hot(journal) => stable.entry
  BY DEF FilesInv, HotInv
<1>10. QED
  BY <1>1, <1>4, <1>5, <1>6, <1>8, <1>9 DEF FilesInv
-----------------------------------------------------------------------------
(***************************************************************************)
(* A failure of the power.                                                 *)
(***************************************************************************)

\* The files hold database I, with nothing that is not on the disk.
LEMMA AtRest ==
  ASSUME NEW I, I \in [Pages -> Contents \cup {Absent}], \E n \in 0 .. MaxPages : Whole(I, n),
         db' \in [Pages -> Contents \cup {Absent, Torn}], I[1] # Absent => db'[1] # Absent,
         disk' = db', unsynced' = {}, gone' = NoJournal,
         stable' = IF journal' = NoJournal THEN Unstable ELSE AllOf(journal'),
         journal' # NoJournal => JournalOK(journal') /\ Holds(journal', I),
         Recovered(db', journal') = I,
         Hot(journal') => \A p \in Pages : p <= journal'.size =>
                            Covers(journal', journal'.counted, p) \/ db'[p] = I[p]
  PROVE  FilesInv' /\ Image' = I /\ Before' = I
<1>1. Image' = I /\ Before' = I
  BY DEF Image, Before
<1>2. journal' # NoJournal =>
        /\ stable'.entry /\ stable'.recs = Len(journal'.recs)
        /\ stable'.counted = journal'.counted /\ stable'.magic = journal'.magic
  BY DEF AllOf
<1>3. stable' \in [entry : BOOLEAN, recs : Nat, counted : Nat, magic : BOOLEAN]
  BY JournalFields DEF AllOf, Unstable
<1>4. FileTypes' /\ ImageInv' /\ FirstPageInv' /\ GoneInv'
  BY <1>1, <1>3 DEF FileTypes, ImageInv, FirstPageInv, GoneInv
<1>5. JournalInv'
  BY <1>1, <1>2, JournalFields DEF JournalInv, StableInv, JournalOK
<1>6. ASSUME Hot(journal'), NEW p \in Pages, p <= journal'.size
      PROVE  \/ Covers(journal', stable'.counted, p)
             \/ db'[p] = I[p] /\ disk'[p] = I[p] /\ p \notin unsynced'
  BY <1>2, <1>6 DEF Hot
<1>7. HotInv'
  BY <1>1, <1>2, <1>6 DEF HotInv, Hot, Synced, Intact
<1>8. QED
  BY <1>1, <1>4, <1>5, <1>7 DEF FilesInv

\* The part of the journal that is sure to survive, or a longer one.
LEMMA Survivors ==
  ASSUME FilesInv, journal # NoJournal, NEW k \in SurvivorsOf(journal)
  PROVE  /\ JournalOK(k) /\ Holds(k, Image) /\ k.size = journal.size
         /\ k.magic \in {stable.magic, journal.magic}
         /\ k.magic => journal.magic
         /\ stable.counted \in Nat /\ stable.counted <= k.counted /\ k.counted <= Len(k.recs)
         /\ \A n \in 1 .. Len(k.recs) : k.recs[n] = journal.recs[n]
<1>1. JournalOK(journal) /\ Holds(journal, Image) /\ StableInv
  BY DEF FilesInv, JournalInv
<1>2. PICK n \in stable.recs .. Len(journal.recs),
           h \in {[counted |-> stable.counted, magic |-> stable.magic],
                  [counted |-> journal.counted, magic |-> journal.magic]} :
        k = [size |-> journal.size, recs |-> SubSeq(journal.recs, 1, n),
             counted |-> h.counted, magic |-> h.magic]
  BY DEF SurvivorsOf
<1>3. /\ stable.recs \in Nat /\ stable.counted \in Nat /\ stable.magic \in BOOLEAN
      /\ stable.counted <= journal.counted /\ journal.counted <= stable.recs
      /\ stable.magic => journal.magic
  BY <1>1 DEF StableInv, FilesInv, FileTypes
<1>4. journal.counted \in Nat /\ journal.magic \in BOOLEAN /\ Len(journal.recs) \in Nat
  BY <1>1, JournalFields
<1>5. n \in 0 .. Len(journal.recs) /\ stable.recs <= n
  BY <1>3, <1>4
<1>6. /\ h.counted \in {stable.counted, journal.counted}
      /\ h.magic \in {stable.magic, journal.magic}
      /\ h.magic \in BOOLEAN
  BY <1>3, <1>4
<1>7. h.counted \in 0 .. n /\ stable.counted <= h.counted
  BY <1>3, <1>4, <1>5, <1>6
<1>8. /\ JournalOK(k) /\ k.size = journal.size /\ k.counted = h.counted /\ k.magic = h.magic
      /\ Len(k.recs) = n
      /\ \A i \in 1 .. n : k.recs[i] = journal.recs[i]
  BY <1>1, <1>2, <1>5, <1>6, <1>7, Cut
<1>9. \A i \in 1 .. n : i \in 1 .. Len(journal.recs)
  BY <1>4, <1>5
<1>10. Holds(k, Image)
  BY <1>1, <1>8, <1>9 DEF Holds
<1>11. QED
  BY <1>3, <1>5, <1>6, <1>7, <1>8, <1>10

\* A deleted journal that is back restores the database before the last commit.
LEMMA BroughtBack ==
  ASSUME NEW f, f \in [Pages -> Contents \cup {Absent}],
         NEW j, JournalOK(j), Holds(j, Recovered(f, j))
  PROVE  /\ Recovered(f, j) \in [Pages -> Contents \cup {Absent}]
         /\ \E n \in 0 .. MaxPages : Whole(Recovered(f, j), n)
         /\ Hot(j) => \A p \in Pages : p <= j.size =>
                        Covers(j, j.counted, p) \/ f[p] = Recovered(f, j)[p]
<1>1. j.size \in 0 .. MaxPages /\ Whole(Recovered(f, j), j.size)
  BY JournalFields DEF Holds
<1>2. CASE Hot(j)
  <2>1. j.magic
    BY <1>2 DEF Hot
  <2>2. Recovered(f, j) = [p \in Pages |-> Recovered(f, j)[p]]
    BY <2>1, HotImage
  <2>3. \A p \in Pages : Recovered(f, j)[p] \in Contents \cup {Absent}
    BY <1>1 DEF Whole
  <2>4. Recovered(f, j) \in [Pages -> Contents \cup {Absent}]
    BY <2>2, <2>3
  <2>5. \A p \in Pages : p <= j.size => Covers(j, j.counted, p) \/ f[p] = Recovered(f, j)[p]
    BY <2>1, <1>1, HotImage, ConstantsAssumption DEF Pages
  <2>6. QED
    BY <1>1, <2>4, <2>5
<1>3. CASE ~Hot(j)
  BY <1>1, <1>3, ColdImage
<1>4. QED
  BY <1>2, <1>3

LEMMA PagesSurvive ==
  ASSUME FileTypes, NEW f \in SurvivingPages
  PROVE  /\ f \in [Pages -> Contents \cup {Absent, Torn}]
         /\ unsynced = {} => f = disk
         /\ \A p \in Pages : /\ f[p] \in {db[p], Torn, disk[p]}
                             /\ p \notin unsynced => f[p] = disk[p]
<1>1. PICK new \in SUBSET unsynced, torn \in SUBSET unsynced :
        f = [p \in Pages |-> CASE p \in new -> db[p] [] p \in torn \ new -> Torn [] OTHER -> disk[p]]
  BY DEF SurvivingPages
<1>2. \A p \in Pages : /\ f[p] \in {db[p], Torn, disk[p]}
                       /\ p \notin unsynced => f[p] = disk[p]
  BY <1>1
<1>3. /\ db \in [Pages -> Contents \cup {Absent, Torn}]
      /\ disk \in [Pages -> Contents \cup {Absent, Torn}]
  BY DEF FileTypes
<1>4. \A p \in Pages : f[p] \in Contents \cup {Absent, Torn}
  BY <1>2, <1>3
<1>5. f \in [Pages -> Contents \cup {Absent, Torn}]
  BY <1>1, <1>4
<1>6. unsynced = {} => f = disk
  BY <1>2, <1>3, <1>5
<1>7. QED
  BY <1>2, <1>5, <1>6

LEMMA PowerLost ==
  ASSUME FilesInv, ~Spared, Image[1] = Absent => Before[1] = Absent,
         db' \in SurvivingPages, disk' = db', unsynced' = {},
         journal' \in SurvivingJournals, gone' = NoJournal,
         stable' = IF journal' = NoJournal THEN Unstable ELSE AllOf(journal')
  PROVE  FilesInv' /\ Image' \in {Image, Before} /\ Before' = Image'
<1>1. \A p \in Pages : /\ db'[p] \in {db[p], Torn, disk[p]}
                       /\ p \notin unsynced => db'[p] = disk[p]
  BY PagesSurvive DEF FilesInv
<1>2. unsynced = {} => db' = disk
  BY PagesSurvive DEF FilesInv
<1>3. Image[1] # Absent => db[1] # Absent /\ disk[1] # Absent /\ 1 \in Pages
  BY ConstantsAssumption DEF FilesInv, FirstPageInv, Pages
<1>4. db' \in [Pages -> Contents \cup {Absent, Torn}]
  BY PagesSurvive DEF FilesInv
<1>5. Image[1] # Absent => db'[1] # Absent
  BY <1>1, <1>3, ConstantsAssumption
<1>6. Image \in [Pages -> Contents \cup {Absent}] /\ \E n \in 0 .. MaxPages : Whole(Image, n)
  BY DEF FilesInv, ImageInv
<1>7. CASE ~Hot(journal)
  <2>1. db' = db /\ Image = db
    BY <1>2, <1>7, ImageIsWhole DEF Synced
  <2>2. CASE journal' = NoJournal
    <3>1. ~Hot(journal') /\ Recovered(db', journal') = Image
      BY <2>1, <2>2, ColdImage DEF Hot
    <3>2. QED
      BY <1>4, <1>5, <1>6, <2>2, <3>1, AtRest
  <2>3. CASE journal' = gone /\ gone # NoJournal
    <3>1. JournalOK(gone) /\ Holds(gone, Recovered(db, gone)) /\ Before = Recovered(db, gone)
      BY <2>3 DEF FilesInv, GoneInv, Before
    <3>2. /\ Recovered(db, gone) \in [Pages -> Contents \cup {Absent}]
          /\ \E n \in 0 .. MaxPages : Whole(Recovered(db, gone), n)
          /\ Hot(gone) => \A p \in Pages : p <= gone.size =>
                            Covers(gone, gone.counted, p) \/ db[p] = Recovered(db, gone)[p]
      BY <1>6, <2>1, <3>1, BroughtBack
    <3>3. FilesInv' /\ Image' = Recovered(db, gone) /\ Before' = Recovered(db, gone)
      BY <1>4, <1>5, <2>1, <2>3, <3>1, <3>2, AtRest
    <3>4. QED
      BY <3>1, <3>3
  <2>4. CASE journal # NoJournal /\ journal' \in SurvivorsOf(journal)
    <3>1. ~journal.magic
      BY <1>7, <2>4 DEF Hot
    <3>2. JournalOK(journal') /\ Holds(journal', Image) /\ ~journal'.magic
      BY <2>4, <3>1, Survivors
    <3>3. ~Hot(journal') /\ Recovered(db', journal') = Image
      BY <2>1, <3>2, ColdImage DEF Hot
    <3>4. QED
      BY <1>4, <1>5, <1>6, <3>2, <3>3, AtRest
  <2>5. QED
    BY <2>2, <2>3, <2>4 DEF SurvivingJournals
<1>8. CASE Hot(journal)
  <2>1. journal # NoJournal /\ journal' \in SurvivorsOf(journal)
    BY <1>8 DEF Hot, SurvivingJournals, FilesInv, HotInv
  <2>2. /\ JournalOK(journal') /\ Holds(journal', Image) /\ journal'.size = journal.size
        /\ journal'.magic \in {stable.magic, journal.magic}
        /\ stable.counted \in Nat /\ stable.counted <= journal'.counted
        /\ journal'.counted <= Len(journal'.recs)
        /\ \A n \in 1 .. Len(journal'.recs) : journal'.recs[n] = journal.recs[n]
    BY <2>1, Survivors
  <2>3. journal'.counted \in Nat /\ Len(journal'.recs) \in Nat
    BY <2>2, JournalFields
  <2>4. \A p \in Pages :
          Covers(journal, stable.counted, p) => Covers(journal', journal'.counted, p)
    <3>1. \A n \in 1 .. stable.counted : n \in 1 .. journal'.counted /\ journal'.recs[n] = journal.recs[n]
      BY <2>2, <2>3
    <3>2. QED
      BY <3>1 DEF Covers
  <2>5. \A p \in Pages : p <= journal'.size =>
          Covers(journal', journal'.counted, p) \/ db'[p] = Image[p]
    BY <1>1, <1>8, <2>2, <2>4 DEF FilesInv, HotInv, Intact
  <2>6. CASE journal'.magic
    <3>1. Recovered(db', journal') = Image
      BY <2>2, <2>5, <2>6, ImageIsWhole, Restores
    <3>2. QED
      BY <1>4, <1>5, <1>6, <2>2, <2>5, <3>1, AtRest
  <2>7. CASE ~journal'.magic
    <3>1. ~stable.magic
      BY <1>8, <2>2, <2>7 DEF Hot
    <3>2. Synced /\ db = Image
      BY <1>8, <3>1 DEF FilesInv, HotInv
    <3>3. db' = Image
      BY <1>2, <3>2 DEF Synced
    <3>4. ~Hot(journal') /\ Recovered(db', journal') = Image
      BY <2>7, <3>3, ColdImage DEF Hot
    <3>5. QED
      BY <1>4, <1>5, <1>6, <2>2, <3>4, AtRest
  <2>8. QED
    BY <2>6, <2>7
<1>9. QED
  BY <1>7, <1>8
-----------------------------------------------------------------------------
(***************************************************************************)
(* What a step leaves of the invariant to the connection that takes it.    *)
(***************************************************************************)

\* What the step does to the database, in the words of Store.
StoreStep ==
  \/ Keeps
  \/ Image' # Image /\ Image' \in [Pages -> Contents \cup {Absent}] /\ Before' = Image
  \/ Image' \in {Image, Before} /\ Before' = Image'

Aside(d) == pc'[d] = pc[d] /\ lock'[d] = lock[d] /\ cache'[d] = cache[d] /\ vers'[d] = vers[d]

LEMMA CacheStays ==
  ASSUME NEW d, Image' = Image, cache'[d] = cache[d], vers'[d] = vers[d]
  PROVE  (Kept(d)' <=> Kept(d)) /\ (Current(d)' <=> Current(d)) /\ (Agrees(d)' <=> Agrees(d))
<1>1. Agrees(d)' <=> Agrees(d)
  BY DEF Agrees
<1>2. QED
  BY <1>1 DEF Kept, Current

LEMMA StandsAside ==
  ASSUME NEW d \in Conns, ConnInv(d), Aside(d), Endures,
         UNCHANGED <<files, writer, txns>>
  PROVE  ConnInv(d)'
<1>1. Image' = Image
  BY DEF files, Image
<1>2. (Kept(d)' <=> Kept(d)) /\ (Current(d)' <=> Current(d))
  BY <1>1, CacheStays DEF Aside
<1>3. (Clean => Clean') /\ (Synced => Synced')
  BY DEF Clean, Synced, files, Endures
<1>4. WriterInv(d) => WriterInv(d)'
  BY <1>1, <1>3 DEF WriterInv, Aside, files, writer
<1>5. DirtyInv(d)' <=> DirtyInv(d)
  BY DEF DirtyInv, Aside, files, writer, InJournal
<1>6. CounterInv(d)' <=> CounterInv(d)
  BY <1>1 DEF CounterInv, Counts, Aside, files, writer
<1>7. PlaybackInv(d)' <=> PlaybackInv(d)
  BY DEF PlaybackInv, Aside, files, writer
<1>8. QED
  BY <1>1, <1>2, <1>3, <1>4, <1>5, <1>6, <1>7
     DEF ConnInv, Waits, Sees, Changes, Aside, files, writer

LEMMA StaysIdle ==
  ASSUME NEW d \in Conns, ConnInv(d), Aside(d), pc[d] \in Idle, Image' = Image, Endures,
         txns \in Nat, txns' \in Nat, txns <= txns',
         Hot(journal') => pc[d] = "open" \/ (Hot(journal) /\ UNCHANGED db)
  PROVE  ConnInv(d)'
<1>1. (Kept(d)' <=> Kept(d)) /\ (Current(d)' <=> Current(d))
  BY CacheStays DEF Aside
<1>2. pc[d] # "open" /\ Clean => Clean'
  BY DEF Clean, Endures
<1>3. vers'[d] \in 0 .. 2 * txns'
  BY DEF ConnInv, Aside
<1>4. QED
  BY <1>1, <1>2, <1>3 DEF ConnInv, Waits, Sees, Changes, Aside, Idle, Ends

\* Next to a connection that may change something, the others are idle.
LEMMA OthersIdle ==
  ASSUME LockInv, NEW c \in Conns, NEW d \in Others(c)
  PROVE  /\ d \in Conns
         /\ MayReserve(c) => pc[d] \in Idle
         /\ lock[c] > Shared => pc[d] \in Idle
         /\ lock[c] = Exclusive => pc[d] = "open"
<1>1. d \in Conns /\ LockOfStep(d) /\ lock[d] \in Levels /\ lock[c] \in Levels /\ pc[d] \in Steps
  BY DEF LockInv, LockTypes, Others
<1>2. lock[d] <= Shared => pc[d] \in Idle
  BY <1>1 DEF LockOfStep, Rewriting, Idle, Steps
<1>3. QED
  BY <1>1, <1>2, KeepsApart DEF MayReserve, LockOfStep

\* A connection takes a step that keeps the database.
LEMMA StepKeeps ==
  ASSUME IInv, NEW c \in Conns, LockInv', GlobalTypes', FilesInv', Keeps, txns <= txns', Endures,
         \A d \in Others(c) : Aside(d),
         \/ UNCHANGED <<files, writer, txns>>
         \/ \A d \in Others(c) :
              pc[d] \in Idle /\ (Hot(journal') => pc[d] = "open" \/ (Hot(journal) /\ UNCHANGED db)),
         pc'[c] \in Idle =>
           \/ dirty' = {} /\ task' = "none" /\ (Hot(journal') => faults' # 0)
           \/ UNCHANGED <<dirty, task>> /\ pc[c] \in Idle /\ (Hot(journal') => Hot(journal)),
         ConnInv(c)'
  PROVE  IInv' /\ StoreStep
<1>1. Image' = Image /\ Before' \in {Before, Image}
  BY DEF Keeps
<1>2. \A d \in Others(c) : d \in Conns /\ ConnInv(d)
  BY DEF Others, IInv
<1>3. txns \in Nat /\ txns' \in Nat
  BY DEF IInv, GlobalTypes
<1>4. \A d \in Others(c) : ConnInv(d)'
  BY <1>1, <1>2, <1>3, StandsAside, StaysIdle
<1>5. \A d \in Conns : ConnInv(d)'
  BY <1>4 DEF Others
<1>6. BoundInv'
  <2>1. Version(Image) \in Int /\ Version(Before) \in Int
    BY ImageIsWhole, BeforeIsWhole, ConstantsAssumption DEF IInv, Contents
  <2>2. Version(Image)' = Version(Image) /\ Version(Before)' \in {Version(Image), Version(Before)}
    BY <1>1 DEF Version
  <2>3. QED
    BY <1>3, <2>1, <2>2 DEF IInv, BoundInv
<1>7. NewInv'
  BY <1>1 DEF IInv, NewInv
<1>8. IdleInv'
  <2> SUFFICES ASSUME \A d \in Conns : pc'[d] \in Idle
               PROVE  Left'
    BY DEF IdleInv
  <2>1. CASE UNCHANGED <<dirty, task>> /\ pc[c] \in Idle /\ (Hot(journal') => Hot(journal))
    <3>1. \A d \in Conns : pc[d] \in Idle
      BY <1>2, <2>1 DEF Others, Aside
    <3>2. QED
      BY <2>1, <3>1 DEF IInv, IdleInv, Left, Endures
  <2>2. QED
    BY <2>1 DEF Left
<1>9. QED
  BY <1>5, <1>6, <1>7, <1>8 DEF IInv, StoreStep

CacheTypes(c) == cache[c] \in [Pages -> Contents \cup {Absent}] /\ vers[c] \in 0 .. 2 * txns

LEMMA Waiting ==
  ASSUME NEW c \in Conns, pc'[c] \in Idle \ {"reader"}, CacheTypes(c)', Kept(c)',
         pc'[c] = "validate" => Clean'
  PROVE  ConnInv(c)'
  BY DEF ConnInv, CacheTypes, Waits, Sees, Changes, Idle, Ends

LEMMA Reading ==
  ASSUME NEW c \in Conns, pc'[c] = "reader", CacheTypes(c)', Current(c)', Clean'
  PROVE  ConnInv(c)'
  BY DEF ConnInv, CacheTypes, Waits, Sees, Changes, Idle, Ends

LEMMA Writing ==
  ASSUME NEW c \in Conns, CacheTypes(c)', WriterInv(c)', DirtyInv(c)', CounterInv(c)',
         \/ pc'[c] \in {"writing", "upgrade", "sync", "header", "syncheader", "write"}
         \/ pc'[c] \in {"dbsync", "unjournal"} /\ task' = "commit",
         pc'[c] = "unjournal" => Synced'
  PROVE  ConnInv(c)'
  BY DEF ConnInv, CacheTypes, Waits, Sees, Changes, Idle, Ends, WriterInv

LEMMA EndingRollback ==
  ASSUME NEW c \in Conns, pc'[c] \in Ends, task' \in {"rollback", "recovery"}, dirty' = {},
         CacheTypes(c)',
         task' = "rollback" => Current(c)',
         task' = "recovery" => Kept(c)',
         pc'[c] = "downgrade" => Clean',
         pc'[c] = "unjournal" => lock'[c] = Exclusive \/ ~Hot(journal'),
         pc'[c] \in {"truncate", "replay"} => PlaybackInv(c)',
         pc'[c] \in {"dbsync", "unjournal"} => db' = Image',
         pc'[c] = "unjournal" => Synced'
  PROVE  ConnInv(c)'
  BY DEF ConnInv, CacheTypes, Waits, Sees, Changes, Idle, Ends

\* The types of what a step gives a connection.
LEMMA CacheTyped ==
  ASSUME GlobalTypes, NEW c \in Conns
  PROVE  /\ CacheTypes(c)
         /\ UNCHANGED cache \/ (\E f : f \in [Pages -> Contents \cup {Absent}] /\ SetCache(c, f)) =>
              cache' \in [Conns -> [Pages -> Contents \cup {Absent}]]
         /\ UNCHANGED vers \/ (\E v : v \in 0 .. 2 * txns /\ vers' = [vers EXCEPT ![c] = v]) =>
              vers' \in [Conns -> 0 .. 2 * txns]
  BY DEF GlobalTypes, CacheTypes, SetCache

\* A connection that changes the database.
LEMMA WriterIs ==
  ASSUME IInv, NEW c \in Conns,
         pc[c] \in {"writing", "upgrade", "sync", "header", "syncheader", "write"}
           \/ (pc[c] \in {"dbsync", "unjournal"} /\ task = "commit")
  PROVE  /\ WriterInv(c) /\ DirtyInv(c) /\ CounterInv(c)
         /\ pc[c] = "unjournal" => Synced
         /\ \A d \in Others(c) : d \in Conns /\ pc[d] \in Idle
         /\ pc[c] # "writing" /\ pc[c] # "upgrade" => \A d \in Others(c) : pc[d] = "open"
<1>1. ConnInv(c) /\ LockOfStep(c) /\ lock[c] \in Levels
  BY DEF IInv, LockInv, LockTypes
<1>2. Changes(c) /\ WriterInv(c)
  BY <1>1 DEF Changes, ConnInv
<1>3. lock[c] > Shared
  BY <1>1 DEF LockOfStep, Rewriting
<1>4. pc[c] # "writing" /\ pc[c] # "upgrade" => lock[c] = Exclusive
  BY <1>1, <1>2 DEF LockOfStep, Rewriting, WriterInv
<1>5. QED
  BY <1>1, <1>2, <1>3, <1>4, OthersIdle DEF ConnInv, IInv

LEMMA OnlyOne ==
  ASSUME LockInv, GlobalTypes, NEW c \in Conns,
         UNCHANGED pc \/ (\E p : Goto(c, p)),
         UNCHANGED lock \/ (\E l : SetLock(c, l)),
         UNCHANGED cache \/ (\E f : SetCache(c, f)),
         UNCHANGED vers \/ (\E v : vers' = [vers EXCEPT ![c] = v])
  PROVE  \A d \in Others(c) : Aside(d)
<1> SUFFICES ASSUME NEW d \in Others(c)
             PROVE  Aside(d)
  OBVIOUS
<1>1. d \in Conns /\ d # c
  BY DEF Others
<1>2. pc'[d] = pc[d] /\ lock'[d] = lock[d]
  BY <1>1 DEF Goto, SetLock, LockInv, LockTypes
<1>3. cache'[d] = cache[d] /\ vers'[d] = vers[d]
  BY <1>1 DEF SetCache, GlobalTypes
<1>4. QED
  BY <1>2, <1>3 DEF Aside

LEMMA GoesTo ==
  ASSUME LockInv, NEW c \in Conns, NEW p, Goto(c, p)
  PROVE  pc'[c] = p
  BY DEF LockInv, LockTypes, Goto

\* Who sees the database may go on waiting.
LEMMA CurrentIsKept ==
  ASSUME FilesInv, NEW c \in Conns, vers[c] \in Nat,
         cache[c] \in [Pages -> Contents \cup {Absent}], Current(c)
  PROVE  Kept(c)
<1>1. CASE Image[1] = Absent
  <2>1. Image = NoPages
    BY <1>1, ImageIsWhole
  <2>2. \A p \in Pages : cache[c][p] = Absent
    BY <2>1 DEF Current, Agrees, NoPages
  <2>3. cache[c] = NoPages
    BY <2>2 DEF NoPages
  <2>4. QED
    BY <2>3 DEF Kept
<1>2. CASE Image[1] # Absent
  BY <1>2, ImageIsWhole DEF Kept, Current, Version
<1>3. QED
  BY <1>1, <1>2

\* A connection that waits goes on, with nothing changed but its place and its lock.
LEMMA WaitingGoesOn ==
  ASSUME IInv, NEW c \in Conns, LockInv', NEW p \in Idle \ {"reader"}, Goto(c, p),
         pc[c] \in Idle, p = "validate" => Clean,
         UNCHANGED lock \/ (\E l : SetLock(c, l)),
         UNCHANGED <<files, cache, vers, writer, txns, faults>>
  PROVE  IInv' /\ StoreStep
<1>1. pc'[c] = p
  BY GoesTo DEF IInv
<1>2. FilesInv' /\ Keeps /\ Image' = Image /\ Endures
  BY FilesUntouched DEF IInv, Keeps, Endures, Spared
<1>3. GlobalTypes'
  BY DEF IInv, GlobalTypes, writer
<1>4. \A d \in Others(c) : Aside(d)
  BY OnlyOne DEF IInv
<1>5. CacheTypes(c)'
  BY <1>3 DEF CacheTypes, GlobalTypes
<1>6. Kept(c)
  <2>1. ConnInv(c)
    BY DEF IInv
  <2>2. CASE pc[c] = "reader"
    BY <2>1, <2>2, CurrentIsKept DEF ConnInv, Sees, IInv
  <2>3. CASE pc[c] # "reader"
    BY <2>1, <2>3 DEF ConnInv, Waits
  <2>4. QED
    BY <2>2, <2>3
<1>7. Kept(c)'
  BY <1>2, <1>6, CacheStays
<1>8. ConnInv(c)'
  BY <1>1, <1>5, <1>7, Waiting DEF files, Clean, Spared
<1>9. txns <= txns'
  BY DEF IInv, GlobalTypes
<1>10. QED
  BY <1>1, <1>2, <1>3, <1>4, <1>8, <1>9, StepKeeps DEF files, writer

LEMMA AcquireSharedKeeps ==
  ASSUME IInv, NEW c \in Conns, AcquireShared(c)
  PROVE  IInv' /\ StoreStep
<1>1. LockInv'
  BY OpeningStep DEF Opening, IInv
<1>2. QED
  BY <1>1, WaitingGoesOn DEF AcquireShared, Idle

LEMMA JournalExistsKeeps ==
  ASSUME IInv, NEW c \in Conns, JournalExists(c)
  PROVE  IInv' /\ StoreStep
<1>1. LockInv'
  BY OpeningStep DEF Opening, IInv
<1>2. QED
  BY <1>1, WaitingGoesOn DEF JournalExists, Idle, Hot, Clean

LEMMA CheckReservedKeeps ==
  ASSUME IInv, NEW c \in Conns, ~AboutToMistake(c), CheckReserved(c)
  PROVE  IInv' /\ StoreStep
<1>1. LockInv'
  BY OpeningStep DEF IInv
<1>2. QED
  BY <1>1, WaitingGoesOn DEF CheckReserved, AboutToMistake, Idle, Clean

\* The journal of an empty file, where a connection finds one: it has nothing to
\* restore, and nothing fails any more that might bring pages back.
LEMMA NewFile ==
  ASSUME IInv, NEW c \in Conns, pc[c] = "unreserved", db = NoPages
  PROVE  Clean
<1>1. MaxFaults <= 1
  <2>1. db[1] = Absent
    BY ConstantsAssumption DEF NoPages, Pages
  <2>2. QED
    BY <2>1 DEF IInv, FilesInv, FirstPageInv, NewInv
<1>2. CASE \A d \in Conns : pc[d] \in Idle
  <2>1. Hot(journal) => faults # 0
    BY <1>2 DEF IInv, IdleInv, Left
  <2>2. faults \in 0 .. MaxFaults /\ MaxFaults \in Nat
    BY ConstantsAssumption DEF IInv, GlobalTypes
  <2>3. QED
    BY <1>1, <2>1, <2>2 DEF Clean, Spared
<1>3. ASSUME NEW d \in Conns, pc[d] \notin Idle
      PROVE  Clean
  <2>1. lock[c] = Shared /\ d \in Others(c) /\ c \in Others(d)
    BY <1>3 DEF IInv, LockInv, LockOfStep, Others, Idle
  <2>2. lock[d] # Exclusive
    BY <2>1 DEF IInv, LockInv, Apart
  <2>3. pc[d] \in {"writing", "upgrade", "unjournal", "downgrade"} /\ eState # "LOCKED" =>
          pc[d] \in {"unjournal", "downgrade"} \/ eState # "DBMOD"
    BY <2>2 DEF IInv, LockInv, LockOfStep
  <2>4. pc[d] \in {"writing", "upgrade", "unjournal", "downgrade"}
    BY <1>3, <2>2 DEF IInv, LockInv, LockTypes, LockOfStep, Rewriting, Idle, Steps
  <2>5. ConnInv(d)
    BY DEF IInv
  <2>6. CASE pc[d] \in {"unjournal", "downgrade"}
    BY <2>2, <2>5, <2>6 DEF ConnInv, Clean
  <2>7. CASE pc[d] \in {"writing", "upgrade"}
    <3>1. WriterInv(d)
      BY <2>5, <2>7 DEF ConnInv, Changes
    <3>2. QED
      BY <2>3, <2>7, <3>1 DEF WriterInv, Clean
  <2>8. QED
    BY <2>4, <2>6, <2>7
<1>4. QED
  BY <1>2, <1>3

LEMMA CheckHeaderKeeps ==
  ASSUME IInv, NEW c \in Conns, CheckHeader(c)
  PROVE  IInv' /\ StoreStep
<1>1. LockInv' /\ LockInv /\ GlobalTypes /\ FilesInv /\ pc[c] = "unreserved"
  BY OpeningStep DEF Opening, IInv, CheckHeader
<1>2. CASE db # NoPages
  <2>1. UNCHANGED files
    BY <1>2 DEF CheckHeader, files
  <2>2. QED
    BY <1>1, <1>2, <2>1, WaitingGoesOn DEF CheckHeader, Idle, Clean
<1>3. CASE db = NoPages /\ ~MayReserve(c)
  <2>1. UNCHANGED files
    BY <1>3 DEF CheckHeader, files
  <2>2. QED
    BY <1>1, <1>3, <2>1, NewFile, WaitingGoesOn DEF CheckHeader, Idle
<1>4. CASE db = NoPages /\ MayReserve(c)
  <2>1. /\ Goto(c, "validate") /\ journal' = NoJournal /\ stable' = Unstable
        /\ gone' = IF stable.entry THEN journal ELSE gone
        /\ UNCHANGED <<db, disk, unsynced, lock, cache, vers, writer, txns, faults>>
    BY <1>4 DEF CheckHeader
  <2>2. Clean /\ Image = db /\ Synced
    BY <1>1, <1>4, NewFile, ImageIsWhole
  <2>3. Whole(db, 0)
    BY <1>4, ConstantsAssumption DEF Whole, NoPages, Pages
  <2>4. FilesInv' /\ Keeps /\ Image' = Image /\ Endures
    BY <1>1, <2>1, <2>2, <2>3, JournalDeleted, ConstantsAssumption DEF Keeps, Endures, Spared
  <2>5. GlobalTypes' /\ txns <= txns'
    BY <1>1, <2>1 DEF GlobalTypes, writer
  <2>6. \A d \in Others(c) : Aside(d) /\ d \in Conns /\ pc[d] \in Idle
    BY <1>1, <1>4, <2>1, OnlyOne, OthersIdle
  <2>7. pc'[c] = "validate" /\ ~Hot(journal')
    BY <1>1, <2>1, GoesTo DEF Hot
  <2>8. Kept(c)'
    BY <1>1, <2>1, <2>4, CacheStays DEF IInv, ConnInv, Waits, Idle
  <2>9. ConnInv(c)'
    BY <2>5, <2>7, <2>8, Waiting DEF CacheTypes, GlobalTypes, Idle, Clean
  <2>10. QED
    BY <1>1, <2>1, <2>4, <2>5, <2>6, <2>7, <2>9, StepKeeps DEF writer, Idle
<1>5. QED
  BY <1>2, <1>3, <1>4

LEMMA LockForRecoveryKeeps ==
  ASSUME IInv, NEW c \in Conns, LockForRecovery(c)
  PROVE  IInv' /\ StoreStep
<1>1. LockInv'
  BY OpeningStep DEF Opening, IInv
<1>2. QED
  BY <1>1, WaitingGoesOn DEF LockForRecovery, Idle

LEMMA LetGoKeeps ==
  ASSUME IInv, NEW c \in Conns, LetGo(c)
  PROVE  IInv' /\ StoreStep
<1>1. LockInv'
  BY OpeningStep DEF Opening, IInv
<1>2. QED
  BY <1>1, WaitingGoesOn DEF LetGo, Idle

\* The cache is empty.
LEMMA EmptyCache ==
  ASSUME NEW c, cache'[c] = NoPages
  PROVE  /\ Kept(c)'
         /\ NoPages \in [Pages -> Contents \cup {Absent}]
  BY DEF Kept, NoPages

LEMMA OpenHotJournalKeeps ==
  ASSUME IInv, NEW c \in Conns, OpenHotJournal(c)
  PROVE  IInv' /\ StoreStep
<1>1. LockInv' /\ LockInv /\ GlobalTypes /\ FilesInv /\ ConnInv(c) /\ pc[c] = "exclusive"
  BY OpeningStep DEF Opening, IInv, OpenHotJournal
<1>2. CASE journal = NoJournal
  <2>1. UNCHANGED <<files, cache, vers, writer, txns, faults>>
    BY <1>2 DEF OpenHotJournal, files, writer
  <2>2. QED
    BY <1>1, <1>2, <2>1, WaitingGoesOn DEF OpenHotJournal, Idle, Hot, Clean
<1>3. CASE journal # NoJournal
  <2>1. /\ stable' = AllOf(journal) /\ UNCHANGED <<db, disk, unsynced, journal, gone>>
        /\ SetCache(c, IF Restorable(journal) > 0 THEN NoPages ELSE cache[c])
        /\ task' = "recovery" /\ played' = 0 /\ UNCHANGED <<vers, dirty, eState, txns, faults, lock>>
        /\ Goto(c, IF Hot(journal) THEN "truncate" ELSE "dbsync")
    BY <1>3 DEF OpenHotJournal
  <2>2. FilesInv' /\ Keeps /\ Image' = Image /\ Endures
    BY <1>1, <1>3, <2>1, JournalSynced, NothingFails DEF Keeps
  <2>3. cache[c] \in [Pages -> Contents \cup {Absent}] /\ NoPages \in [Pages -> Contents \cup {Absent}]
    BY <1>1, EmptyCache DEF ConnInv, NoPages
  <2>4. /\ cache' \in [Conns -> [Pages -> Contents \cup {Absent}]]
        /\ cache'[c] \in {NoPages, cache[c]}
    BY <1>1, <2>1, <2>3 DEF SetCache, GlobalTypes
  <2>5. GlobalTypes'
    BY <1>1, <2>1, <2>4, ConstantsAssumption DEF GlobalTypes
  <2>6. \A d \in Others(c) : Aside(d)
    BY <1>1, <2>1, OnlyOne
  <2>7. lock[c] = Exclusive
    BY <1>1 DEF LockInv, LockOfStep, Rewriting
  <2>8. \A d \in Others(c) : d \in Conns /\ pc[d] = "open"
    BY <1>1, <2>7, OthersIdle
  <2>9. dirty = {}
    <3>1. \A d \in Conns : pc[d] \in Idle
      BY <1>1, <2>8 DEF Others, Idle
    <3>2. QED
      BY <3>1 DEF IInv, IdleInv, Left
  <2>10. Kept(c)
    BY <1>1 DEF ConnInv, Waits, Idle
  <2>11. Kept(c)'
    <3>1. CASE cache'[c] = NoPages
      BY <3>1, EmptyCache
    <3>2. CASE cache'[c] = cache[c]
      BY <2>1, <2>2, <2>10, <3>2, CacheStays
    <3>3. QED
      BY <2>4, <3>1, <3>2
  <2>12. pc'[c] = IF Hot(journal) THEN "truncate" ELSE "dbsync"
    BY <1>1, <2>1, GoesTo
  <2>13. Hot(journal) => PlaybackInv(c)'
    <3>1. stable'.magic = journal.magic /\ stable'.counted = journal.counted
      BY <2>1 DEF AllOf
    <3>2. QED
      BY <2>1, <2>12, <3>1 DEF PlaybackInv, Hot
  <2>14. ~Hot(journal) => db' = Image'
    BY <1>1, <2>1, <2>2, ImageIsWhole
  <2>15. ConnInv(c)'
    BY <2>1, <2>4, <2>5, <2>9, <2>11, <2>12, <2>13, <2>14, EndingRollback
       DEF CacheTypes, Ends, GlobalTypes
  <2>16. pc'[c] \notin Idle /\ txns <= txns' /\ (Hot(journal') => Hot(journal))
    BY <1>1, <2>1, <2>12 DEF Idle, GlobalTypes
  <2>17. \A d \in Others(c) : pc[d] \in Idle /\ pc[d] = "open"
    BY <2>8 DEF Idle
  <2>18. QED
    BY <1>1, <2>2, <2>5, <2>6, <2>15, <2>16, <2>17, StepKeeps
<1>4. QED
  BY <1>2, <1>3

LEMMA ValidateKeeps ==
  ASSUME IInv, NEW c \in Conns, Validate(c)
  PROVE  IInv' /\ StoreStep
<1>1. LockInv' /\ LockInv /\ GlobalTypes /\ FilesInv /\ ConnInv(c) /\ pc[c] = "validate"
  BY OpeningStep DEF Opening, IInv, Validate
<1>2. FilesInv' /\ Keeps /\ Image' = Image /\ Endures
  BY <1>1, FilesUntouched, NothingFails DEF Keeps, Validate
<1>3. /\ Clean /\ db = Image /\ 1 \in Pages /\ Image \in [Pages -> Contents \cup {Absent}]
      /\ Version(Image) \in 0 .. 2 * txns
  BY <1>1, ImageIsWhole, ConstantsAssumption DEF ConnInv, Pages, Contents, IInv, BoundInv
<1>4. Kept(c) /\ cache[c] \in [Pages -> Contents \cup {Absent}] /\ vers[c] \in 0 .. 2 * txns
  BY <1>1 DEF ConnInv, Waits, Idle
<1> DEFINE kept == IF vers[c] = Version(Image) THEN cache[c] ELSE NoPages
           read == [kept EXCEPT ![1] = IF kept[1] = Absent THEN Image[1] ELSE kept[1]]
<1>5. SetCache(c, read)
  BY <1>3 DEF Validate, Valid, Version
<1>6. vers' = [vers EXCEPT ![c] = IF Image[1] # Absent THEN Image[1] ELSE vers[c]]
  <2>1. db[1] = Image[1] /\ (db[1] \in Contents <=> Image[1] # Absent)
    BY <1>3, ConstantsAssumption DEF Contents
  <2>2. QED
    BY <2>1 DEF Validate
<1>7. kept \in [Pages -> Contents \cup {Absent}]
  BY <1>4 DEF NoPages
<1>8. \A p \in Pages : kept[p] # Absent => kept[p] = Image[p]
  BY <1>4 DEF Kept, Agrees, NoPages
<1> HIDE DEF kept
<1>9. read \in [Pages -> Contents \cup {Absent}] /\ (Image[1] # Absent => read[1] # Absent)
  BY <1>3, <1>7
<1>10. \A p \in Pages : read[p] # Absent => read[p] = Image[p]
  BY <1>3, <1>7, <1>8
<1> HIDE DEF read
<1>11. /\ cache' \in [Conns -> [Pages -> Contents \cup {Absent}]] /\ cache'[c] = read
       /\ vers' \in [Conns -> 0 .. 2 * txns] /\ (Image[1] # Absent => vers'[c] = Image[1])
  BY <1>1, <1>3, <1>4, <1>5, <1>6, <1>9 DEF SetCache, GlobalTypes, Version
<1>12. Current(c)' /\ CacheTypes(c)'
  BY <1>2, <1>9, <1>10, <1>11 DEF Current, Agrees, CacheTypes, Validate
<1>13. pc'[c] = "reader" /\ UNCHANGED <<files, writer, txns, faults>>
  BY <1>1, GoesTo DEF Validate
<1>14. ConnInv(c)'
  BY <1>3, <1>12, <1>13, Reading DEF files, Clean, Spared
<1>15. GlobalTypes' /\ txns <= txns'
  BY <1>1, <1>11, <1>13 DEF GlobalTypes, writer
<1>16. \A d \in Others(c) : Aside(d)
  BY <1>1, <1>5, <1>6, OnlyOne DEF Validate
<1>17. QED
  BY <1>1, <1>2, <1>13, <1>14, <1>15, <1>16, StepKeeps DEF files, writer, Idle

LEMMA CloseKeeps ==
  ASSUME IInv, NEW c \in Conns, Close(c)
  PROVE  IInv' /\ StoreStep
<1>1. LockInv' /\ LockInv /\ GlobalTypes /\ FilesInv /\ pc[c] = "open"
  BY OpeningStep DEF Opening, IInv, Close
<1>2. FilesInv' /\ Keeps /\ Endures
  BY <1>1, FilesUntouched, NothingFails DEF Close
<1>3. UNCHANGED <<files, lock, pc, writer, txns, faults>>
  BY DEF Close
<1>4. /\ cache' \in [Conns -> [Pages -> Contents \cup {Absent}]] /\ cache'[c] = NoPages
      /\ vers' \in [Conns -> 0 .. 2 * txns] /\ txns' = txns
  BY <1>1, EmptyCache, ConstantsAssumption DEF Close, SetCache, GlobalTypes, NoPages
<1>5. ConnInv(c)'
  BY <1>1, <1>3, <1>4, EmptyCache, Waiting DEF CacheTypes, Idle
<1>6. GlobalTypes' /\ txns <= txns'
  BY <1>1, <1>3, <1>4 DEF GlobalTypes, writer
<1>7. \A d \in Others(c) : Aside(d)
  BY <1>1, OnlyOne DEF Close
<1>8. QED
  BY <1>1, <1>2, <1>3, <1>5, <1>6, <1>7, StepKeeps DEF files, writer, Idle

LEMMA ReadKeeps ==
  ASSUME IInv, NEW c \in Conns, NEW p \in Pages, Read(c, p)
  PROVE  IInv' /\ StoreStep
<1>1. LockInv' /\ LockInv /\ GlobalTypes /\ FilesInv /\ ConnInv(c) /\ pc[c] = "reader"
  BY WorkingStep DEF Working, IInv, Read
<1>2. FilesInv' /\ Keeps /\ Image' = Image /\ Endures
  BY <1>1, FilesUntouched, NothingFails DEF Keeps, Read
<1>3. Clean /\ db = Image /\ Current(c)
  BY <1>1, ImageIsWhole DEF ConnInv, Sees
<1>4. cache[c] \in [Pages -> Contents \cup {Absent}] /\ db[p] \in Contents \cup {Absent}
  BY <1>1, <1>3, ImageIsWhole DEF ConnInv
<1>5. /\ UNCHANGED <<files, lock, pc, vers, writer, txns, faults>>
      /\ SetCache(c, [cache[c] EXCEPT ![p] = db[p]])
  BY DEF Read
<1>6. /\ cache' \in [Conns -> [Pages -> Contents \cup {Absent}]]
      /\ cache'[c] = [cache[c] EXCEPT ![p] = db[p]]
  BY <1>1, <1>4, <1>5 DEF SetCache, GlobalTypes
<1>7. GlobalTypes' /\ txns <= txns'
  BY <1>1, <1>5, <1>6 DEF GlobalTypes, writer
<1>8. Current(c)'
  BY <1>2, <1>3, <1>4, <1>5, <1>6, ConstantsAssumption DEF Current, Agrees, Read, Pages
<1>9. ConnInv(c)'
  BY <1>1, <1>3, <1>5, <1>7, <1>8, Reading DEF CacheTypes, GlobalTypes, files, Clean, Spared
<1>10. \A d \in Others(c) : Aside(d)
  BY <1>1, <1>5, OnlyOne
<1>11. QED
  BY <1>1, <1>2, <1>5, <1>7, <1>9, <1>10, StepKeeps DEF files, writer, Idle

\* Nobody writes when a transaction begins.
LEMMA NobodyWrites ==
  ASSUME IInv, NEW c \in Conns, pc[c] = "reader", MayReserve(c)
  PROVE  /\ dirty = {} /\ task = "none"
         /\ \A d \in Others(c) : d \in Conns /\ pc[d] \in Idle
<1>1. \A d \in Others(c) : d \in Conns /\ pc[d] \in Idle
  BY OthersIdle DEF IInv
<1>2. \A d \in Conns : pc[d] \in Idle
  BY <1>1 DEF Others, Idle
<1>3. QED
  BY <1>1, <1>2 DEF IInv, IdleInv, Left

LEMMA TransactionBegins ==
  ASSUME IInv, NEW c \in Conns, LockInv', pc[c] = "reader", MayReserve(c),
         txns < MaxTxns, txns' = txns + 1, \E l : SetLock(c, l),
         Goto(c, "writing"), eState' = "LOCKED",
         UNCHANGED <<files, cache, vers, dirty, task, played, faults>>
  PROVE  IInv' /\ StoreStep
<1>1. LockInv /\ GlobalTypes /\ FilesInv /\ ConnInv(c)
  BY DEF IInv
<1>2. FilesInv' /\ Keeps /\ Image' = Image /\ Endures
  BY <1>1, FilesUntouched, NothingFails DEF Keeps
<1>3. Clean /\ Clean' /\ db = Image /\ Current(c)
  BY <1>1, ImageIsWhole DEF ConnInv, Sees, Clean, Spared, files
<1>4. dirty = {} /\ task = "none" /\ \A d \in Others(c) : d \in Conns /\ pc[d] \in Idle
  BY NobodyWrites
<1>5. pc'[c] = "writing"
  BY <1>1, GoesTo
<1>6. GlobalTypes' /\ txns <= txns' /\ txns \in Nat
  BY <1>1, ConstantsAssumption DEF GlobalTypes
<1>7. WriterInv(c)'
  BY <1>3, <1>4, <1>5 DEF WriterInv, files
<1>8. PICK n \in 0 .. MaxPages : Whole(Image, n)
  BY <1>1 DEF FilesInv, ImageInv
<1>9. \A p \in Pages : IF p <= n THEN db[p] \in Contents ELSE db[p] = Absent
  BY <1>3, <1>8 DEF Whole
<1>10. \A p \in Pages : db[p] # Torn /\ (p <= n <=> db[p] # Absent)
  BY <1>9, ConstantsAssumption DEF Contents
<1>11. \A p \in Pages : cache[c][p] \in {Absent, db[p]}
  BY <1>3 DEF Current, Agrees
<1>12. DirtyInv(c)'
  BY <1>3, <1>4, <1>10, <1>11 DEF DirtyInv, files, Current
<1>13. CounterInv(c)'
  <2>1. vers[c] \in 0 .. 2 * txns /\ vers[c] \in Contents
    BY <1>1, ConstantsAssumption DEF ConnInv, GlobalTypes, Contents
  <2>2. Counts(c, vers[c])'
    BY <1>2, <1>3, <1>4, <1>5, <1>6, <2>1 DEF Counts, files, Current
  <2>3. QED
    BY <2>1, <2>2 DEF CounterInv
<1>14. ConnInv(c)'
  BY <1>5, <1>6, <1>7, <1>12, <1>13, Writing DEF CacheTypes, GlobalTypes
<1>15. \A d \in Others(c) : Aside(d)
  BY <1>1, OnlyOne
<1>16. QED
  BY <1>2, <1>4, <1>5, <1>6, <1>14, <1>15, StepKeeps DEF files, Idle

LEMMA BeginKeeps ==
  ASSUME IInv, NEW c \in Conns, Begin(c)
  PROVE  IInv' /\ StoreStep
<1>1. LockInv'
  BY WorkingStep DEF Working, IInv
<1>2. QED
  BY <1>1, TransactionBegins DEF Begin

LEMMA BeginExclusiveKeeps ==
  ASSUME IInv, NEW c \in Conns, BeginExclusive(c)
  PROVE  IInv' /\ StoreStep
<1>1. LockInv' /\ LockInv /\ GlobalTypes /\ FilesInv /\ ConnInv(c) /\ pc[c] = "reader" /\ MayReserve(c)
  BY WorkingStep DEF Working, IInv, BeginExclusive
<1>2. CASE Obtained(c) = Exclusive
  BY <1>1, <1>2, TransactionBegins DEF BeginExclusive
<1>3. CASE Obtained(c) # Exclusive
  <2>1. /\ pc'[c] = "busy" /\ UNCHANGED <<files, cache, vers, writer, faults>>
        /\ txns < MaxTxns /\ txns' = txns + 1
    BY <1>1, <1>3, GoesTo DEF BeginExclusive, writer
  <2>2. FilesInv' /\ Keeps /\ Image' = Image /\ Endures
    BY <1>1, <2>1, FilesUntouched, NothingFails DEF Keeps
  <2>3. Kept(c)
    BY <1>1, CurrentIsKept DEF ConnInv, Sees
  <2>4. Kept(c)'
    BY <2>1, <2>2, <2>3, CacheStays
  <2>5. GlobalTypes' /\ txns <= txns'
    BY <1>1, <2>1, ConstantsAssumption DEF GlobalTypes, writer
  <2>6. ConnInv(c)'
    BY <2>1, <2>4, <2>5, Waiting DEF CacheTypes, GlobalTypes, Idle
  <2>7. \A d \in Others(c) : Aside(d)
    BY <1>1, <1>3, OnlyOne DEF BeginExclusive
  <2>8. \A d \in Others(c) : pc[d] \in Idle
    BY <1>1, NobodyWrites
  <2>9. QED
    BY <1>1, <2>1, <2>2, <2>5, <2>6, <2>7, <2>8, StepKeeps DEF files, writer, Idle
<1>4. QED
  BY <1>2, <1>3
-----------------------------------------------------------------------------
(***************************************************************************)
(* The steps of a transaction.                                             *)
(***************************************************************************)

LEMMA LargestIs ==
  ASSUME NEW X, NEW n \in X \cup {0}, n \in Nat, \A x \in X : x \in Nat /\ x <= n
  PROVE  Largest(X) = n
<1> DEFINE T == X \cup {0}
<1>1. n \in T /\ \A y \in T : n >= y
  OBVIOUS
<1>2. \A x \in T : (\A y \in T : x >= y) => x = n
  OBVIOUS
<1> HIDE DEF T
<1>3. Max(T) = n
  BY <1>1, <1>2 DEF Max
<1>4. QED
  BY <1>3 DEF Largest, T

LEMMA SizeOfWhole ==
  ASSUME NEW f, NEW n \in 0 .. MaxPages, Whole(f, n)
  PROVE  Size(f) = n
<1> DEFINE X == {p \in Pages : f[p] # Absent}
<1>1. n \in X \cup {0} /\ n \in Nat
  <2>1. n # 0 => n \in Pages
    BY ConstantsAssumption DEF Pages
  <2>2. n # 0 => n \in X
    BY <2>1, ConstantsAssumption DEF Whole, Contents
  <2>3. QED
    BY <2>2
<1>2. \A x \in X : x \in Nat /\ x <= n
  BY ConstantsAssumption DEF Whole, Pages
<1> HIDE DEF X
<1>3. Largest(X) = n
  BY <1>1, <1>2, LargestIs
<1>4. QED
  BY <1>3 DEF Size, X

\* The journal that page p is added to, if it is not there.
NewJournal == [size |-> Size(db), recs |-> <<>>, counted |-> 0, magic |-> FALSE]
Opened     == IF eState = "LOCKED" THEN NewJournal ELSE journal

LEMMA OpenedHolds ==
  ASSUME IInv, NEW c \in Conns, pc[c] = "writing"
  PROVE  /\ JournalOK(Opened) /\ Holds(Opened, Image)
         /\ eState = "LOCKED" => /\ Opened.recs = <<>> /\ Opened.counted = 0 /\ ~Opened.magic
                                 /\ Clean /\ dirty = {}
         /\ eState # "LOCKED" => Opened = journal /\ journal # NoJournal
<1>1. FilesInv /\ WriterInv(c)
  BY WriterIs DEF IInv
<1>2. CASE eState = "LOCKED"
  <2>1. Clean /\ dirty = {} /\ Image = db
    BY <1>1, <1>2, ImageIsWhole DEF WriterInv
  <2>2. PICK n \in 0 .. MaxPages : Whole(Image, n)
    BY <1>1 DEF FilesInv, ImageInv
  <2>3. Size(db) = n
    BY <2>1, <2>2, SizeOfWhole
  <2>4. /\ NewJournal \in [size : 0 .. MaxPages, recs : Seq(AnyRecord), counted : 0 .. MaxPages,
                          magic : BOOLEAN]
        /\ NewJournal.size = n /\ NewJournal.recs = <<>> /\ NewJournal.counted = 0 /\ ~NewJournal.magic
    BY <2>3, ConstantsAssumption DEF NewJournal
  <2>5. NewJournal \in Journals
    BY <2>4 DEF Journals, AnyRecord
  <2>6. JournalOK(NewJournal)
    BY <2>4, <2>5 DEF JournalOK
  <2>7. Holds(NewJournal, Image)
    BY <2>2, <2>4 DEF Holds
  <2>8. Opened = NewJournal
    BY <1>2 DEF Opened
  <2>9. QED
    BY <1>2, <2>1, <2>4, <2>6, <2>7, <2>8
<1>3. CASE eState # "LOCKED"
  <2>1. journal # NoJournal /\ Opened = journal
    BY <1>1, <1>3 DEF WriterInv, Hot, Opened
  <2>2. JournalOK(journal) /\ Holds(journal, Image)
    BY <1>1, <2>1 DEF FilesInv, JournalInv
  <2>3. QED
    BY <1>3, <2>1, <2>2
<1>4. QED
  BY <1>2, <1>3

\* A page of the old file that has no record has not been written.
LEMMA Unrecorded ==
  ASSUME FilesInv, journal # NoJournal, NEW p \in Pages, p <= journal.size, ~InJournal(p)
  PROVE  db[p] = Image[p]
<1>1. CASE Hot(journal)
  <2>1. JournalOK(journal) /\ StableInv /\ stable.counted \in Nat
    BY DEF FilesInv, JournalInv, FileTypes
  <2>2. \A n \in 1 .. stable.counted : n \in 1 .. Len(journal.recs)
    BY <2>1, JournalFields DEF StableInv, JournalOK
  <2>3. ~Covers(journal, stable.counted, p)
    BY <2>2 DEF Covers, InJournal
  <2>4. QED
    BY <1>1, <2>3 DEF FilesInv, HotInv, Intact
<1>2. CASE ~Hot(journal)
  BY <1>2, ImageIsWhole
<1>3. QED
  BY <1>1, <1>2

\* A page that has no record yet is what it was before the transaction.
LEMMA NotRecorded ==
  ASSUME IInv, NEW c \in Conns, pc[c] = "writing", NEW p \in Pages, p <= Opened.size,
         \A n \in 1 .. Len(Opened.recs) : Opened.recs[n].page # p
  PROVE  PageOf(c, p) = Image[p] /\ Image[p] \in Contents
<1>1. FilesInv /\ WriterInv(c) /\ DirtyInv(c)
  BY WriterIs DEF IInv
<1>2. p \notin dirty
  <2>1. CASE eState = "LOCKED"
    BY <2>1, OpenedHolds
  <2>2. CASE eState # "LOCKED"
    BY <1>1, <2>2, OpenedHolds DEF DirtyInv, InJournal
  <2>3. QED
    BY <2>1, <2>2
<1>3. PageOf(c, p) = db[p]
  BY <1>1, <1>2 DEF DirtyInv, PageOf
<1>4. db[p] = Image[p]
  <2>1. CASE eState = "LOCKED"
    BY <1>1, <2>1, OpenedHolds, ImageIsWhole
  <2>2. CASE eState # "LOCKED"
    BY <1>1, <2>2, OpenedHolds, Unrecorded DEF InJournal
  <2>3. QED
    BY <2>1, <2>2
<1>5. Image[p] \in Contents
  BY OpenedHolds DEF Holds, Whole
<1>6. QED
  BY <1>3, <1>4, <1>5

LEMMA JournalledIs ==
  ASSUME IInv, NEW c \in Conns, pc[c] = "writing", NEW p \in Pages
  PROVE  LET j == Journalled(c, p)
         IN  /\ JournalOK(j) /\ Holds(j, Image)
             /\ j.size = Opened.size /\ j.counted = Opened.counted /\ j.magic = Opened.magic
             /\ Len(Opened.recs) <= Len(j.recs)
             /\ \A n \in 1 .. Len(Opened.recs) : j.recs[n] = Opened.recs[n]
             /\ p <= j.size => \E n \in 1 .. Len(j.recs) : j.recs[n].page = p
<1> DEFINE new == [page |-> p, content |-> PageOf(c, p)]
           k == [Opened EXCEPT !.recs = Append(@, new)]
           Misses == p <= Opened.size /\ \A n \in 1 .. Len(Opened.recs) : Opened.recs[n].page # p
<1>1. Journalled(c, p) = IF Misses THEN k ELSE Opened
  BY DEF Journalled, Opened, NewJournal
<1>2. JournalOK(Opened) /\ Holds(Opened, Image) /\ Len(Opened.recs) \in Nat
  BY OpenedHolds, JournalFields
<1>3. CASE Misses
  <2>1. PageOf(c, p) = Image[p] /\ PageOf(c, p) \in Contents
    BY <1>3, NotRecorded
  <2>2. /\ JournalOK(k)
        /\ k.size = Opened.size /\ k.counted = Opened.counted /\ k.magic = Opened.magic
        /\ Len(k.recs) = Len(Opened.recs) + 1
        /\ \A n \in 1 .. Len(Opened.recs) : k.recs[n] = Opened.recs[n]
        /\ k.recs[Len(Opened.recs) + 1] = new
    BY <1>2, <1>3, <2>1, Appended
  <2>3. new.page = p /\ new.content = Image[p]
    BY <2>1
  <2> HIDE DEF k, new
  <2>4. Holds(k, Image)
    BY <1>2, <2>2, <2>3 DEF Holds
  <2>5. Journalled(c, p) = k
    BY <1>1, <1>3
  <2>6. QED
    BY <1>2, <2>2, <2>3, <2>4, <2>5
<1>4. CASE ~Misses
  <2>1. Journalled(c, p) = Opened
    BY <1>1, <1>4
  <2>2. QED
    BY <1>2, <1>4, <2>1
<1>5. QED
  BY <1>3, <1>4

LEMMA PageJournalled ==
  ASSUME IInv, NEW c \in Conns, pc[c] = "writing", NEW p \in Pages,
         journal' = Journalled(c, p),
         stable' = IF eState = "LOCKED" THEN Unstable ELSE stable,
         UNCHANGED <<db, disk, unsynced, gone>>, Endures
  PROVE  /\ FilesInv' /\ Keeps
         /\ journal' # NoJournal /\ (Hot(journal') => Hot(journal))
         /\ p <= journal'.size => InJournal(p)'
         /\ eState = "LOCKED" => ~Hot(journal')
         /\ eState # "LOCKED" => /\ journal'.size = journal.size
                                 /\ Hot(journal) => Hot(journal')
                                 /\ \A q \in Pages : InJournal(q) => InJournal(q)'
<1>1. FilesInv
  BY DEF IInv
<1>2. /\ JournalOK(journal') /\ Holds(journal', Image)
      /\ journal'.size = Opened.size /\ journal'.counted = Opened.counted
      /\ journal'.magic = Opened.magic
      /\ Len(Opened.recs) <= Len(journal'.recs)
      /\ \A n \in 1 .. Len(Opened.recs) : journal'.recs[n] = Opened.recs[n]
      /\ p <= journal'.size => InJournal(p)'
  BY JournalledIs DEF InJournal
<1>3. journal' # NoJournal
  BY <1>2, JournalFields
<1>4. CASE eState = "LOCKED"
  <2>1. journal'.counted = 0 /\ ~journal'.magic /\ Clean /\ stable' = Unstable
    BY <1>2, <1>4, OpenedHolds
  <2>2. FilesInv' /\ Keeps /\ ~Hot(journal')
    BY <1>1, <1>2, <2>1, JournalBegun
  <2>3. QED
    BY <1>2, <1>3, <1>4, <2>1, <2>2
<1>5. CASE eState # "LOCKED"
  <2>1. Opened = journal /\ journal # NoJournal /\ UNCHANGED stable
    BY <1>5, OpenedHolds
  <2>2. FilesInv' /\ Keeps /\ (Hot(journal') <=> Hot(journal))
    BY <1>1, <1>2, <2>1, RecordAdded
  <2>3. Len(journal.recs) \in Nat /\ Len(journal'.recs) \in Nat
    BY <1>2, <2>1, JournalFields, OpenedHolds
  <2>4. \A q \in Pages : InJournal(q) => InJournal(q)'
    BY <1>2, <2>1, <2>3 DEF InJournal
  <2>5. QED
    BY <1>2, <1>3, <1>5, <2>1, <2>2, <2>4
<1>6. QED
  BY <1>4, <1>5

LEMMA DbSizeIs ==
  ASSUME dirty \subseteq Pages, NEW m \in 0 .. MaxPages,
         \A p \in Pages : p <= m <=> (db[p] # Absent \/ p \in dirty)
  PROVE  DbSize = m /\ m \in Nat
<1> DEFINE X == {p \in Pages : db[p] # Absent} \cup dirty
<1>1. m \in X \cup {0} /\ m \in Nat
  <2>1. m # 0 => m \in Pages
    BY ConstantsAssumption DEF Pages
  <2>2. m # 0 => m \in X
    BY <2>1
  <2>3. QED
    BY <2>2
<1>2. \A x \in X : x \in Nat /\ x <= m
  BY ConstantsAssumption DEF Pages
<1> HIDE DEF X
<1>3. Largest(X) = m
  BY <1>1, <1>2, LargestIs
<1>4. QED
  BY <1>1, <1>3 DEF DbSize, X

\* How far the counter is while the transaction goes on: a transaction may add to it.
LEMMA CounterIs ==
  ASSUME IInv, NEW c \in Conns, NEW b \in Contents, Counts(c, b)
  PROVE  /\ b \in Nat /\ txns \in Nat /\ txns <= MaxTxns /\ vers[c] \in Nat
         /\ vers[c] \in {b, b + 1} =>
              vers[c] + 1 \in Contents /\ vers[c] + 1 \in Nat /\ vers[c] + 1 \in 0 .. 2 * txns
<1>1. b \in Nat /\ txns \in Nat /\ txns <= MaxTxns /\ vers[c] \in Nat /\ MaxTxns \in Nat
  BY ConstantsAssumption DEF IInv, GlobalTypes, Contents
<1>2. b <= 2 * (txns - 1)
  BY DEF Counts
<1>3. QED
  BY <1>1, <1>2 DEF Contents

LEMMA WriteKeeps ==
  ASSUME IInv, NEW c \in Conns, NEW p \in Pages, Write(c, p)
  PROVE  IInv' /\ StoreStep
<1>1. /\ LockInv' /\ LockInv /\ GlobalTypes /\ FilesInv /\ pc[c] = "writing"
      /\ WriterInv(c) /\ DirtyInv(c) /\ CounterInv(c)
      /\ \A d \in Others(c) : d \in Conns /\ pc[d] \in Idle
  BY WorkingStep, WriterIs DEF Working, IInv, Write
<1> DEFINE content == IF p = 1 THEN vers[c] + 1 ELSE txns
<1>2. /\ UNCHANGED <<db, disk, unsynced, gone, lock, pc, vers, task, played, txns, faults>>
      /\ journal' = Journalled(c, p) /\ dirty' = dirty \cup {p}
      /\ stable' = IF eState = "LOCKED" THEN Unstable ELSE stable
      /\ eState' = IF eState = "LOCKED" THEN "CACHEMOD" ELSE eState
      /\ p <= DbSize + 1 /\ (p = 1 => DbSize = 0)
      /\ SetCache(c, [cache[c] EXCEPT ![p] = content])
      /\ Endures
  BY NothingFails DEF Write
<1>3. /\ FilesInv' /\ Keeps /\ Image' = Image
      /\ journal' # NoJournal /\ (Hot(journal') => Hot(journal))
      /\ p <= journal'.size => InJournal(p)'
      /\ eState = "LOCKED" => ~Hot(journal')
      /\ eState # "LOCKED" => /\ journal'.size = journal.size
                              /\ Hot(journal) => Hot(journal')
                              /\ \A q \in Pages : InJournal(q) => InJournal(q)'
  BY <1>1, <1>2, PageJournalled DEF Keeps
<1>4. PICK m \in 0 .. MaxPages : \A q \in Pages : q <= m <=> (db[q] # Absent \/ q \in dirty)
  BY <1>1 DEF DirtyInv
<1>5. DbSize = m /\ m \in Nat /\ dirty \subseteq Pages
  BY <1>1, <1>4, DbSizeIs DEF GlobalTypes
<1>6. p <= m + 1 /\ p \in Nat /\ 1 \in Pages
  BY <1>2, <1>5, ConstantsAssumption DEF Pages
<1>7. p = 1 => db[1] = Absent /\ 1 \notin dirty
  <2>1. p = 1 => ~(1 <= m)
    BY <1>2, <1>5
  <2>2. QED
    BY <1>4, <1>6, <2>1
<1>8. PICK b \in Contents : Counts(c, b)
  BY <1>1 DEF CounterInv
<1>9. content \in Contents
  <2>1. vers[c] \in {b, b + 1}
    BY <1>1, <1>8 DEF Counts
  <2>2. txns \in Contents
    BY <1>1, ConstantsAssumption DEF GlobalTypes, Contents
  <2>3. QED
    BY <1>8, <2>1, <2>2, CounterIs
<1> HIDE DEF content
<1>10. /\ cache[c] \in [Pages -> Contents \cup {Absent}]
       /\ cache' \in [Conns -> [Pages -> Contents \cup {Absent}]]
       /\ cache'[c][p] = content /\ \A q \in Pages : q # p => cache'[c][q] = cache[c][q]
       /\ content # Absent
  BY <1>1, <1>2, <1>9, ConstantsAssumption DEF SetCache, GlobalTypes, Contents
<1>11. GlobalTypes' /\ txns <= txns'
  BY <1>1, <1>2, <1>10 DEF GlobalTypes
<1>12. WriterInv(c)'
  <2>1. eState = "LOCKED" => db = Image /\ Synced
    BY <1>1, ImageIsWhole DEF WriterInv
  <2>2. Synced => Synced'
    BY <1>2 DEF Synced, Endures
  <2>3. eState = "DBMOD" => stable'.magic
    BY <1>1, <1>2 DEF WriterInv
  <2>4. QED
    BY <1>1, <1>2, <1>3, <2>1, <2>2, <2>3 DEF WriterInv
<1>13. DirtyInv(c)'
  <2>1. \A q \in dirty' : cache'[c][q] \in Contents /\ (q <= journal'.size => InJournal(q)')
    <3>1. ASSUME NEW q \in dirty, q # p
          PROVE  cache'[c][q] \in Contents /\ (q <= journal'.size => InJournal(q)')
      <4>1. eState # "LOCKED" /\ q \in Pages
        BY <1>1, <1>5, <3>1 DEF WriterInv
      <4>2. QED
        BY <1>1, <1>3, <1>10, <3>1, <4>1 DEF DirtyInv
    <3>2. cache'[c][p] \in Contents
      BY <1>9, <1>10
    <3>3. QED
      BY <1>2, <1>3, <3>1, <3>2
  <2>2. \A q \in Pages \ dirty' : cache'[c][q] \in {Absent, db'[q]}
    BY <1>1, <1>2, <1>10 DEF DirtyInv
  <2>3. db'[1] # Absent => cache'[c][1] # Absent
    BY <1>1, <1>2, <1>6, <1>10 DEF DirtyInv
  <2>4. \E n \in 0 .. MaxPages : \A q \in Pages : q <= n <=> (db'[q] # Absent \/ q \in dirty')
    <3>1. CASE p <= m
      BY <1>2, <1>4, <3>1
    <3>2. CASE p = m + 1
      <4>1. m + 1 \in 0 .. MaxPages /\ \A q \in Pages : q <= m + 1 <=> q <= m \/ q = p
        BY <1>5, <3>2, ConstantsAssumption DEF Pages
      <4>2. QED
        BY <1>2, <1>4, <4>1
    <3>3. QED
      BY <1>5, <1>6, <3>1, <3>2
  <2>5. QED
    BY <1>1, <1>2, <2>1, <2>2, <2>3, <2>4 DEF DirtyInv
<1>14. CounterInv(c)'
  <2>1. Counts(c, b)'
    <3>1. 1 \in dirty' => 1 \in dirty \/ vers[c] = b
      BY <1>2, <1>7, <1>8 DEF Counts
    <3>2. QED
      BY <1>1, <1>2, <1>3, <1>8, <3>1 DEF Counts, WriterInv
  <2>2. QED
    BY <2>1 DEF CounterInv
<1>15. ConnInv(c)'
  BY <1>1, <1>2, <1>11, <1>12, <1>13, <1>14, Writing DEF CacheTypes, GlobalTypes
<1>16. \A d \in Others(c) : Aside(d)
  BY <1>1, <1>2, OnlyOne
<1>17. QED
  BY <1>1, <1>2, <1>3, <1>11, <1>15, <1>16, StepKeeps DEF Idle

LEMMA CommitKeeps ==
  ASSUME IInv, NEW c \in Conns, Commit(c)
  PROVE  IInv' /\ StoreStep
<1>1. /\ LockInv' /\ LockInv /\ GlobalTypes /\ FilesInv /\ pc[c] = "writing"
      /\ WriterInv(c) /\ DirtyInv(c) /\ CounterInv(c)
      /\ \A d \in Others(c) : d \in Conns /\ pc[d] \in Idle
  BY WorkingStep, WriterIs DEF Working, IInv, Commit
<1>2. /\ UNCHANGED <<db, disk, unsynced, stable, gone, lock, vers, eState, played, txns, faults>>
      /\ journal' = Journalled(c, 1) /\ dirty' = dirty \cup {1} /\ task' = "commit"
      /\ eState # "LOCKED" /\ 1 \in Pages
      /\ SetCache(c, [cache[c] EXCEPT ![1] = vers[c] + 1])
      /\ Endures
  BY NothingFails, ConstantsAssumption DEF Commit, NextVersion, Pages
<1>3. /\ FilesInv' /\ Keeps /\ Image' = Image
      /\ journal' # NoJournal /\ (Hot(journal') <=> Hot(journal))
      /\ 1 <= journal'.size => InJournal(1)'
      /\ journal'.size = journal.size
      /\ \A q \in Pages : InJournal(q) => InJournal(q)'
  BY <1>1, <1>2, PageJournalled DEF Keeps
<1>4. PICK b \in Contents : Counts(c, b)
  BY <1>1 DEF CounterInv
<1>5. vers[c] \in {b, b + 1} /\ (vers[c] # b => eState = "DBMOD")
  BY <1>1, <1>4 DEF Counts
<1>6. vers[c] + 1 \in Contents /\ vers[c] + 1 \in Nat
  BY <1>4, <1>5, CounterIs
<1>7. /\ cache[c] \in [Pages -> Contents \cup {Absent}]
      /\ cache' \in [Conns -> [Pages -> Contents \cup {Absent}]]
      /\ cache'[c] = [cache[c] EXCEPT ![1] = vers[c] + 1]
  BY <1>1, <1>2, <1>6 DEF SetCache, GlobalTypes
<1>8. GlobalTypes' /\ txns <= txns'
  BY <1>1, <1>2, <1>7 DEF GlobalTypes
<1>9. pc'[c] = "upgrade"
  BY <1>1, GoesTo DEF Commit
<1>10. WriterInv(c)'
  BY <1>1, <1>2, <1>3, <1>9 DEF WriterInv, Synced, Endures
<1>11. DirtyInv(c)'
  <2>1. \A q \in dirty' : cache'[c][q] \in Contents /\ (q <= journal'.size => InJournal(q)')
    <3>1. ASSUME NEW q \in dirty, q # 1
          PROVE  cache'[c][q] \in Contents /\ (q <= journal'.size => InJournal(q)')
      <4>1. q \in Pages
        BY <1>1, <3>1 DEF GlobalTypes
      <4>2. QED
        BY <1>1, <1>3, <1>7, <3>1, <4>1 DEF DirtyInv
    <3>2. cache'[c][1] \in Contents
      BY <1>2, <1>6, <1>7
    <3>3. QED
      BY <1>2, <1>3, <3>1, <3>2
  <2>2. \A q \in Pages \ dirty' : cache'[c][q] \in {Absent, db'[q]}
    BY <1>1, <1>2, <1>7 DEF DirtyInv
  <2>3. cache'[c][1] # Absent
    BY <1>2, <1>6, <1>7, ConstantsAssumption
  <2>4. \E n \in 0 .. MaxPages : \A q \in Pages : q <= n <=> (db'[q] # Absent \/ q \in dirty')
    <3>1. PICK m \in 0 .. MaxPages : \A q \in Pages : q <= m <=> (db[q] # Absent \/ q \in dirty)
      BY <1>1 DEF DirtyInv
    <3>2. CASE m # 0
      <4>1. db[1] # Absent \/ 1 \in dirty
        BY <1>2, <3>1, <3>2, ConstantsAssumption
      <4>2. QED
        BY <1>2, <3>1, <4>1
    <3>3. CASE m = 0
      <4>1. \A q \in Pages : db[q] = Absent /\ q \notin dirty
        BY <3>1, <3>3, ConstantsAssumption DEF Pages
      <4>2. 1 \in 0 .. MaxPages /\ \A q \in Pages : q <= 1 <=> q = 1
        BY ConstantsAssumption DEF Pages
      <4>3. QED
        BY <1>2, <4>1, <4>2
    <3>4. QED
      BY <3>2, <3>3
  <2>5. QED
    BY <1>1, <1>2, <2>1, <2>2, <2>3, <2>4 DEF DirtyInv
<1>12. CounterInv(c)'
  <2>1. Counts(c, b)'
    BY <1>2, <1>3, <1>4, <1>5, <1>9 DEF Counts
  <2>2. QED
    BY <2>1 DEF CounterInv
<1>13. ConnInv(c)'
  BY <1>1, <1>2, <1>8, <1>9, <1>10, <1>11, <1>12, Writing DEF CacheTypes, GlobalTypes
<1>14. \A d \in Others(c) : Aside(d)
  BY <1>1, <1>2, OnlyOne DEF Commit
<1>15. QED
  BY <1>1, <1>2, <1>3, <1>8, <1>9, <1>13, <1>14, StepKeeps DEF Idle

\* A writer goes on to another step of its transaction, with the same caches.
LEMMA WriterGoesOn ==
  ASSUME IInv, NEW c \in Conns, NEW p, Goto(c, p), LockInv', FilesInv', Keeps, Endures,
         \/ /\ pc[c] \in {"writing", "upgrade", "sync", "header", "syncheader"}
            /\ p \in {"writing", "upgrade", "sync", "header", "syncheader", "write"}
         \/ pc[c] = "dbsync" /\ task = "commit" /\ p = "unjournal" /\ Synced',
         UNCHANGED lock \/ (\E l : SetLock(c, l)),
         \/ UNCHANGED files
         \/ pc[c] # "writing" /\ pc[c] # "upgrade",
         UNCHANGED <<db, cache, vers, dirty, played, txns, faults>>,
         journal # NoJournal => /\ journal' # NoJournal
                                /\ journal'.size = journal.size /\ journal'.recs = journal.recs,
         task' = IF pc[c] = "writing" THEN "spill" ELSE task,
         eState' = eState \/ (eState = "CACHEMOD" /\ eState' = "DBMOD"),
         eState # "LOCKED",
         p = "writing" => eState # "DBMOD",
         WriterInv(c)'
  PROVE  IInv' /\ StoreStep
<1>1. /\ LockInv /\ GlobalTypes /\ FilesInv
      /\ WriterInv(c) /\ DirtyInv(c) /\ CounterInv(c)
      /\ \A d \in Others(c) : d \in Conns /\ pc[d] \in Idle
      /\ pc[c] # "writing" /\ pc[c] # "upgrade" => \A d \in Others(c) : pc[d] = "open"
  BY WriterIs DEF IInv
<1>2. pc'[c] = p /\ Image' = Image
  BY <1>1, GoesTo DEF Keeps
<1>3. GlobalTypes' /\ txns <= txns'
  BY <1>1 DEF GlobalTypes
<1>4. journal # NoJournal
  BY <1>1 DEF WriterInv, Hot
<1>5. DirtyInv(c)'
  BY <1>1, <1>4 DEF DirtyInv, InJournal
<1>6. CounterInv(c)'
  <2>1. PICK b \in Contents : Counts(c, b)
    BY <1>1 DEF CounterInv
  <2>2. Counts(c, b)'
    BY <1>1, <1>2, <2>1 DEF Counts, WriterInv
  <2>3. QED
    BY <2>2 DEF CounterInv
<1>7. ConnInv(c)'
  BY <1>1, <1>2, <1>3, <1>5, <1>6, Writing DEF CacheTypes, GlobalTypes
<1>8. \A d \in Others(c) : Aside(d)
  BY <1>1, OnlyOne
<1>9. \A d \in Others(c) :
        pc[d] \in Idle /\ (Hot(journal') => pc[d] = "open" \/ (Hot(journal) /\ UNCHANGED db))
  BY <1>1 DEF files
<1>10. QED
  BY <1>1, <1>2, <1>3, <1>7, <1>8, <1>9, StepKeeps DEF Idle

LEMMA SpillKeeps ==
  ASSUME IInv, NEW c \in Conns, NEW p \in Pages, Spill(c, p)
  PROVE  IInv' /\ StoreStep
<1>1. /\ LockInv' /\ LockInv /\ FilesInv /\ pc[c] = "writing" /\ eState # "LOCKED"
      /\ WriterInv(c) /\ CounterInv(c)
      /\ UNCHANGED <<files, lock, cache, vers, dirty, eState, played, txns, faults>>
      /\ task' = "spill"
  BY WorkingStep, WriterIs DEF Working, IInv, Spill, WriterInv
<1>2. FilesInv' /\ Keeps /\ Image' = Image /\ Endures
  BY <1>1, FilesUntouched, NothingFails DEF Keeps
<1> DEFINE next == IF eState = "DBMOD" /\ (InJournal(p) => RecordOf(p) <= stable.counted)
                     THEN "write" ELSE "upgrade"
<1>3. /\ Goto(c, next) /\ next \in {"write", "upgrade"} /\ (next = "write" => eState = "DBMOD")
  BY DEF Spill
<1> HIDE DEF next
<1>4. pc'[c] = next
  BY <1>1, <1>3, GoesTo
<1>5. WriterInv(c)'
  BY <1>1, <1>2, <1>3, <1>4 DEF WriterInv, files, Synced, Endures
<1>6. QED
  BY <1>1, <1>2, <1>3, <1>5, WriterGoesOn DEF files

LEMMA UpgradeKeeps ==
  ASSUME IInv, NEW c \in Conns, Upgrade(c)
  PROVE  IInv' /\ StoreStep
<1>1. /\ LockInv' /\ LockInv /\ FilesInv /\ pc[c] = "upgrade"
      /\ WriterInv(c) /\ CounterInv(c) /\ LockOfStep(c)
      /\ UNCHANGED <<files, cache, vers, writer, txns, faults>>
  BY CommittingStep, WriterIs DEF Committing, IInv, Upgrade, LockInv
<1>2. FilesInv' /\ Keeps /\ Image' = Image /\ Endures
  BY <1>1, FilesUntouched, NothingFails DEF Keeps
<1> DEFINE next == IF Obtained(c) = Exclusive THEN "sync" ELSE "writing"
<1>3. Goto(c, next) /\ next \in {"sync", "writing"} /\ SetLock(c, Obtained(c))
  BY DEF Upgrade
<1>4. eState = "DBMOD" => next = "sync"
  <2>1. eState = "DBMOD" => lock[c] = Exclusive
    BY <1>1 DEF LockOfStep
  <2>2. QED
    BY <1>1, <2>1, KeepsApart DEF Obtained
<1> HIDE DEF next
<1>5. pc'[c] = next
  BY <1>1, <1>3, GoesTo
<1>6. WriterInv(c)'
  BY <1>1, <1>2, <1>3, <1>4, <1>5 DEF WriterInv, files, writer, Synced, Endures
<1>7. next = "writing" => eState # "DBMOD"
  BY <1>3, <1>4
<1>8. eState # "LOCKED"
  BY <1>1 DEF WriterInv
<1>9. QED
  BY <1>1, <1>2, <1>3, <1>6, <1>7, <1>8, WriterGoesOn DEF files, writer

LEMMA SyncRecordsKeeps ==
  ASSUME IInv, NEW c \in Conns, SyncRecords(c)
  PROVE  IInv' /\ StoreStep
<1>1. /\ LockInv' /\ LockInv /\ FilesInv /\ pc[c] = "sync" /\ WriterInv(c)
      /\ UNCHANGED <<db, disk, unsynced, journal, lock, cache, vers, writer, txns, faults>>
      /\ stable' = AllOf(journal) /\ gone' = NoJournal /\ Goto(c, "header")
  BY CommittingStep, WriterIs DEF Committing, IInv, SyncRecords
<1>2. journal # NoJournal /\ eState # "LOCKED"
  BY <1>1 DEF WriterInv, Hot
<1>3. FilesInv' /\ Keeps /\ Image' = Image /\ Endures
  BY <1>1, <1>2, JournalSynced, NothingFails DEF Keeps
<1>4. pc'[c] = "header"
  BY <1>1, GoesTo
<1>5. stable'.entry /\ stable'.recs = Len(journal.recs) /\ stable'.magic = journal.magic
  BY <1>1 DEF AllOf
<1>6. WriterInv(c)'
  BY <1>1, <1>2, <1>3, <1>4, <1>5 DEF WriterInv, writer, Synced, Endures, Hot
<1>7. QED
  BY <1>1, <1>2, <1>3, <1>6, WriterGoesOn DEF writer

LEMMA WriteHeaderKeeps ==
  ASSUME IInv, NEW c \in Conns, WriteHeader(c)
  PROVE  IInv' /\ StoreStep
<1>1. /\ LockInv' /\ LockInv /\ FilesInv /\ pc[c] = "header" /\ WriterInv(c)
      /\ UNCHANGED <<db, disk, unsynced, stable, gone, lock, cache, vers, writer, txns, faults>>
      /\ Goto(c, "syncheader")
  BY CommittingStep, WriterIs DEF Committing, IInv, WriteHeader
<1>2. journal # NoJournal /\ eState # "LOCKED"
  BY <1>1 DEF WriterInv, Hot
<1>3. JournalOK(journal)
  BY <1>1, <1>2 DEF FilesInv, JournalInv
<1>4. /\ JournalOK(journal') /\ journal'.size = journal.size /\ journal'.recs = journal.recs
      /\ journal'.counted = Len(journal.recs) /\ journal'.magic
  BY <1>3, Headed DEF WriteHeader
<1>5. FilesInv' /\ Keeps /\ Image' = Image /\ Hot(journal') /\ Endures
  BY <1>1, <1>2, <1>4, HeaderWritten, NothingFails DEF Keeps, WriterInv
<1>6. pc'[c] = "syncheader" /\ journal' # NoJournal
  BY <1>1, <1>5, GoesTo DEF Hot
<1>7. WriterInv(c)'
  BY <1>1, <1>2, <1>4, <1>5, <1>6 DEF WriterInv, writer, Synced, Endures
<1>8. QED
  BY <1>1, <1>2, <1>4, <1>5, <1>6, <1>7, WriterGoesOn DEF writer

LEMMA SyncHeaderKeeps ==
  ASSUME IInv, NEW c \in Conns, SyncHeader(c)
  PROVE  IInv' /\ StoreStep
<1>1. /\ LockInv' /\ LockInv /\ FilesInv /\ pc[c] = "syncheader" /\ WriterInv(c)
      /\ UNCHANGED <<db, disk, unsynced, journal, gone, lock, cache, vers, dirty, task, played,
                     txns, faults>>
      /\ stable' = AllOf(journal) /\ eState' = "DBMOD" /\ Goto(c, "write")
  BY CommittingStep, WriterIs DEF Committing, IInv, SyncHeader
<1>2. journal # NoJournal /\ eState \in {"CACHEMOD", "DBMOD"} /\ Hot(journal)
      /\ journal.counted = Len(journal.recs)
  BY <1>1 DEF WriterInv, Hot
<1>3. FilesInv' /\ Keeps /\ Image' = Image /\ Endures
  BY <1>1, <1>2, JournalSynced, NothingFails DEF Keeps
<1>4. pc'[c] = "write"
  BY <1>1, GoesTo
<1>5. stable'.counted = journal.counted /\ stable'.magic = journal.magic /\ journal.magic
  BY <1>1, <1>2 DEF AllOf, Hot
<1>6. WriterInv(c)'
  BY <1>1, <1>2, <1>3, <1>4, <1>5 DEF WriterInv
<1>7. QED
  BY <1>1, <1>2, <1>3, <1>6, WriterGoesOn

\* The record of a page of the journal.
LEMMA RecordOfIs ==
  ASSUME NEW p, InJournal(p)
  PROVE  RecordOf(p) \in 1 .. Len(journal.recs) /\ journal.recs[RecordOf(p)].page = p
  BY DEF InJournal, RecordOf

\* A page is only written when its record is on the disk, and counted.
LEMMA WrittenIsCovered ==
  ASSUME IInv, NEW c \in Conns, NEW p \in Pages, WritePage(c, p), p <= journal.size
  PROVE  Covers(journal, stable.counted, p)
<1>1. FilesInv /\ WriterInv(c) /\ DirtyInv(c) /\ pc[c] = "write" /\ p \in dirty
  BY WriterIs DEF IInv, WritePage
<1>2. InJournal(p)
  BY <1>1 DEF DirtyInv
<1>3. JournalOK(journal) /\ stable.counted \in Nat
  BY <1>1 DEF FilesInv, FileTypes, JournalInv, WriterInv, Hot
<1>4. Len(journal.recs) \in Nat
  BY <1>3, JournalFields
<1>5. CASE task = "spill"
  <2>1. RecordOf(p) <= stable.counted
    BY <1>2, <1>5 DEF WritePage
  <2>2. RecordOf(p) \in 1 .. stable.counted
    BY <1>2, <1>3, <1>4, <2>1, RecordOfIs
  <2>3. QED
    BY <1>2, <2>2, RecordOfIs DEF Covers
<1>6. CASE task # "spill"
  <2>1. stable.counted = Len(journal.recs)
    BY <1>1, <1>6 DEF WriterInv
  <2>2. QED
    BY <1>2, <2>1 DEF Covers, InJournal
<1>7. QED
  BY <1>5, <1>6

LEMMA WritePageKeeps ==
  ASSUME IInv, NEW c \in Conns, NEW p \in Pages, WritePage(c, p)
  PROVE  IInv' /\ StoreStep
<1>1. /\ LockInv' /\ LockInv /\ GlobalTypes /\ FilesInv /\ pc[c] = "write"
      /\ WriterInv(c) /\ DirtyInv(c) /\ CounterInv(c) /\ LockOfStep(c)
      /\ \A d \in Others(c) : d \in Conns /\ pc[d] = "open"
  BY CommittingStep, WriterIs DEF Committing, IInv, WritePage, LockInv
<1> DEFINE content == IF p = 1 THEN vers[c] + 1 ELSE cache[c][p]
<1>2. /\ p \in dirty
      /\ db' = [db EXCEPT ![p] = content]
      /\ unsynced' = unsynced \cup {p}
      /\ SetCache(c, [cache[c] EXCEPT ![p] = content])
      /\ vers' = [vers EXCEPT ![c] = IF p = 1 THEN content ELSE vers[c]]
      /\ dirty' = dirty \ {p}
      /\ UNCHANGED <<disk, journal, stable, gone, lock, eState, task, played, txns, faults>>
      /\ Endures
  BY NothingFails DEF WritePage, PutPage, NextVersion
<1>3. PICK b \in Contents : Counts(c, b)
  BY <1>1 DEF CounterInv
<1>4. p = 1 => /\ vers[c] \in {b, b + 1}
               /\ vers[c] # b => task = "commit"
  BY <1>1, <1>2, <1>3 DEF Counts
<1>5. p = 1 => vers[c] + 1 \in Contents /\ vers[c] + 1 \in 0 .. 2 * txns
  BY <1>3, <1>4, CounterIs
<1>6. content \in Contents /\ content \in Int
  BY <1>1, <1>2, <1>5, ConstantsAssumption DEF DirtyInv, Contents
<1>7. (p = 1 => content = vers[c] + 1) /\ (p # 1 => content = cache[c][p])
  OBVIOUS
<1> HIDE DEF content
<1>8. content # Absent /\ content # Torn
  BY <1>6, ConstantsAssumption
<1>9. /\ db \in [Pages -> Contents \cup {Absent, Torn}] /\ unsynced \subseteq Pages
      /\ Hot(journal) /\ stable.magic /\ eState = "DBMOD" /\ 1 \in Pages
  BY <1>1, ConstantsAssumption DEF FilesInv, FileTypes, WriterInv, Pages
<1>10. /\ db' \in [Pages -> Contents \cup {Absent, Torn}]
       /\ db'[p] = content /\ \A q \in Pages : q # p => db'[q] = db[q]
  BY <1>2, <1>6, <1>9
<1>11. FilesInv' /\ Keeps /\ Image' = Image
  <2>1. (Image[1] # Absent => db'[1] # Absent) /\ unsynced' \subseteq Pages
    BY <1>1, <1>2, <1>8, <1>9, <1>10 DEF FilesInv, FirstPageInv
  <2>2. \A q \in Pages : q <= journal.size /\ ~Covers(journal, stable.counted, q) =>
                           db'[q] = db[q] /\ (q \in unsynced' => q \in unsynced)
    BY <1>2, <1>10, WrittenIsCovered
  <2>3. QED
    BY <1>1, <1>2, <1>9, <1>10, <2>1, <2>2, Rewrites DEF Keeps
<1>12. /\ cache' \in [Conns -> [Pages -> Contents \cup {Absent}]]
       /\ cache'[c][p] = content /\ \A q \in Pages : q # p => cache'[c][q] = cache[c][q]
       /\ vers' \in [Conns -> 0 .. 2 * txns]
       /\ vers'[c] = IF p = 1 THEN content ELSE vers[c]
  BY <1>1, <1>2, <1>5, <1>6, <1>7 DEF SetCache, GlobalTypes
<1>13. GlobalTypes' /\ txns <= txns'
  BY <1>1, <1>2, <1>12 DEF GlobalTypes
<1> DEFINE next == CASE task = "spill" -> "writing"
                     [] task # "spill" /\ dirty # {p} -> "write"
                     [] OTHER -> "dbsync"
<1>14. /\ Goto(c, next) /\ (task = "spill" => next = "writing")
       /\ task # "spill" => next \in {"write", "dbsync"} /\ (next = "dbsync" => dirty = {p})
  BY DEF WritePage
<1> HIDE DEF next
<1>15. pc'[c] = next /\ task \in {"commit", "spill"}
  BY <1>1, <1>14, GoesTo DEF WriterInv
<1>16. WriterInv(c)'
  BY <1>1, <1>2, <1>9, <1>14, <1>15 DEF WriterInv, LockOfStep, Rewriting
<1>17. DirtyInv(c)'
  <2>1. \A q \in Pages : db'[q] # Torn
    BY <1>1, <1>8, <1>10 DEF DirtyInv
  <2>2. \A q \in dirty' : cache'[c][q] \in Contents /\ (q <= journal'.size => InJournal(q)')
    BY <1>1, <1>2, <1>12 DEF DirtyInv, GlobalTypes, InJournal
  <2>3. \A q \in Pages \ dirty' : cache'[c][q] \in {Absent, db'[q]}
    BY <1>1, <1>2, <1>10, <1>12 DEF DirtyInv
  <2>4. db'[1] # Absent => cache'[c][1] # Absent
    BY <1>1, <1>8, <1>9, <1>10, <1>12 DEF DirtyInv
  <2>5. \A q \in Pages : db'[q] # Absent \/ q \in dirty' <=> db[q] # Absent \/ q \in dirty
    BY <1>2, <1>8, <1>10
  <2>6. QED
    BY <1>1, <2>1, <2>2, <2>3, <2>4, <2>5 DEF DirtyInv
<1>18. CounterInv(c)'
  <2>1. CASE p = 1
    <3>1. b \in Nat /\ vers[c] \in Nat /\ b + 1 # Absent /\ b + 2 # Absent
      BY <1>3, CounterIs, ConstantsAssumption
    <3>2. vers'[c] = vers[c] + 1 /\ db'[1] = vers[c] + 1 /\ 1 \notin dirty'
      BY <1>2, <1>7, <1>10, <1>12, <2>1
    <3>3. Counts(c, b)'
      BY <1>2, <1>3, <1>4, <1>9, <1>11, <1>14, <1>15, <2>1, <3>1, <3>2 DEF Counts
    <3>4. QED
      BY <3>3 DEF CounterInv
  <2>2. CASE p # 1
    <3>1. vers'[c] = vers[c] /\ db'[1] = db[1] /\ (1 \in dirty' <=> 1 \in dirty)
      BY <1>2, <1>9, <1>10, <1>12, <2>2
    <3>2. Counts(c, b)'
      BY <1>1, <1>2, <1>3, <1>9, <1>11, <1>14, <1>15, <2>2, <3>1 DEF Counts
    <3>3. QED
      BY <3>2 DEF CounterInv
  <2>3. QED
    BY <2>1, <2>2
<1>19. ConnInv(c)'
  BY <1>2, <1>13, <1>14, <1>15, <1>16, <1>17, <1>18, Writing DEF CacheTypes, GlobalTypes
<1>20. \A d \in Others(c) : Aside(d)
  BY <1>1, <1>2, <1>14, OnlyOne
<1>21. QED
  BY <1>1, <1>2, <1>11, <1>13, <1>14, <1>15, <1>19, <1>20, StepKeeps DEF Idle

\* The cache after a rollback.
LEMMA UnchangedIs ==
  ASSUME FilesInv, journal # NoJournal, dirty \subseteq Pages, NEW c \in Conns, DirtyInv(c),
         CacheTypes(c)
  PROVE  /\ Unchanged(c) \in [Pages -> Contents \cup {Absent}]
         /\ \A p \in Pages : Unchanged(c)[p] \in {Absent, Image[p]}
         /\ Unchanged(c)[1] = Image[1]
<1>1. JournalOK(journal) /\ Holds(journal, Image) /\ journal.size \in 0 .. MaxPages /\ 1 \in Pages
  BY JournalFields, ConstantsAssumption DEF FilesInv, JournalInv, Pages
<1>2. ASSUME NEW p \in Pages, cache[c][p] # Absent, p <= journal.size
      PROVE  Unchanged(c)[p] = Image[p]
  <2>1. CASE InJournal(p)
    <3>1. RecordOf(p) \in 1 .. Len(journal.recs) /\ journal.recs[RecordOf(p)].page = p
      BY <2>1, RecordOfIs
    <3>2. journal.recs[RecordOf(p)].content = Image[p]
      BY <1>1, <3>1 DEF Holds
    <3>3. QED
      BY <1>1, <1>2, <2>1, <3>2, ConstantsAssumption DEF Unchanged, Pages
  <2>2. CASE ~InJournal(p)
    <3>1. db[p] = Image[p] /\ p \notin dirty
      BY <1>2, <2>2, Unrecorded DEF DirtyInv
    <3>2. cache[c][p] = Image[p]
      BY <1>2, <3>1 DEF DirtyInv
    <3>3. QED
      BY <1>1, <1>2, <2>2, <3>2, ConstantsAssumption DEF Unchanged, Pages
  <2>3. QED
    BY <2>1, <2>2
<1>3. ASSUME NEW p \in Pages, cache[c][p] = Absent \/ p > journal.size
      PROVE  Unchanged(c)[p] = Absent
  BY <1>3 DEF Unchanged
<1>4. \A p \in Pages : Unchanged(c)[p] \in {Absent, Image[p]}
  BY <1>1, <1>2, <1>3, ConstantsAssumption DEF Pages
<1>5. Unchanged(c)[1] = Image[1]
  <2>1. CASE Image[1] = Absent
    BY <1>1, <1>4, <2>1
  <2>2. CASE Image[1] # Absent
    <3>1. cache[c][1] # Absent
      BY <2>2 DEF FilesInv, FirstPageInv, DirtyInv
    <3>2. 1 <= journal.size
      BY <1>1, <2>2, ConstantsAssumption DEF Holds, Whole
    <3>3. QED
      BY <1>1, <1>2, <3>1, <3>2
  <2>3. QED
    BY <2>1, <2>2
<1>6. Unchanged(c) \in [Pages -> Contents \cup {Absent}]
  <2>1. \A p \in Pages : Unchanged(c)[p] \in Contents \cup {Absent}
    BY <1>4, ImageIsWhole
  <2>2. QED
    BY <2>1 DEF Unchanged
<1>7. QED
  BY <1>4, <1>5, <1>6

LEMMA UndoKeeps ==
  ASSUME IInv, NEW c \in Conns, LockInv', Undo(c), faults' \in 0 .. MaxFaults, Endures,
         \/ pc[c] = "writing"
         \/ pc[c] \in {"sync", "header", "syncheader", "write", "dbsync"} /\ task = "commit"
  PROVE  IInv' /\ StoreStep
<1>1. /\ LockInv /\ GlobalTypes /\ FilesInv /\ CacheTypes(c)
      /\ WriterInv(c) /\ DirtyInv(c) /\ CounterInv(c) /\ LockOfStep(c)
      /\ \A d \in Others(c) : d \in Conns /\ pc[d] \in Idle
  BY WriterIs DEF IInv, CacheTypes, GlobalTypes, LockInv
<1>2. /\ task' = "rollback" /\ played' = 0 /\ dirty' = {}
      /\ UNCHANGED <<files, lock, eState, txns>>
  BY DEF Undo
<1>3. FilesInv' /\ Keeps /\ Image' = Image
  BY <1>1, <1>2, FilesUntouched DEF Keeps
<1>4. CASE eState = "LOCKED"
  <2>1. Goto(c, "downgrade") /\ UNCHANGED <<cache, vers>>
    BY <1>4 DEF Undo
  <2>2. Clean /\ dirty = {} /\ Image = db
    BY <1>1, <1>4, ImageIsWhole DEF WriterInv
  <2>3. Current(c)
    BY <1>1, <1>4, <2>2 DEF DirtyInv, CounterInv, Counts, Current, Agrees
  <2>4. Current(c)'
    BY <1>3, <2>1, <2>3, CacheStays
  <2>5. pc'[c] = "downgrade" /\ Clean'
    BY <1>1, <1>2, <2>1, <2>2, GoesTo DEF Clean, Endures, files
  <2>6. GlobalTypes' /\ txns <= txns'
    BY <1>1, <1>2, <2>1, ConstantsAssumption DEF GlobalTypes
  <2>7. ConnInv(c)'
    BY <1>2, <2>4, <2>5, <2>6, EndingRollback DEF files, CacheTypes, GlobalTypes, Ends
  <2>8. \A d \in Others(c) : Aside(d)
    BY <1>1, <1>2, <2>1, OnlyOne
  <2>9. QED
    BY <1>1, <1>2, <1>3, <2>5, <2>6, <2>7, <2>8, StepKeeps DEF files, Idle
<1>5. CASE eState # "LOCKED"
  <2>1. journal # NoJournal /\ eState \in {"CACHEMOD", "DBMOD"}
    BY <1>1, <1>5 DEF WriterInv, Hot
  <2>2. /\ Unchanged(c) \in [Pages -> Contents \cup {Absent}]
        /\ \A p \in Pages : Unchanged(c)[p] \in {Absent, Image[p]}
        /\ Unchanged(c)[1] = Image[1]
        /\ Version(Image) \in 0 .. 2 * txns
    BY <1>1, <2>1, UnchangedIs, ImageIsWhole, ConstantsAssumption
       DEF GlobalTypes, Contents, IInv, BoundInv
  <2>3. /\ SetCache(c, Unchanged(c))
        /\ vers' = [vers EXCEPT ![c] = IF Image[1] = Absent THEN vers[c] ELSE Image[1]]
    BY <1>5, <2>2 DEF Undo
  <2>4. /\ cache' \in [Conns -> [Pages -> Contents \cup {Absent}]] /\ cache'[c] = Unchanged(c)
        /\ vers' \in [Conns -> 0 .. 2 * txns] /\ (Image[1] # Absent => vers'[c] = Image[1])
    BY <1>1, <2>2, <2>3 DEF SetCache, GlobalTypes, Version
  <2>5. Current(c)'
    BY <1>3, <2>2, <2>4 DEF Current, Agrees
  <2> DEFINE next == IF eState = "DBMOD" THEN "truncate" ELSE "unjournal"
  <2>6. /\ Goto(c, next) /\ next \in {"truncate", "unjournal"} /\ (next = "truncate" <=> eState = "DBMOD")
    BY <1>5 DEF Undo
  <2> HIDE DEF next
  <2>7. pc'[c] = next
    BY <1>1, <2>6, GoesTo
  <2>8. GlobalTypes' /\ txns <= txns'
    BY <1>1, <1>2, <2>4, ConstantsAssumption DEF GlobalTypes
  <2>9. next = "truncate" => PlaybackInv(c)'
    BY <1>1, <1>2, <2>6, <2>7 DEF WriterInv, PlaybackInv, files
  <2>10. next = "unjournal" => db' = Image' /\ Synced' /\ (lock'[c] = Exclusive \/ ~Hot(journal'))
    <3>1. next = "unjournal" => db = Image /\ Synced /\ (pc[c] = "syncheader" \/ ~Hot(journal))
      BY <1>1, <2>1, <2>6 DEF WriterInv
    <3>2. pc[c] = "syncheader" => lock[c] = Exclusive
      BY <1>1 DEF LockOfStep, Rewriting
    <3>3. QED
      BY <1>2, <1>3, <3>1, <3>2 DEF files, Synced, Endures
  <2>11. ConnInv(c)'
    BY <1>2, <2>5, <2>6, <2>7, <2>8, <2>9, <2>10, EndingRollback DEF CacheTypes, GlobalTypes, Ends
  <2>12. \A d \in Others(c) : Aside(d)
    BY <1>1, <1>2, <2>3, <2>6, OnlyOne
  <2>13. QED
    BY <1>1, <1>2, <1>3, <2>6, <2>7, <2>8, <2>11, <2>12, StepKeeps DEF files, Idle
<1>6. QED
  BY <1>4, <1>5

LEMMA RollbackKeeps ==
  ASSUME IInv, NEW c \in Conns, Rollback(c)
  PROVE  IInv' /\ StoreStep
<1>1. LockInv'
  BY WorkingStep DEF Working, IInv
<1>2. faults' \in 0 .. MaxFaults /\ Endures
  BY NothingFails DEF Rollback, IInv, GlobalTypes
<1>3. QED
  BY <1>1, <1>2, UndoKeeps DEF Rollback
-----------------------------------------------------------------------------
(***************************************************************************)
(* The end of a transaction or a recovery, and failures.                   *)
(***************************************************************************)

\* A connection that plays a journal back, or has done so.
LEMMA EndIs ==
  ASSUME IInv, NEW c \in Conns, pc[c] \in Ends, task # "commit"
  PROVE  /\ task \in {"rollback", "recovery"} /\ dirty = {} /\ CacheTypes(c)
         /\ task = "rollback" => Current(c)
         /\ task = "recovery" => Kept(c)
         /\ \A d \in Others(c) : d \in Conns /\ pc[d] \in Idle
         /\ pc[c] \in Rewriting => \A d \in Others(c) : pc[d] = "open"
<1>1. ConnInv(c) /\ LockOfStep(c) /\ lock[c] \in Levels
  BY DEF IInv, LockInv, LockTypes
<1>2. lock[c] > Shared /\ (pc[c] \in Rewriting => lock[c] = Exclusive)
  BY <1>1 DEF LockOfStep, Rewriting, Ends
<1>3. \A d \in Others(c) : d \in Conns /\ pc[d] \in Idle /\ (lock[c] = Exclusive => pc[d] = "open")
  BY <1>2, OthersIdle DEF IInv
<1>4. QED
  BY <1>1, <1>2, <1>3 DEF ConnInv, CacheTypes, Waits, Sees, Changes, Ends, Idle

\* It goes on, with the same cache.
LEMMA EndGoesOn ==
  ASSUME IInv, NEW c \in Conns, LockInv', FilesInv', Keeps, Endures,
         pc[c] \in Ends, task # "commit", pc'[c] \in Ends, UNCHANGED pc \/ (\E p : Goto(c, p)),
         UNCHANGED <<lock, cache, vers, dirty, eState, task, txns, faults>>,
         played' \in 0 .. MaxPages,
         pc'[c] = "downgrade" => Clean',
         \/ pc[c] \in Rewriting
         \/ Hot(journal') => Hot(journal) /\ UNCHANGED db,
         pc'[c] = "unjournal" => lock[c] = Exclusive \/ ~Hot(journal'),
         pc'[c] \in {"truncate", "replay"} => PlaybackInv(c)',
         pc'[c] \in {"dbsync", "unjournal"} => db' = Image',
         pc'[c] = "unjournal" => Synced'
  PROVE  IInv' /\ StoreStep
<1>1. /\ LockInv /\ GlobalTypes /\ CacheTypes(c)
      /\ task \in {"rollback", "recovery"} /\ dirty = {}
      /\ task = "rollback" => Current(c)
      /\ task = "recovery" => Kept(c)
      /\ \A d \in Others(c) : d \in Conns /\ pc[d] \in Idle
      /\ pc[c] \in Rewriting => \A d \in Others(c) : pc[d] = "open"
  BY EndIs DEF IInv
<1>2. Image' = Image
  BY DEF Keeps
<1>3. (Kept(c)' <=> Kept(c)) /\ (Current(c)' <=> Current(c))
  BY <1>2, CacheStays
<1>4. GlobalTypes' /\ txns <= txns'
  BY <1>1 DEF GlobalTypes
<1>5. CacheTypes(c)'
  BY <1>1 DEF CacheTypes
<1>6. ConnInv(c)'
  BY <1>1, <1>3, <1>5, EndingRollback
<1>7. \A d \in Others(c) : Aside(d)
  BY <1>1, OnlyOne
<1>8. pc'[c] \notin Idle
  BY DEF Ends, Idle
<1>9. QED
  BY <1>1, <1>4, <1>6, <1>7, <1>8, StepKeeps

LEMMA TruncateKeeps ==
  ASSUME IInv, NEW c \in Conns, Truncate(c)
  PROVE  IInv' /\ StoreStep
<1>1. /\ LockInv' /\ LockInv /\ GlobalTypes /\ FilesInv /\ ConnInv(c) /\ pc[c] = "truncate"
      /\ UNCHANGED <<disk, journal, stable, gone, lock, cache, vers, writer, txns, faults>>
      /\ db' = Truncated(db, journal.size) /\ Goto(c, "replay")
      /\ unsynced' = unsynced \cup {p \in Pages : db[p] # Absent /\ p > journal.size}
      /\ Endures
  BY EndingStep, NothingFails DEF Ending, IInv, Truncate
<1>2. PlaybackInv(c) /\ Hot(journal) /\ stable.magic /\ played = 0 /\ task # "commit"
  BY <1>1 DEF ConnInv, PlaybackInv, Waits, Sees, Changes, Ends, Idle
<1>3. /\ db \in [Pages -> Contents \cup {Absent, Torn}] /\ unsynced \subseteq Pages
      /\ journal.size \in 0 .. MaxPages /\ Whole(Image, journal.size)
      /\ 1 \in Pages /\ stable.counted \in Nat
  BY <1>1, <1>2, ImageIsWhole, ConstantsAssumption DEF FilesInv, FileTypes, Pages, Hot
<1>4. /\ db' \in [Pages -> Contents \cup {Absent, Torn}]
      /\ \A p \in Pages : /\ p <= journal.size => db'[p] = db[p]
                          /\ p > journal.size => db'[p] = Absent
  <2>1. \A p \in Pages : p \in Nat /\ journal.size \in Nat
    BY <1>3, ConstantsAssumption DEF Pages
  <2>2. \A p \in Pages : db'[p] = IF p > journal.size THEN Absent ELSE db[p]
    BY <1>1 DEF Truncated
  <2>3. \A p \in Pages : db'[p] \in Contents \cup {Absent, Torn}
    BY <1>3, <2>2
  <2>4. db' \in [Pages -> Contents \cup {Absent, Torn}]
    BY <1>1, <2>3 DEF Truncated
  <2>5. QED
    BY <2>1, <2>2, <2>4
<1>5. (Image[1] # Absent => db'[1] # Absent) /\ unsynced' \subseteq Pages
  <2>1. Image[1] # Absent => 1 <= journal.size /\ db[1] # Absent
    BY <1>1, <1>3 DEF Whole, FilesInv, FirstPageInv
  <2>2. Image[1] # Absent => db'[1] # Absent
    BY <1>3, <1>4, <2>1
  <2>3. unsynced' \subseteq Pages
    BY <1>1, <1>3
  <2>4. QED
    BY <2>2, <2>3
<1>6. \A p \in Pages : p <= journal.size => (p \in unsynced' => p \in unsynced)
  BY <1>1, <1>3, ConstantsAssumption DEF Pages
<1>7. FilesInv' /\ Keeps
  BY <1>1, <1>2, <1>4, <1>5, <1>6, Rewrites
<1>8. pc'[c] = "replay"
  BY <1>1, GoesTo
<1>9. PlaybackInv(c)'
  BY <1>1, <1>2, <1>3, <1>4, <1>8 DEF PlaybackInv, writer
<1>10. played' \in 0 .. MaxPages
  BY <1>1 DEF writer, GlobalTypes
<1>11. QED
  BY <1>1, <1>2, <1>7, <1>8, <1>9, <1>10, EndGoesOn DEF writer, Ends, Rewriting

\* The records played back are those that are sure to be on the disk, and counted.
LEMMA PlaysBack ==
  ASSUME IInv, NEW c \in Conns, pc[c] = "replay"
  PROVE  /\ FilesInv /\ PlaybackInv(c) /\ ToRestore = stable.counted /\ task # "commit"
         /\ Hot(journal) /\ stable.magic /\ stable.counted \in Nat /\ played \in Nat
         /\ stable.counted <= journal.counted /\ journal.counted <= Len(journal.recs)
         /\ journal.counted \in Nat /\ Len(journal.recs) \in 0 .. MaxPages
         /\ JournalOK(journal) /\ Holds(journal, Image)
<1>1. FilesInv /\ GlobalTypes /\ ConnInv(c)
  BY DEF IInv
<1>2. PlaybackInv(c) /\ Hot(journal) /\ stable.magic /\ task # "commit"
  BY <1>1 DEF ConnInv, PlaybackInv, Waits, Sees, Changes, Ends, Idle
<1>3. JournalOK(journal) /\ Holds(journal, Image) /\ StableInv /\ stable.counted \in Nat /\ played \in Nat
      /\ journal.magic
  BY <1>1, <1>2 DEF FilesInv, JournalInv, FileTypes, Hot, GlobalTypes
<1>4. Restorable(journal) = journal.counted
  BY <1>3, HotImage
<1>5. ToRestore = stable.counted
  BY <1>2, <1>4 DEF ToRestore, PlaybackInv
<1>6. journal.counted \in Nat /\ Len(journal.recs) \in 0 .. MaxPages
  BY <1>3, JournalFields, JournalLength, ConstantsAssumption
<1>7. QED
  BY <1>1, <1>2, <1>3, <1>5, <1>6 DEF StableInv, JournalOK

LEMMA ReplayKeeps ==
  ASSUME IInv, NEW c \in Conns, Replay(c)
  PROVE  IInv' /\ StoreStep
<1>1. /\ LockInv' /\ LockInv /\ GlobalTypes /\ FilesInv /\ pc[c] = "replay"
      /\ UNCHANGED <<disk, journal, stable, gone, lock, cache, vers, dirty, eState, task, txns, faults>>
      /\ Endures
  BY EndingStep, NothingFails DEF Ending, IInv, Replay
<1>2. /\ PlaybackInv(c) /\ ToRestore = stable.counted /\ task # "commit"
      /\ Hot(journal) /\ stable.magic /\ stable.counted \in Nat /\ played \in Nat
      /\ stable.counted <= journal.counted /\ journal.counted <= Len(journal.recs)
      /\ journal.counted \in Nat /\ Len(journal.recs) \in 0 .. MaxPages
      /\ JournalOK(journal) /\ Holds(journal, Image)
  BY <1>1, PlaysBack
<1>3. /\ db \in [Pages -> Contents \cup {Absent, Torn}] /\ unsynced \subseteq Pages
      /\ 1 \in Pages /\ journal.size \in 0 .. MaxPages
      /\ Whole(Image, journal.size) /\ Image = [p \in Pages |-> Image[p]]
  BY <1>1, <1>2, ImageIsWhole, ConstantsAssumption DEF FilesInv, FileTypes, Pages, Hot
<1>4. /\ \A p \in Pages : p > journal.size => db[p] = Absent
      /\ \A n \in 1 .. played : db[journal.recs[n].page] = journal.recs[n].content
      /\ played <= stable.counted
  BY <1>1, <1>2 DEF PlaybackInv
<1>5. CASE played < ToRestore
  <2> DEFINE n == played + 1
             q == journal.recs[n].page
             v == journal.recs[n].content
  <2>1. /\ db' = [db EXCEPT ![q] = v] /\ unsynced' = unsynced \cup {q}
        /\ played' = n /\ UNCHANGED pc
    BY <1>5 DEF Replay
  <2>2. n \in 1 .. stable.counted /\ n \in 1 .. Len(journal.recs) /\ n \in 0 .. MaxPages
    <3>1. played < stable.counted
      BY <1>2, <1>5
    <3>2. \A k, s, j, l, m \in Nat : k < s /\ s <= j /\ j <= l /\ l <= m =>
            k + 1 \in 1 .. s /\ k + 1 \in 1 .. l /\ k + 1 \in 0 .. m
      OBVIOUS
    <3>3. Len(journal.recs) \in Nat /\ Len(journal.recs) <= MaxPages /\ MaxPages \in Nat
      BY <1>2, ConstantsAssumption
    <3>4. QED
      BY <1>2, <3>1, <3>2, <3>3
  <2>3. q \in Pages /\ v \in Contents /\ q <= journal.size
    BY <1>2, <2>2, JournalFields DEF JournalOK
  <2>4. Covers(journal, stable.counted, q)
    BY <2>2 DEF Covers
  <2>5. \A i \in 1 .. played : journal.recs[i].page \in Pages /\ journal.recs[i].page # q
    <3>1. \A i \in 1 .. played : i \in 1 .. Len(journal.recs) /\ i # n
      BY <1>2, <1>4
    <3>2. QED
      BY <1>2, <2>2, <3>1, JournalFields DEF JournalOK
  <2>6. \A i \in 1 .. n : i \in 1 .. played \/ i = n
    BY <1>2
  <2> HIDE DEF n, q, v
  <2>7. v # Absent
    BY <2>3, ConstantsAssumption DEF Contents
  <2>8. /\ db' \in [Pages -> Contents \cup {Absent, Torn}]
        /\ db'[q] = v /\ \A p \in Pages : p # q => db'[p] = db[p]
    BY <1>3, <2>1, <2>3
  <2>9. (Image[1] # Absent => db'[1] # Absent) /\ unsynced' \subseteq Pages
    BY <1>1, <1>3, <2>1, <2>3, <2>7, <2>8 DEF FilesInv, FirstPageInv
  <2>10. \A p \in Pages : p <= journal.size /\ ~Covers(journal, stable.counted, p) =>
                            db'[p] = db[p] /\ (p \in unsynced' => p \in unsynced)
    BY <2>1, <2>4, <2>8
  <2>11. FilesInv' /\ Keeps
    BY <1>1, <1>2, <2>8, <2>9, <2>10, Rewrites
  <2>12. \A p \in Pages : p > journal.size => db'[p] = Absent
    BY <1>3, <1>4, <2>3, <2>8 DEF Pages
  <2>13. \A i \in 1 .. n : db'[journal.recs[i].page] = journal.recs[i].content
    BY <1>4, <2>5, <2>6, <2>8 DEF q, v
  <2>14. PlaybackInv(c)'
    BY <1>1, <1>2, <2>1, <2>2, <2>12, <2>13 DEF PlaybackInv
  <2>15. QED
    BY <1>1, <1>2, <2>1, <2>2, <2>11, <2>14, EndGoesOn DEF Ends, Rewriting
<1>6. CASE ~(played < ToRestore)
  <2>1. Goto(c, "dbsync") /\ UNCHANGED <<db, unsynced, played>>
    BY <1>6 DEF Replay
  <2>2. played = stable.counted
    BY <1>2, <1>4, <1>6
  <2>3. FilesInv' /\ Keeps /\ Image' = Image
    BY <1>1, <2>1, FilesUntouched DEF files, Keeps
  <2>4. ASSUME NEW p \in Pages
        PROVE  db[p] = Image[p]
    <3>1. CASE Covers(journal, stable.counted, p)
      <4>1. PICK i \in 1 .. stable.counted : journal.recs[i].page = p
        BY <3>1 DEF Covers
      <4>2. i \in 1 .. Len(journal.recs)
        BY <1>2
      <4>3. QED
        BY <1>2, <1>4, <2>2, <4>1, <4>2 DEF Holds
    <3>2. CASE ~Covers(journal, stable.counted, p) /\ p <= journal.size
      BY <1>1, <1>2, <3>2 DEF FilesInv, HotInv, Intact
    <3>3. CASE p > journal.size
      BY <1>3, <1>4, <3>3 DEF Whole, Pages
    <3>4. QED
      BY <1>3, <3>1, <3>2, <3>3 DEF Pages
  <2>5. db = Image
    BY <1>3, <2>4
  <2>6. pc'[c] = "dbsync"
    BY <1>1, <2>1, GoesTo
  <2>7. db' = Image'
    BY <2>1, <2>3, <2>5
  <2>8. played' \in 0 .. MaxPages
    BY <1>1, <2>1 DEF GlobalTypes
  <2>9. QED
    BY <1>1, <1>2, <2>1, <2>3, <2>6, <2>7, <2>8, EndGoesOn DEF Ends, Rewriting
<1>7. QED
  BY <1>5, <1>6

LEMMA SyncDatabaseKeeps ==
  ASSUME IInv, NEW c \in Conns, SyncDatabase(c)
  PROVE  IInv' /\ StoreStep
<1>1. /\ LockInv' /\ LockInv /\ GlobalTypes /\ FilesInv /\ ConnInv(c) /\ pc[c] = "dbsync"
      /\ disk' = db /\ unsynced' = {} /\ Goto(c, "unjournal")
      /\ UNCHANGED <<db, journal, stable, gone, lock, cache, vers, writer, txns, faults>>
  BY EndingStep DEF Ending, IInv, SyncDatabase
<1>2. FilesInv' /\ Keeps /\ Image' = Image /\ Endures
  BY <1>1, FileSynced, NothingFails DEF Keeps
<1>3. Synced'
  BY <1>1 DEF Synced
<1>4. pc'[c] = "unjournal" /\ lock[c] = Exclusive
  BY <1>1, GoesTo DEF LockInv, LockOfStep, Rewriting
<1>5. CASE task = "commit"
  <2>1. WriterInv(c)
    BY <1>1, <1>5, WriterIs
  <2>2. WriterInv(c)'
    BY <1>1, <1>2, <1>4, <1>5, <2>1 DEF WriterInv, writer
  <2>3. eState # "LOCKED"
    BY <1>1, <2>1 DEF WriterInv
  <2>4. QED
    BY <1>1, <1>2, <1>3, <1>5, <2>2, <2>3, WriterGoesOn DEF writer
<1>6. CASE task # "commit"
  <2>1. db' = Image'
    BY <1>1, <1>2, <1>6 DEF ConnInv
  <2>2. played' \in 0 .. MaxPages
    BY <1>1 DEF GlobalTypes, writer
  <2>3. QED
    BY <1>1, <1>2, <1>3, <1>4, <1>6, <2>1, <2>2, EndGoesOn DEF Ends, writer, Rewriting
<1>7. QED
  BY <1>5, <1>6

\* The commit: the database is now what the file holds, and no cache of another
\* connection has its counter.
LEMMA CommitEnds ==
  ASSUME IInv, NEW c \in Conns, DeleteJournal(c), task = "commit"
  PROVE  IInv' /\ StoreStep
<1>1. /\ LockInv' /\ LockInv /\ GlobalTypes /\ FilesInv /\ pc[c] = "unjournal"
      /\ journal' = NoJournal /\ stable' = Unstable /\ gone' = IF stable.entry THEN journal ELSE gone
      /\ Goto(c, "downgrade")
      /\ UNCHANGED <<db, disk, unsynced, lock, cache, vers, writer, txns, faults>>
      /\ Endures
  BY EndingStep, NothingFails DEF Ending, IInv, DeleteJournal
<1>2. /\ WriterInv(c) /\ DirtyInv(c) /\ CounterInv(c) /\ Synced
      /\ \A d \in Others(c) : d \in Conns /\ pc[d] = "open"
  BY <1>1, WriterIs
<1>3. eState = "DBMOD" /\ Hot(journal) /\ dirty = {}
  BY <1>1, <1>2 DEF WriterInv
<1>4. PICK b \in Contents : Counts(c, b)
  BY <1>2 DEF CounterInv
<1>5. vers[c] \in {b + 1, b + 2} /\ vers[c] = db[1] /\ db[1] # Absent
  BY <1>1, <1>2, <1>3, <1>4 DEF Counts
<1>6. \E n \in 0 .. MaxPages : Whole(db, n)
  <2>1. PICK n \in 0 .. MaxPages : \A p \in Pages : p <= n <=> (db[p] # Absent \/ p \in dirty)
    BY <1>2 DEF DirtyInv
  <2>2. \A p \in Pages : db[p] # Torn /\ db[p] \in Contents \cup {Absent, Torn}
    BY <1>1, <1>2 DEF DirtyInv, FilesInv, FileTypes
  <2>3. Whole(db, n)
    BY <1>3, <2>1, <2>2 DEF Whole
  <2>4. QED
    BY <2>3
<1>7. FilesInv' /\ Image' = db /\ Before' = Image
  BY <1>1, <1>2, <1>3, <1>6, JournalDeleted
<1>8. /\ Image'[1] = vers[c] /\ Version(Image') = vers[c] /\ Image'[1] # Absent
      /\ Version(Image) \in Nat /\ Version(Image) < Version(Image')
  <2>1. b \in Nat /\ vers[c] > b
    BY <1>4, <1>5, CounterIs
  <2>2. Version(Image) \in Nat /\ (Version(Image) = 0 \/ Version(Image) = b)
    BY <1>1, <1>4, ImageIsWhole, ConstantsAssumption DEF Counts, Version, Contents
  <2>3. QED
    BY <1>5, <1>7, <2>1, <2>2 DEF Version
<1>9. GlobalTypes' /\ vers[c] \in 0 .. 2 * txns
  BY <1>1 DEF GlobalTypes, writer
<1>10. BoundInv'
  <2>1. Version(Image)' = vers[c] /\ Version(Before)' = Version(Image)
    BY <1>7, <1>8 DEF Version
  <2>2. QED
    BY <1>1, <1>9, <2>1 DEF BoundInv, IInv
<1>11. pc'[c] = "downgrade" /\ task' = "commit" /\ dirty' = {}
  BY <1>1, <1>3, GoesTo DEF writer
<1>12. IdleInv' /\ NewInv'
  BY <1>7, <1>8, <1>11 DEF IdleInv, Idle, NewInv, IInv
<1>13. Current(c)'
  BY <1>1, <1>2, <1>3, <1>5, <1>7, <1>8 DEF Current, Agrees, DirtyInv
<1>14. Clean' /\ ~Hot(journal')
  BY <1>1 DEF Hot, Clean
<1>15. ConnInv(c)'
  BY <1>9, <1>11, <1>13, <1>14 DEF ConnInv, GlobalTypes, Waits, Sees, Changes, Idle, Ends
<1>16. \A d \in Others(c) : ConnInv(d)'
  <2> SUFFICES ASSUME NEW d \in Others(c)
               PROVE  ConnInv(d)'
    OBVIOUS
  <2>1. d \in Conns /\ pc[d] = "open" /\ ConnInv(d)
    BY <1>2 DEF IInv
  <2>2. Aside(d)
    BY <1>1, OnlyOne
  <2>3. Kept(d) /\ vers[d] \in Int
    BY <1>1, <2>1 DEF ConnInv, Waits, Idle, GlobalTypes
  <2>4. Version(Image)' = vers[c] /\ vers[c] \in Nat /\ Version(Image) < vers[c]
    BY <1>8, <1>9 DEF Version
  <2>5. Kept(d)'
    BY <1>8, <2>2, <2>3, <2>4 DEF Kept, Aside
  <2>6. QED
    BY <1>9, <2>1, <2>2, <2>5, Waiting DEF CacheTypes, GlobalTypes, Aside, Idle
<1>17. \A d \in Conns : ConnInv(d)'
  BY <1>15, <1>16 DEF Others
<1>18. Image' \in [Pages -> Contents \cup {Absent}] /\ Image' # Image
  BY <1>7, <1>8 DEF FilesInv, ImageInv
<1>19. QED
  BY <1>1, <1>7, <1>9, <1>10, <1>12, <1>17, <1>18 DEF IInv, StoreStep

LEMMA DeleteJournalKeeps ==
  ASSUME IInv, NEW c \in Conns, DeleteJournal(c)
  PROVE  IInv' /\ StoreStep
<1>1. /\ LockInv' /\ LockInv /\ GlobalTypes /\ FilesInv /\ ConnInv(c) /\ pc[c] = "unjournal"
      /\ journal' = NoJournal /\ stable' = Unstable /\ gone' = IF stable.entry THEN journal ELSE gone
      /\ Goto(c, "downgrade")
      /\ UNCHANGED <<db, disk, unsynced, lock, cache, vers, writer, txns, faults>>
      /\ Endures
  BY EndingStep, NothingFails DEF Ending, IInv, DeleteJournal
<1>2. CASE task = "commit"
  BY <1>2, CommitEnds
<1>3. CASE task # "commit"
  <2>1. db = Image /\ Synced
    BY <1>1, <1>3 DEF ConnInv
  <2>2. \E n \in 0 .. MaxPages : Whole(db, n)
    BY <1>1, <2>1 DEF FilesInv, ImageInv
  <2>3. FilesInv' /\ Image' = db /\ Before' \in {Before, Image}
    BY <1>1, <2>1, <2>2, JournalDeleted
  <2>4. Keeps
    BY <2>1, <2>3 DEF Keeps
  <2>5. pc'[c] = "downgrade" /\ ~Hot(journal') /\ Clean'
    BY <1>1, GoesTo DEF Hot, Clean
  <2>6. played' \in 0 .. MaxPages
    BY <1>1 DEF GlobalTypes, writer
  <2>7. QED
    BY <1>1, <1>3, <2>3, <2>4, <2>5, <2>6, EndGoesOn DEF Ends, writer
<1>4. QED
  BY <1>2, <1>3

\* The transaction or the recovery is over: of a transaction the connection keeps the
\* cache.
LEMMA DowngradeKeeps ==
  ASSUME IInv, NEW c \in Conns, Downgrade(c)
  PROVE  IInv' /\ StoreStep
<1>1. /\ LockInv' /\ LockInv /\ GlobalTypes /\ FilesInv /\ ConnInv(c) /\ pc[c] = "downgrade"
      /\ SetLock(c, Shared) /\ Goto(c, IF task = "recovery" THEN "validate" ELSE "reader")
      /\ eState' = "READER" /\ task' = "none" /\ played' = 0
      /\ UNCHANGED <<files, cache, vers, dirty, txns, faults>>
  BY EndingStep DEF Ending, IInv, Downgrade
<1>2. dirty = {} /\ Clean /\ (Waits(c) \/ Sees(c) \/ Changes(c))
  BY <1>1 DEF ConnInv, Ends
<1>3. FilesInv' /\ Keeps /\ Image' = Image /\ Endures
  BY <1>1, FilesUntouched, NothingFails DEF Keeps
<1>4. (Kept(c)' <=> Kept(c)) /\ (Current(c)' <=> Current(c))
  BY <1>1, <1>3, CacheStays
<1>5. CacheTypes(c)' /\ GlobalTypes' /\ txns <= txns'
  BY <1>1, ConstantsAssumption DEF CacheTypes, GlobalTypes
<1>6. Clean' /\ (Hot(journal') => Hot(journal) /\ UNCHANGED db /\ faults' # 0)
  BY <1>1, <1>2 DEF files, Clean, Spared
<1>7. pc'[c] = IF task = "recovery" THEN "validate" ELSE "reader"
  BY <1>1, GoesTo
<1>8. ConnInv(c)'
  <2>1. CASE task = "recovery"
    <3>1. Kept(c)
      BY <1>1, <2>1 DEF ConnInv, Waits, Ends
    <3>2. QED
      BY <1>4, <1>5, <1>6, <1>7, <2>1, <3>1, Waiting DEF Idle
  <2>2. CASE task # "recovery"
    <3>1. Current(c)
      BY <1>1, <1>2, <2>2 DEF ConnInv, Waits, Sees, Changes, Ends, Idle
    <3>2. QED
      BY <1>4, <1>5, <1>6, <1>7, <2>2, <3>1, Reading
  <2>3. QED
    BY <2>1, <2>2
<1>9. \A d \in Others(c) : Aside(d)
  BY <1>1, OnlyOne
<1>10. \A d \in Others(c) : pc[d] \in Idle
  <2>1. lock[c] > Shared
    BY <1>1 DEF LockInv, LockTypes, LockOfStep
  <2>2. QED
    BY <1>1, <2>1, OthersIdle
<1>11. QED
  BY <1>1, <1>2, <1>3, <1>5, <1>6, <1>8, <1>9, <1>10, StepKeeps

\* A connection gives up: it keeps its lock, and no cache.
LEMMA AbandonKeeps ==
  ASSUME IInv, NEW c \in Conns, LockInv', Abandon(c), faults' \in 0 .. MaxFaults \ {0}, Endures,
         lock[c] > Shared
  PROVE  IInv' /\ StoreStep
<1>1. /\ LockInv /\ GlobalTypes /\ FilesInv
      /\ SetCache(c, NoPages) /\ Goto(c, "busy") /\ (\E l : SetLock(c, l))
      /\ dirty' = {} /\ eState' = "READER" /\ task' = "none" /\ played' = 0
      /\ UNCHANGED <<files, vers, txns>>
  BY DEF IInv, Abandon
<1>2. FilesInv' /\ Keeps
  BY <1>1, FilesUntouched
<1>3. NoPages \in [Pages -> Contents \cup {Absent}]
  BY DEF NoPages
<1>4. /\ cache' \in [Conns -> [Pages -> Contents \cup {Absent}]] /\ cache'[c] = NoPages
      /\ pc'[c] = "busy"
  BY <1>1, <1>3, GoesTo DEF SetCache, GlobalTypes
<1>5. GlobalTypes' /\ txns <= txns'
  BY <1>1, <1>4, ConstantsAssumption DEF GlobalTypes
<1>6. ConnInv(c)'
  BY <1>4, <1>5, EmptyCache, Waiting DEF CacheTypes, GlobalTypes, Idle
<1>7. \A d \in Others(c) : Aside(d)
  BY <1>1, OnlyOne
<1>8. \A d \in Others(c) : pc[d] \in Idle
  BY <1>1, OthersIdle
<1>9. QED
  BY <1>1, <1>2, <1>5, <1>6, <1>7, <1>8, StepKeeps DEF files

LEMMA FaultCounts ==
  ASSUME IInv, Fault
  PROVE  faults' \in 0 .. MaxFaults /\ faults' # 0 /\ Endures /\ ~Spared
  BY ConstantsAssumption DEF Fault, IInv, GlobalTypes, Endures, Spared

LEMMA IOErrorKeeps ==
  ASSUME IInv, NEW c \in Conns, IOError(c)
  PROVE  IInv' /\ StoreStep
<1>1. LockInv' /\ LockInv
  BY IOErrorStep DEF IInv
<1>2. faults' \in 0 .. MaxFaults /\ faults' # 0 /\ Endures
  BY FaultCounts DEF IOError
<1>3. /\ pc[c] \in {"sync", "header", "syncheader", "write", "dbsync", "truncate", "replay", "unjournal"}
      /\ \/ Abandon(c)
         \/ /\ pc[c] \in {"sync", "header", "syncheader", "write", "dbsync"}
            /\ task = "commit" /\ Undo(c)
  BY DEF IOError
<1>4. lock[c] > Shared
  BY <1>1, <1>3 DEF LockInv, LockTypes, LockOfStep, Rewriting
<1>5. QED
  BY <1>1, <1>2, <1>3, <1>4, AbandonKeeps, UndoKeeps

\* All connections are closed, and the files hold a database.
LEMMA RestartKeeps ==
  ASSUME IInv, Restart, FilesInv', BoundInv', NewInv', faults' \in 0 .. MaxFaults, faults' # 0
  PROVE  IInv'
<1>1. LockInv'
  BY AllRestart
<1>2. NoPages \in [Pages -> Contents \cup {Absent}] /\ 0 \in 0 .. 2 * txns /\ txns' = txns
  BY ConstantsAssumption DEF NoPages, IInv, GlobalTypes, Restart
<1>3. GlobalTypes'
  BY <1>2, ConstantsAssumption DEF Restart, GlobalTypes, IInv
<1>4. IdleInv'
  BY DEF Restart, IdleInv, Left
<1>5. ASSUME NEW c \in Conns
      PROVE  ConnInv(c)'
  <2>1. pc'[c] = "open" /\ cache'[c] = NoPages /\ CacheTypes(c)'
    BY <1>2 DEF Restart, CacheTypes
  <2>2. QED
    BY <2>1, EmptyCache, Waiting DEF Idle
<1>6. QED
  BY <1>1, <1>3, <1>4, <1>5 DEF IInv

LEMMA KillKeeps ==
  ASSUME IInv, Kill
  PROVE  IInv' /\ StoreStep
<1>1. FilesInv /\ Restart /\ UNCHANGED files /\ UNCHANGED txns
      /\ faults' \in 0 .. MaxFaults /\ faults' # 0 /\ Endures
  BY FaultCounts DEF Kill, Restart, IInv
<1>2. FilesInv' /\ Keeps
  BY <1>1, FilesUntouched
<1>3. BoundInv' /\ NewInv'
  BY <1>1, <1>2 DEF Keeps, BoundInv, NewInv, IInv, Version
<1>4. QED
  BY <1>1, <1>2, <1>3, RestartKeeps DEF StoreStep

LEMMA PowerFailureKeeps ==
  ASSUME IInv, PowerFailure
  PROVE  IInv' /\ StoreStep
<1>1. FilesInv /\ Restart /\ UNCHANGED txns /\ ~Spared /\ NewInv
      /\ faults' \in 0 .. MaxFaults /\ faults' # 0
  BY FaultCounts DEF PowerFailure, Restart, IInv
<1>2. FilesInv' /\ Image' \in {Image, Before} /\ Before' = Image'
  BY <1>1, PowerLost DEF PowerFailure, NewInv
<1>3. BoundInv' /\ NewInv'
  BY <1>1, <1>2 DEF BoundInv, NewInv, IInv, Version
<1>4. QED
  BY <1>1, <1>2, <1>3, RestartKeeps DEF StoreStep

LEMMA NothingKeeps ==
  ASSUME IInv, UNCHANGED vars
  PROVE  IInv' /\ StoreStep
<1>1. /\ UNCHANGED <<files, writer, txns>> /\ UNCHANGED <<pc, lock, cache, vers, dirty>>
      /\ UNCHANGED <<eState, task, played, faults>>
  BY DEF vars, writer
<1>2. LockInv' /\ FilesInv' /\ Keeps /\ Endures
  BY <1>1, NobodyMoves, FilesUntouched, NothingFails DEF IInv
<1>3. GlobalTypes'
  BY <1>1 DEF IInv, GlobalTypes
<1>4. IdleInv'
  BY <1>1 DEF IInv, IdleInv, Left, files
<1>5. BoundInv' /\ NewInv'
  BY <1>1, <1>2 DEF IInv, BoundInv, NewInv, Keeps, Version
<1>6. \A c \in Conns : ConnInv(c)'
  BY <1>1, <1>2, StandsAside DEF IInv, Aside
<1>7. QED
  BY <1>2, <1>3, <1>4, <1>5, <1>6 DEF IInv, StoreStep
-----------------------------------------------------------------------------
(***************************************************************************)
(* The theorems about the database, of the behaviours in which no recovery *)
(* is mistaken for a transaction.                                          *)
(***************************************************************************)

\* A failure may undo the creation of a file: the promise is for files that exist, or for
\* one failure at most.
LEMMA InitIInv ==
  ASSUME Init, 0 \notin InitialSizes \/ MaxFaults <= 1
  PROVE  IInv /\ Image \in [Pages -> Contents \cup {Absent}] /\ Before = Image
<1>1. PICK n \in InitialSizes : db = FileOfSize(n)
  BY DEF Init
<1>2. n \in 0 .. MaxPages /\ 1 \in Pages /\ 0 \in Contents /\ MaxFaults \in Nat
  BY ConstantsAssumption DEF Pages, Contents
<1>3. db \in [Pages -> Contents \cup {Absent}] /\ Whole(db, n) /\ db[1] \in {0, Absent}
  BY <1>1, <1>2 DEF FileOfSize, Whole
<1>4. /\ disk = db /\ unsynced = {} /\ journal = NoJournal /\ stable = Unstable /\ gone = NoJournal
      /\ dirty = {} /\ task = "none" /\ txns = 0
  BY DEF Init
<1>5. ~Hot(journal) /\ Image = db /\ Before = Image
  BY <1>4, ColdImage DEF Hot, Image, Before
<1>6. Unstable \in [entry : BOOLEAN, recs : Nat, counted : Nat, magic : BOOLEAN]
  BY DEF Unstable
<1>7. FileTypes
  BY <1>3, <1>4, <1>6, ConstantsAssumption DEF FileTypes
<1>8. ImageInv /\ FirstPageInv /\ JournalInv /\ GoneInv /\ HotInv
  BY <1>2, <1>3, <1>4, <1>5 DEF ImageInv, FirstPageInv, JournalInv, GoneInv, HotInv, Synced
<1>9. NoPages \in [Pages -> Contents \cup {Absent}]
  BY DEF NoPages
<1>10. GlobalTypes
  BY <1>2, <1>4, <1>9, ConstantsAssumption DEF Init, GlobalTypes
<1>11. BoundInv /\ IdleInv
  BY <1>3, <1>4, <1>5 DEF BoundInv, Version, IdleInv, Left
<1>12. NewInv
  <2>1. db[1] = Absent => 0 \in InitialSizes
    <3>1. 1 <= n => db[1] \in Contents
      BY <1>2, <1>3 DEF Whole
    <3>2. Absent \notin Contents
      BY ConstantsAssumption DEF Contents
    <3>3. db[1] = Absent => n = 0
      BY <1>2, <3>1, <3>2, ConstantsAssumption
    <3>4. QED
      BY <1>1, <3>3
  <2>2. QED
    BY <1>5, <2>1 DEF NewInv
<1>13. ASSUME NEW c \in Conns
       PROVE  ConnInv(c)
  BY <1>2, <1>4, <1>9 DEF Init, ConnInv, Kept, Waits, Sees, Changes, Idle, Ends
<1>14. QED
  BY <1>3, <1>5, <1>7, <1>8, <1>10, <1>11, <1>12, <1>13, InitLockInv DEF IInv, FilesInv

LEMMA CarefulStep ==
  ASSUME IInv, [CarefulNext]_vars
  PROVE  IInv' /\ StoreStep
<1>1. ASSUME NEW c \in Conns, Opening(c)
      PROVE  IInv' /\ StoreStep
  BY <1>1, AcquireSharedKeeps, JournalExistsKeeps, CheckHeaderKeeps, LockForRecoveryKeeps,
     OpenHotJournalKeeps, ValidateKeeps, LetGoKeeps, CloseKeeps DEF Opening
<1>2. ASSUME NEW c \in Conns, Working(c)
      PROVE  IInv' /\ StoreStep
  BY <1>2, BeginKeeps, BeginExclusiveKeeps, CommitKeeps, RollbackKeeps, ReadKeeps, WriteKeeps,
     SpillKeeps DEF Working
<1>3. ASSUME NEW c \in Conns, Committing(c)
      PROVE  IInv' /\ StoreStep
  BY <1>3, UpgradeKeeps, SyncRecordsKeeps, WriteHeaderKeeps, SyncHeaderKeeps, WritePageKeeps
     DEF Committing
<1>4. ASSUME NEW c \in Conns, Ending(c)
      PROVE  IInv' /\ StoreStep
  BY <1>4, TruncateKeeps, ReplayKeeps, SyncDatabaseKeeps, DeleteJournalKeeps, DowngradeKeeps
     DEF Ending
<1>5. ASSUME NEW c \in Conns, IOError(c) \/ (~AboutToMistake(c) /\ CheckReserved(c))
      PROVE  IInv' /\ StoreStep
  BY <1>5, IOErrorKeeps, CheckReservedKeeps
<1>6. CASE Kill \/ PowerFailure
  BY <1>6, KillKeeps, PowerFailureKeeps
<1>7. CASE UNCHANGED vars
  BY <1>7, NothingKeeps
<1>8. QED
  BY <1>1, <1>2, <1>3, <1>4, <1>5, <1>6, <1>7 DEF CarefulNext, AllButCheckReserved

LEMMA Typed == IInv => TypeOK
<1> SUFFICES ASSUME IInv
             PROVE  TypeOK
  OBVIOUS
<1>1. GlobalTypes /\ FileTypes /\ LockTypes
  BY DEF IInv, FilesInv, LockInv
<1>2. journal \in Journals \cup {NoJournal} /\ gone \in Journals \cup {NoJournal}
  BY DEF IInv, FilesInv, JournalInv, GoneInv, JournalOK
<1>3. stable.recs \in 0 .. MaxPages /\ stable.counted \in 0 .. MaxPages
  <2>1. CASE journal = NoJournal
    BY <2>1, ConstantsAssumption DEF IInv, FilesInv, JournalInv, Unstable
  <2>2. CASE journal # NoJournal
    <3>1. JournalOK(journal) /\ StableInv
      BY <2>2 DEF IInv, FilesInv, JournalInv
    <3>2. /\ journal.counted \in Nat /\ Len(journal.recs) \in Nat /\ Len(journal.recs) <= MaxPages
          /\ stable.recs \in Nat /\ stable.counted \in Nat
      BY <1>1, <3>1, JournalFields, JournalLength DEF FileTypes
    <3>3. QED
      BY <3>1, <3>2, ConstantsAssumption DEF StableInv
  <2>3. QED
    BY <2>1, <2>2
<1>4. stable \in [entry : BOOLEAN, recs : 0 .. MaxPages, counted : 0 .. MaxPages, magic : BOOLEAN]
  BY <1>1, <1>3 DEF FileTypes
<1>5. vers \in [Conns -> Contents]
  <2>1. 0 .. 2 * txns \subseteq Contents
    BY <1>1, ConstantsAssumption DEF GlobalTypes, Contents
  <2>2. QED
    BY <1>1, <2>1 DEF GlobalTypes
<1>6. QED
  BY <1>1, <1>2, <1>4, <1>5 DEF TypeOK, GlobalTypes, FileTypes, LockTypes

LEMMA Seen == IInv => ReadersSeeTheImage
<1> SUFFICES ASSUME IInv, NEW c \in Conns, pc[c] = "reader", NEW p \in Pages
             PROVE  PageOf(c, p) = Image[p]
  BY DEF ReadersSeeTheImage
<1>1. Current(c) /\ Clean
  BY DEF IInv, ConnInv, Sees
<1>2. db = Image
  BY <1>1, ImageIsWhole DEF IInv
<1>3. QED
  BY <1>1, <1>2 DEF PageOf, Current, Agrees

LEMMA Told == IInv => VersionTellsContent
<1> SUFFICES ASSUME IInv, NEW c \in Conns, pc[c] = "open", cache[c][1] # Absent, vers[c] = Image[1],
                    NEW p \in Pages, cache[c][p] # Absent
             PROVE  cache[c][p] = Image[p]
  BY DEF VersionTellsContent
<1>1. Kept(c)
  BY DEF IInv, ConnInv, Waits, Idle
<1>2. cache[c] # NoPages
  BY DEF NoPages
<1>3. vers[c] = Version(Image)
  BY ConstantsAssumption DEF Version, IInv, GlobalTypes
<1>4. QED
  BY <1>1, <1>2, <1>3 DEF Kept, Agrees

\* The files and the caches, in the words of the invariant, whatever fails and when.
THEOREM FilesAreConsistent ==
  ASSUME 0 \notin InitialSizes \/ MaxFaults <= 1
  PROVE  CarefulSpec => []IInv
<1>1. QED
  BY InitIInv, CarefulStep, PTL DEF CarefulSpec

\* Every variable has its type: no journal has more records than the file has pages, no
\* counter goes beyond what the transactions begun can add (pager_write_changecounter).
THEOREM TypesAreKept ==
  ASSUME 0 \notin InitialSizes \/ MaxFaults <= 1
  PROVE  CarefulSpec => []TypeOK
<1>1. QED
  BY FilesAreConsistent, Typed, PTL

\* A read transaction sees the last committed image, whether a page comes from the file
\* or from the cache (sqlite3PagerSharedLock, sqlite3PagerAcquire).
THEOREM ReadersSeeCommits ==
  ASSUME 0 \notin InitialSizes \/ MaxFaults <= 1
  PROVE  CarefulSpec => []ReadersSeeTheImage
<1>1. QED
  BY FilesAreConsistent, Seen, PTL

\* The change counter is enough to tell that a cache is out of date (lockBtree,
\* pager_write_changecounter).
THEOREM CountersTellCaches ==
  ASSUME 0 \notin InitialSizes \/ MaxFaults <= 1
  PROVE  CarefulSpec => []VersionTellsContent
<1>1. QED
  BY FilesAreConsistent, Told, PTL

\* The pager implements Store: a commit is the deletion of the journal, and only a
\* failure of the power may bring the image before back, as a whole.
THEOREM PagerImplementsStore ==
  ASSUME 0 \notin InitialSizes \/ MaxFaults <= 1
  PROVE  CarefulSpec => StoreSpec
<1>1. Init => S!Init
  BY InitIInv DEF S!Init, Before
<1>2. IInv /\ [CarefulNext]_vars => [S!Next]_(S!vars)
  <2> SUFFICES ASSUME IInv, [CarefulNext]_vars
               PROVE  [S!Next]_(S!vars)
    OBVIOUS
  <2>1. StoreStep
    BY CarefulStep
  <2>2. CASE Keeps
    BY <2>2 DEF Keeps, S!Next, S!Settle, S!vars, Before
  <2>3. CASE Image' # Image /\ Image' \in [Pages -> Contents \cup {Absent}] /\ Before' = Image
    BY <2>3 DEF S!Next, S!Commit, Before
  <2>4. CASE Image' \in {Image, Before} /\ Before' = Image'
    BY <2>4 DEF S!Next, S!PowerFails, Before
  <2>5. QED
    BY <2>1, <2>2, <2>3, <2>4 DEF StoreStep
<1>3. QED
  BY <1>1, <1>2, FilesAreConsistent, PTL DEF StoreSpec, S!Spec, CarefulSpec
==============================================================================
