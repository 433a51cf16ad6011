# QC Hybrid in TLA+

TLA+ models, TLC configurations and TLAPS proofs for QuickConnect Hybrid: a
framework for iOS and Android applications written in JavaScript. The
application's page runs in a web view; a JavaScript library organises it into
*command stacks* of control functions and reaches the device (database, files,
network, audio, location, views) through messages to a native library, which
runs command stacks of its own and sends results back into the page.

Paths below are shortened: **A** is `src/Android/qc_android/QCAndroidSetup/assets`
(the JavaScript library; the copy in the Xcode template **T** is identical except
for `com.js` and `SetupQC.js`), **J** is
`src/Android/src/org/quickconnectfamily/hybrid` (the Android native library), **O**
is `src/iOS/Objective-C Files/QC Hybrid Lib/QC Hybrid Lib` (the iOS native library).

The repository's own code is these three trees. The rest of its seven thousand
files are the Android SDK and Ant, generated documentation, examples and build files,
and SQLite 3.7.9 (`sqlite3.c` beside **O**), which is compiled into the iOS library
and whose pager decides what the databases promise; it is modelled too. The native *engines*, which run the control objects of the native
side, are binaries (`qc_native.a`, `qc_hybrid.a`, `qc.jar`) and are external to
the models. The commit is in the middle of a change of the message format: the
pages send and expect dictionaries with named fields, while the native libraries
still insert into, index and answer with arrays. The models describe the code as
it is, and say where this decides what can happen.

## 1. Inventory

| Component | State | Operations | Talks to |
|---|---|---|---|
| Command stacks, `A/QuickConnect.js`, `A/QCUtilities.js` | the JavaScript call stack, `window.requestHandler`, `window.generateExecutionKey`, `executionMap`, `executionCount` | `handleRequest`, `handleError`, `handleRequestCompletionFromNative`, `dispatchTo…` | everything asynchronous, by execution keys |
| Android response queue, `J/JavaScriptCallHandler.java`, `A/com.js` | `theMessageQueue`, the semaphore, `qc.hasMadeCall`, each page's copy | `addResponseToQueue`, `messageQueueAsJSON`, `qc.makeCall`, the polling timer | native threads and the pages |
| iOS message polling, `T/com.js`, `O/InterlayerMessageSystem.m`, `O/QuickConnectViewController.m` | the array `messages`, the polling operation, its parsed queue | `qc.makeCall`, `qc.messageQueueAsJSON`, `main`, `webViewDidFinishLoad:` | the page and the native engine |
| HTTP transfers (iOS), `O/QCHTTPHandler.m`, `O/BatchQCHTTPHandler.m` | the connection of each get, the names a batch has collected, the files | `startGet`, the delegate methods, `notifyRequestComplete:` | servers, the file system, the page |
| Server access, `A/ServerAccessObject.js` | `http`, its flag `aborted`, one timer per request | `getData`, `setData`, `makeCall`, `onreadystatechange`, the timer | servers, the command stacks |
| Native databases (iOS), `O/SQLiteDataAccess.m`, `O/ExecuteDBScriptBCO.m`, `O/TransactionHandlerBCO.m`, … | `controller.databases`, the class-wide semaphore, SQLite's lock, transaction and error message | scripts, single statements, begin, commit, rollback | SQLite, the page |
| SQLite's pager, `sqlite3.c` | the database file and its journal, in memory and on the disk; the lock, cache and change counter of each connection | shared lock and recovery of a hot journal, reads, `pager_write`, spilling, commit, rollback, errors | the operating system, the native databases |
| Database scripts, `A/DBScript.js`, `A/DataAccessObject.js` | the linker, `numGeneratedParams`, the open transaction | `addStatement`, `executeSetDataScript`, `executeBatch` | the web database |
| Everything else | see `PROJECT.json`, components with status `not_modelled`, each with its reason | | |

What is hard about each, and what makes it correct:

* **Command stacks.** One thread, but four kinds of nesting: control functions
  start requests and raise errors, stacks suspend in the middle of their data
  functions and are resumed by answers that may come late, repeatedly or never,
  and the two global functions that keep stacks apart (the refusing stub and the
  key generator) are saved and restored by hand on every path. Correct means: one
  stack at a time, data functions in order and once, views after data, a stack
  that has exited stays so, a key is given to one call and to the right one, and
  the engine always becomes free again.
* **Response queue.** Native threads and pages on threads of their own, a critical
  section with an exception in the middle, interrupts while waiting. Correct means:
  every response reaches exactly one page, in order, and no poll blocks for ever.
* **Message polling.** The page runs on between the emptying of the array and the
  handling of the answer; it may be loaded again at any time. Correct means: no
  request is handled twice, overtakes another, or is lost other than as a whole.
* **Transfers.** The files of several commands are got at once, connections are not
  made or end in four ways, a batch collects, and some ends are told to nobody. Correct
  means: at most one answer per command, and it says what is in the directory.
* **Server access.** The server's answer races the timer, and requests of one object
  share a variable. Correct means: one result per request, its own, and no timer
  left behind. (That the results reach nobody is in section 6.)
* **Native databases.** Threads share connections, the error message of a connection
  and one file; a statement that is busy is retried with the semaphore held. Correct
  means: scripts are atomic and say what they did, no transaction is left open, and
  all commands answer.
* **SQLite's pager.** A commit is a dozen calls to the operating system, between any
  two of which the process or the power may fail, also while an earlier failure is
  being recovered; connections look at the journal and at each other's locks in
  steps, and keep what they have read. Correct means: a transaction is all or
  nothing whatever fails, writers are alone, and nobody reads what was not committed.
* **Database scripts.** Statements may be added while a run is under way, and runs
  may fail. Correct means: each run executes each statement once, in order.

Every hazard is listed at its line in `PROJECT.json`, with the properties that
cover it.

## 2. Modules

| Module | Models | Extended by |
|---|---|---|
| `StackLifecycle` | abstract: what the engine promises of a stack | (instantiated by `CommandStack`) |
| `CommandStack` | the engine | `MCCommandStack`, `CommandStackProofs` |
| `Mailbox` | abstract: messages put in one by one and taken out all at once | (instantiated by the next two) |
| `ResponseQueue` | the Android way from native code to the page | `MCResponseQueue`, `ResponseQueueProofs` |
| `MessagePolling` | the iOS way from the page to native code | `MCMessagePolling`, `MessagePollingProofs` |
| `Downloads` | single and batch downloads on iOS | `MCDownloads`, `DownloadsProofs` |
| `ServerAccess` | requests, answers and timers | `MCServerAccess`, `ServerAccessProofs` |
| `NativeDatabase` | stacks that use the iOS databases | `MCNativeDatabase`, `NativeDatabaseProofs` |
| `Store` | abstract: an image that transactions change all at once | (instantiated by `SQLitePager`) |
| `SQLitePager` | connections to a database file, its journal, locks and recovery | `MCSQLitePager`, `SQLitePagerProofs` |
| `DBScript` | scripts and the transactions that run them | `MCDBScript`, `DBScriptProofs` |

Each module has a section of *faulty variants*: definitions changed as a plausible
bug would change them. No action of `Next` uses them; they show that each property
can fail for a fault of the code.

**CommandStack.** `jsStack` is the part of the JavaScript call stack that matters:
a frame of `requestHandler` (with the loop it is in) or of `dispatchToECF`. A frame
inside a control function lets the application act (`AppRunning`), so everything
application code may do (`HandleRequest`, `HandleError`, `MakeCall`, …) happens at
the top of the stack or in an event of its own. `handler` and `gen` are the two
global functions, with a frame's `saved`, `cached` and `local` the variables they
are kept in. Execution keys are counted; the data of a stack is left out. Of the
global variable `key`, which a resumption needs (`QuickConnect.js:381`) and nobody
declares, the model has whether it exists. `Answered` is the native side: it
answers calls that were made, in any order, possibly several times or never.
`historyVars` are for the properties.

**ResponseQueue.** A thread's `pc` is its place in `addResponseToQueue` or
`messageQueueAsJSON`; the fair semaphore, whose permits are always acquired all
together, is `waiters` and `holder`. `CopyFails` is the exception after which the
permits are never released. The page's use of its copy is `CompleteNext`.

**MessagePolling.** The main thread runs the page's script and the evaluation of
`messageQueueAsJSON` one at a time; the polling thread waits for the latter. A
request's parameters are an array, a dictionary or something that contains itself;
what becomes of the application in each case is in `death`.

**Downloads.** A command is a thread that runs one get after the other. The actions
are the delegate methods; `Notify` is separate from `FinishLoading` because other
commands write files between the two. A command can end without an answer in three
ways, which `dropped` records: a batch with more or fewer URLs than names or with
nothing to get (`BeginNothing`), a URL that is none, and one that no connection can be
made for (`NoConnection`). And it can end the application (`Crash`): its parameters
stop before the key to answer with, a get of a batch has an error to send, a failure has
no reason, a response is not HTTP.

**ServerAccess.** `http` is the shared variable: what a callback or a timer of any
request finds there is the last request (`Http`). `Callback` is evaluated with the
state as the event has left it; `results` has what it makes. `abort` calls the callback by itself, with the
status 0 and before the flag is set, which is why `Fire` runs it once only.

**NativeDatabase.** A stack is a thread with one job. `dbAccess` is divided where
other threads can come in between: after preparing, after the description has been
set, at each try, at the end of the rows, and before a failure is described. All
names are connections to one file (`SQLiteDataAccess.m:63`). Of SQLite the module
has the exclusive transaction, the locks, the refusal to roll back while a query of
the same connection is under way, and the error message of a connection; how the
locks come about is in `SQLitePager`. Each change belongs to one stack
(`ChangesAreDistinct`), so that the file tells who has changed it. `Alone` are the stacks the page asks for by themselves, `Before`
the order in which it waits for answers.

**SQLitePager.** An action is what a connection does in one call to the operating
system. `db` is the database file as all connections see it, `disk` what of it is on
the disk for sure up to the last sync, `unsynced` the pages that may or may not be
there; `journal`, `stable` and `gone` are the same of the journal, which may also
come back after it has been deleted. A connection is a lock, a place (`pc`) in
`sqlite3PagerSharedLock`, `sqlite3PagerCommitPhaseOne`, `pager_playback` and so on, a
cache and the change counter it has last seen; the one that writes has the dirty
pages, `eState` and its place in the journal. `IOError` is a call that fails, `Kill`
the end of the process, `PowerFailure` also that of the machine: unsynced pages are
then old, new or torn. Assumed of the disk is that a sync is durable, that the
twelve bytes of the journal's header are written whole, and that a torn record is
found by its checksum. `Recovered` is the image the files stand for, whatever state they
are in; the refinement maps it to the image of `Store`. `CheckReserved` of `Spec` is what the code does:
any lock above the shared one counts as reserved. That is how a hot journal is missed
(section 6), and the other properties would only show it again, so their runs check
`CarefulSpec`: the behaviours in which no connection makes this mistake.

**DBScript.** The linker is a function from keys to entries; `ForIn` gives the
order of a `for-in` loop: integer keys first and ascending, then the others as they
were put in. `executeBatch` runs the entries that are there when the transaction
begins.

## 3. Runs

All are run with two workers; the longest takes about three minutes.

| Run | Shows | Bounds |
|---|---|---|
| `command_stack` | all safety properties of the engine, that it becomes free again, and that it implements `StackLifecycle` | 2 commands (one without DCFs, one with 2), 2 stacks, call-stack depth 3, 2 outstanding calls per stack |
| `response_queue` | the queue loses, repeats and reorders nothing, is a lock around a current copy, implements `Mailbox`; polls return and responses arrive | 2 threads, 2 pages, 2 additions from 3 responses (one unprintable), 1 interrupt |
| `message_polling` | once and in order, implements a lossy `Mailbox`, every request is handled | 4 requests of any kind, 1 reload |
| `downloads` | at most one answer per command, a complete one, and one at all unless the command ends as in section 2 | 6 commands (2 batches, an empty one, one with too few URLs, a single, an overwriting single without a key), 2 names |
| `server_access` | one result, of the right request, no timer left, the callback of the last request passes its test | an object with 3 successive requests, one with 2 at once |
| `native_database` | atomic scripts, no transaction left open, everyone answers | 2 scripts and a query at once; a transaction of the page and a script that fails half-way, alone |
| `db_script` | every statement once, kinds in order | 3 statements of any form, 2 runs |
| `sqlite_pager` | readers see the committed image, the change counter tells stale caches, the file implements `Store` | 2 connections, up to 3 pages, a file that may be new, 2 transactions, 1 failure |
| `sqlite_recovery` | whoever writes is alone, and `Store` again, when a rollback or a recovery fails and is recovered in its turn | 2 connections, up to 2 pages, 3 failures |
| `hot_journal_missed`, `timeouts_are_own`, `rollback_unwinds` | violations, see section 6 | small |

Why the bounds are enough. Two stacks and depth three give a stack suspended while
another runs and an error function inside a control function inside a stack; a
third stack would meet the same globals. The race of the queue needs one page, one
writer and a second thread of either kind; the theorems cover any number. Requests
of the polling interact only through their order and through one that takes the
others along, for which three are enough. Downloads interact in pairs over one
name. A request of an object interacts with the next one, and a third shows that
nothing is left over from the first. Stacks of the database interact through one
lock, one semaphore and one error message per connection: two that may share a
connection or not, and a third that reads. Of the pager's connections one writes and
the others read or wait, so that two meet in every pair of places; three pages let a
transaction overwrite one page, append another and leave page 1 to the change counter,
two transactions let a cache be older than the last commit, and one failure falls
between any two calls. The three failures of `sqlite_recovery` let a recovery fail and
be recovered, on files that have a page already: of a file that is still empty, two
failures are too many for SQLite. The process is killed when a rollback has cut the file
to nothing, and the next opener finds an empty file, deletes its journal
(`sqlite3.c:41953`) and syncs nothing; then the power fails, the truncation is lost, and
what is left of the pages has no journal.

Deadlock is checked for `command_stack`. It is not where the system may really
stop: `ResponseQueue` when the permits are lost, `MessagePolling` and `Downloads`
when the application has died or all commands are done, and the modules whose
requests, jobs, runs or transactions are finitely many by their bounds. The liveness properties
say where it may stop.

### Fairness

* `CommandStack`: JavaScript runs to completion (`WF` of the engine), and a control
  function that keeps getting the processor ends, at every depth (`SF`, since the
  errors it raises suspend it). Nothing is assumed of events or native answers.
* `ResponseQueue`: threads run, the semaphore is created fair
  (`JavaScriptCallHandler.java:66`), `setInterval` fires again and again.
* `MessagePolling`: the page finishes loading, the polling thread runs, the main
  thread returns to its run loop.
* `Downloads`: some thread that can run does, and a connection ends, if with a
  timeout. A command has finitely many steps, so none is kept waiting for ever.
* `ServerAccess`: timers fire. Nothing is assumed of a server.
* `NativeDatabase`: some thread that can run does. Busy statements give up after
  their tries, so no fairness of SQLite is needed.

## 4. Proofs

**CommandStackProofs.** For any commands with any numbers of control functions, any
number of stacks, and any depth: `TypeOK`, `OneStackAtATime`,
`StubOnlyWhileRunning`, `DataFunctionsInOrder`, `ViewsAfterData`, `ExitIsFinal`,
`OneKeyPerDCF`, `OwnKeyOnly`. Assumed are only the types of the constants
(`ConstantsAssumption` of `CommandStack`). None of these is inductive by itself:
that views come after data depends on a frame's loop variable agreeing with
`numFuncsCalled` of an object that suspended and resumed in between. `IInv` says so:
what each frame has saved (`HandlerInv`), what the execution objects hold
(`ObjectsInv`), and how the one frame of a running stack agrees with its object
(`FramesInv`). The step is proved action by action, from lemmas about the three
things an action can do to the call stack (push, replace the top, pop). For the two
properties of keys a second invariant, `CallersInv` and `GeneratorInv`, says which
generator is installed while a frame is in the loop of `dispatchToDCF`; it is
inductive relative to `IInv`.

Also proved there: the engine implements `StackLifecycle`
(`ImplementsLifecycle`). The owner of the engine is the key of the one frame of
`requestHandler`, if it has a key yet; so a request that is still being validated owns
nothing, and its first dispatch is what opens a stack. Every action is shown to be one
step of `StackLifecycle` (`DispatchOpens`, `CompleteResumes`, `CallDCFRunsData`,
`DCFExitsCloses`, `CallVCFRunsView`, `VCFReturnsEndsView`, `FinishReleases`) or to
change nothing it sees. `IInv` gives what the step needs: a frame that may call functions has a
live object, and the object counts the functions called. `ConstantsAssumption` is
used for `NoCmd`, which is no command.

**ResponseQueueProofs.** For any threads, pages, responses and any bounds: `TypeOK`,
`NothingLostOrRepeated`, `CopyIsCurrent`, `PermitsAccountedFor`, and that
`ResponseQueue` implements `Mailbox` (`ImplementsMailbox`). The invariant is their
conjunction with `ThreadInv`: that the queue and what has been handed out add up
needs the copy to be current when it is returned, which needs the lock, which needs
every thread to be at a place of its kind. The refinement maps clearing the queue to
taking the messages out and every other step but an addition to a stutter.

**MessagePollingProofs.** For any requests and any number of reloads: `TypeOK`,
`RequestsOnceInOrder`, and that the array and the polling thread implement `Mailbox`.
The invariant adds `PollerInv`, that the thread has requests only while it hands them
over. The order follows from lemmas on ascending sequences: what has been handled,
what the thread has and what the page has are, in this order, ascending, and every
step moves a request to the right end of the next or drops it.

**DownloadsProofs.** For any commands, batches of any length and any names: `TypeOK`,
`OneAnswer`, `AnswersAreComplete`. Assumed are the types of the constants, that a
single command gets one file, and that only batches can have the wrong number of URLs.
`BatchInv` says that a batch has collected at most one name for each get that has
ended, and that if it has collected one for each they are the first names it wanted;
the answer comes, if the batch has a key, when their number is that of the batch, which
is therefore the last get and happens once. `ProgressInv` ties the get a command is at
to the delegate methods still to come.

**ServerAccessProofs.** For any objects and requests: `TypeOK`, `OneOwnResult`,
`NoTimerLeft`. `AloneInv` says that a request of an object that makes one at a time is
the one in `http` as long as its timer runs; then a timer can only abort its own request.
`HttpInv` says that a callback always finds a request of its own object, which the
requests that share an object need too.

**NativeDatabaseProofs.** For any stacks, jobs, names and orders: `TypeOK`,
`EveryTransactionEnds`, `ScriptsAreAtomic`. The first invariant (`ConnectionInv`,
`CallInv`, `AloneInv`) says that a stack holds the semaphore in every call that changes
data, so that nobody else begins a transaction between a script's failed commit and
its return. `GoodStep` is what every action does to the stack that takes it and to
the others; each action is shown to be one. The second, `ScriptInv`, follows a script
that runs alone: in a transaction of its connection, whoever has begun it, it has made the
changes it has come past unless one has failed; when another connection has one, it makes none,
although each busy change answers "not an error", and the commit fails. Assumed is that
no two stacks make the same change (`ChangesAreDistinct`) and that a change is none of
the four statements with a meaning of their own.

**DBScriptProofs.** For scripts of any length that are run any number of times:
`EveryStatementOnce`, `OrderWithinKinds`. `LinkerInv` says that each statement is under
one key of the linker and that keys of a kind grow with the statements; adding a
statement keeps it because the new keys have greater numbers than all before. The
for-in loop is given by the rank of a key, the number of keys before it: that ranks are
`1` to the number of keys, each once, follows by counting (`Ranks`), and that the loop
preserves what `LinkerInv` says of the linker follows from it (`LoopIsGood`).

**SQLitePagerProofs.** For any connections, sizes, transactions and failures:
`WritersAreAlone`, of `Spec` and of `CarefulSpec`. `LockInv` says which lock a
connection has at each place (`LockOfStep`) and that locks of two connections exclude
each other (`Apart`); the writer's `eState` is part of it, since a transaction that
has written to the file goes on under the exclusive lock.

Of `CarefulSpec`, and of files that have a page at first or a single failure: `TypeOK`,
`ReadersSeeTheImage`, `VersionTellsContent`, and that the pager implements `Store`
(`PagerImplementsStore`). The invariant, `IInv`, has these parts.

* `FilesInv` is what the files hold. `Image` is a database of some number of pages
  (`ImageInv`); every record of the journal, counted or not, is a page of it
  (`JournalInv`), and those of a deleted journal that may still be on the disk are
  pages of the database it would bring back (`GoneInv`). `HotInv` is the heart of it:
  without a hot journal the file is synced and is the database; with one, every page
  either has a record that is on the disk *and counted by a header there*, or has not
  been touched, neither in the file nor on the disk. So whatever a failure of the power
  makes of the pages not synced, what is left of the journal restores the database
  (`Restores`, `Survivors`, `PowerLost`).
* `ConnInv` is what a connection's cache holds, by its role: one that waits may have a
  cache that is out of date, but then its counter is below that of the database
  (`Kept`); one that reads, or has rolled back or committed, agrees with the database
  (`Current`); the writer is at a stage of `eState` (`WriterInv`), has its dirty pages in the cache
  and their old contents in the journal (`DirtyInv`), and has counted once or twice
  (`CounterInv`: a page 1 that was spilled is written again at the commit; of a file that
  has no page 1 yet, that there is a number it began with). Who plays a
  journal back has written the records up to `played` (`PlaybackInv`).
* `BoundInv` and `IdleInv` tie the counters to the transactions begun, and the writer's
  variables to there being a writer.
* `FirstPageInv`, `NewInv` and `Clean` are for a file that is new. When its creator fails
  and another connection finds it empty, the journal is deleted unsynced, or stays behind
  when even that is cut short. What may then be on the disk matters only if something can
  still fail, which is what the alternative `Spared` of `Synced`, `Intact` and
  `FirstPageInv` says; `NewInv` that only one failure is allowed as long as a failure of
  the power could make the file new again, so that the first one leaves it `Spared`.

Each action is shown to keep the files (`Keeps`: the database stays, and what the power
may bring back is as before or the database itself), then the role of the connection that takes it; that the
others are not disturbed follows from their locks (`OthersIdle`, `StepKeeps`). Only the
deletion of the journal by a commit changes the database (`CommitEnds`): the counter
grows, so that every cache that is kept elsewhere is told to be old. `StoreStep` says
the same in the words of `Store`: such a commit is `Commit`, the directory that is synced with the first
records is `Settle`, and a failure of the power is `PowerFails`.

The hypothesis is `0 \notin InitialSizes \/ MaxFaults <= 1`. Both runs of the pager that
pass satisfy it, `sqlite_pager` with a new file and one failure, `sqlite_recovery`
with files that exist and three; it is as weak as SQLite allows, since with a new file and
two failures TLC finds `StoreSpec` violated (section 3). That no recovery is mistaken for a transaction (`CarefulSpec`) cannot be done
without, as `hot_journal_missed` shows. `NoJournalAssumption` says that no journal is
`NoJournal`.

What is only model-checked is liveness, since fairness and `ENABLED` are out of the
prover's reach: `EngineBecomesFree`, `PollReturns`, `ResponsesArrive`,
`RequestsHandled`, `CommandsAnswer`, `LastPassesTest`, `StacksAnswer`. Every other
property of a passing run is a theorem.

## 5. What is not modelled

The data of stacks and messages, layout, logging and conversions, unless a property
is about them. Within the components modelled: uploads (the assertion of
`QCHTTPHandler.m:53` fails before the connection is made), the closing of a native
database while others use it (what a closed handle does is undefined) and the first
copy of its file, of SQLite what is above the pager (B-trees, the virtual machine, the
parser) and what the library does not use (savepoints, WAL, shared caches, attached
databases, other journal modes), single statements of the web database,
and the native path of `executeSetDataScript`, which pushes to a variable that is
not defined and sends nothing (`DBScript.js:98`). The other components are listed
with their reasons in `PROJECT.json`. In short: one call of the platform each (files,
pickers, widgets, device functions), a binary library behind them (the Android
databases, the engines), or code that does not get to its interesting part
(synchronisation, `LocationObject`). The view tree of Android is left out for
another reason: its commands come one at a time, and each of them by itself breaks what
one would state of the map of names. `remove_view` leaves the entry of the view it removes
(`RemoveViewVCO.java` passes an id nobody has set), `QCViewsPlugin.removeView` raises a null
pointer for a view without a parent and, from `remove_view`, for a container. These are in
the hazards, without a property.

## 6. What the runs found

Three runs check a statement of the source and find it violated:

* `hot_journal_missed`: a connection that fails to get the exclusive lock for a recovery
  keeps the pending lock for a moment, and another takes that for the lock of a
  transaction in progress: it does not play the hot journal back, and reads a half-written file
  (`sqlite3.c:25828`; 42010-42011 say it is played back).
* `timeouts_are_own`: the timer of one request aborts another before the seconds of
  that one are over (`ServerAccessObject.js:296`; 109 says they are its own).
* `rollback_unwinds`: a script commits the page's open transaction, and the
  page's rollback is answered with "not an error" (`ExecuteDBScriptBCO.m:52`).

Modelled as the code has it, seen while modelling, and without a run of its own:

* An event handler's native call can take the key of the stack that ran before
  (`QuickConnect.js:358-361` says it cannot). `gen` of `CommandStack`.
* No polled response resumes its stack, because the page parses a variable that is
  defined nowhere (`A/com.js:247`). `CompleteNext` of `ResponseQueue`.
* No result of a request to a server resumes its stack: the key that `getData` takes
  along is always `NOT_IN_A_BCF_FOR_CMD_STACK` (`QCUtilities.js:274-280`,
  `QuickConnect.js:336`), under which there is no execution object, so that
  `requestHandler` is not called (`ServerAccessObject.js:282-286`; 276 says that the next
  control function is). `setData` passes its parameters on before it makes them
  (129-130), so that its callback throws. `Callback` of `ServerAccess`, whose properties
  speak of results made for this reason, and not of answers.
* A batch whose numbers of names and URLs differ never answers
  (`BatchQCHTTPHandler.m:24-27`), nor does a get whose URL is none or has no connection
  (`QCHTTPHandler.m:399`, 407). An error of one get of a batch, and parameters that stop
  before the key (`QCHTTPHandler.m:657`, `BatchQCHTTPHandler.m:53`), end the application.
  `BeginNothing`, `NoConnection` and `Crash` of `Downloads`, exempted in `CommandsAnswer`.
* A file that could not be written is answered like any other (`QCHTTPHandler.m:626`).
  `FinishLoading` of `Downloads`, exempted in `AnswersAreComplete`.
* A request that cannot be made into JSON takes all others that wait along
  (`T/com.js:802`), and a second page load ends the application
  (`QuickConnectViewController.m:657`). `EvaluateFails` and `FinishLoad` of
  `MessagePolling`, exempted in `RequestsHandled`.
* A synchronised statement without parameters replaces its own record for the server
  (`DBScript.js:79`). `Put` of `DBScript`.
* A script's rollback is given up after 21 tries of 20 microseconds while a query of its
  connection has rows to go (`SQLiteDataAccess.m:213-221`, `sqlite3.c:66215`); the result is
  dropped, and the transaction stays open with its lock. `givenUp` of `NativeDatabase`.
* A ValCF that throws leaves the refusing stub installed for good: the exception
  passes `QuickConnect.js:296` ("Restore our global requestHandler"). `poisoned` in
  `StubOnlyWhileRunning` and `EngineBecomesFree`.
* Every facade of `T/com.js` passes a dictionary; the polling thread sends it
  `insertObject:atIndex:` (`InterlayerMessageSystem.m:71`) and dies. `HandleRequest`
  of `MessagePolling`.
* The native control objects answer with an array that has the key in its second
  place (`O/SendDBResultVCO.m:97`); the page looks for it under a name
  (`QuickConnect.js:302`) and ignores the answer. `DropAnswer` of `CommandStack`.
* Two downloads of one name both write though neither may overwrite: the file is
  looked for before the download (`QCHTTPHandler.m:378`) and written after it (626).
  `StartGet` and `FinishLoading` of `Downloads`.
* A statement that stays busy for all its tries is not executed and answers "not an
  error" (`SQLiteDataAccess.m:205-221`; `DataAccessObject.js:407` says otherwise).
  `GiveUp` of `NativeDatabase`.
* Statements without parameters are executed before those with
  (`DBScript.js:38-39` says in the order of adding). `ForIn` of `DBScript`, and why
  `OrderWithinKinds` speaks of kinds.

## 7. What could be added

Everything of the first plan is done but for three small modules, which were given
up for the reasons in section 5 and in `PROJECT.json`: the view tree, the resource cache
and the events of the activity. Worth adding to what there is:

1. The composition of `NativeDatabase` with `SQLitePager` in place of `Locked` and `Busy`,
   which would show the retries of a busy statement against the steps of a recovery.
2. The closing of a connection in `NativeDatabase`, once the code waits for its users.
