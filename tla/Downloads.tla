------------------------------ MODULE Downloads ------------------------------
(***************************************************************************)
(* Downloads on iOS: QCHTTPHandler gets one file, BatchQCHTTPHandler gets  *)
(* several with one QCHTTPHandler each.                                    *)
(*                                                                         *)
(* Every command runs on a thread of its own of the native engine.  A get  *)
(* runs that thread's run loop until its connection has ended, so that the *)
(* files of a batch are got one after the other; the files of different    *)
(* commands are got at the same time, into the one documents directory.    *)
(* Results are handed to the page on the main thread, one at a time.       *)
(***************************************************************************)
EXTENDS Integers, SequencesExt

CONSTANTS
  Commands,    \* the download commands
  Names,       \* the names files are saved under
  Wanted,      \* the names each command saves under, in order
  Batches,     \* the commands that are batches
  Overwriters, \* the single commands told to overwrite an existing file
  Mismatched,  \* the batches with more or fewer URLs than names
  Keyless,     \* the commands whose parameters end before the key to answer with
  Nobody       \* the writer of a file that does not exist

ASSUME ConstantsAssumption ==
  /\ Wanted \in [Commands -> Seq(Names)]
  /\ Batches \subseteq Commands
  /\ Overwriters \subseteq Commands \ Batches
  /\ \A c \in Commands \ Batches : Len(Wanted[c]) = 1
  /\ Mismatched \subseteq Batches
  /\ Keyless \subseteq Commands
  /\ Nobody \notin Commands

VARIABLES
  got,           \* how many gets of each command have been begun
  stage,         \* where the current get of each command is
  writer,        \* the command that last wrote each file
  saveFilePaths, \* the names each batch has collected
  crashed,       \* an exception nobody catches has ended the application
  answers,       \* history: what each command has answered the page
  dropped,       \* history: the commands that gave up a get and told nobody
  unwritten      \* history: the names whose file could not be written

vars == <<got, stage, writer, saveFilePaths, crashed, answers, dropped, unwritten>>

(***************************************************************************)
(* "ready" to begin the next get, "loading", "written": between writing    *)
(* the file and telling so, "present": the file was there already.         *)
(***************************************************************************)
Stages == {"ready", "loading", "written", "present", "done"}

Init ==
  /\ got = [c \in Commands |-> 0]
  /\ stage = [c \in Commands |-> "ready"]
  /\ writer \in [Names -> {Nobody}]
  /\ saveFilePaths = [c \in Commands |-> <<>>]
  /\ crashed = FALSE
  /\ answers = [c \in Commands |-> <<>>]
  /\ dropped = {}
  /\ unwritten = {}

Current(c) == Wanted[c][got[c]]

\* The run loop of a get that has ended is left: a batch goes on, a single
\* command is done.
EndGet(c) ==
  stage' = [stage EXCEPT ![c] = IF got[c] < Len(Wanted[c]) THEN "ready" ELSE "done"]

\* An exception on the main thread ends the application.
Crash == crashed' = TRUE /\ UNCHANGED answers

\* sendResultsToWebView answers with the key the parameters are to have.
Answer(c, what) ==
  \/ c \in Keyless /\ Crash
  \/ /\ c \notin Keyless
     /\ answers' = [answers EXCEPT ![c] = Append(@, what)]
     /\ UNCHANGED crashed

\* The handlers of a batch have no parameters to find a key in: what they find
\* is nil, and nil is not a thing to add to an array.
SendError(c) == IF c \in Batches THEN Crash ELSE Answer(c, {"error"})

-----------------------------------------------------------------------------
(***************************************************************************)
(* Faulty variants of the actions below, for checking that the properties  *)
(* notice the fault; no action of Next uses them.                          *)
(***************************************************************************)

\* didReceiveResponse that does not cancel the connection it complains about.
HTTPErrorWithoutCancel(c) ==
  /\ stage[c] = "loading"
  /\ SendError(c) \/ Crash
  /\ UNCHANGED <<got, stage, writer, saveFilePaths, dropped, unwritten>>

\* sendResultsToWebView that counts the name it is about to add.
CollectEarly(c) ==
  /\ saveFilePaths' = [saveFilePaths EXCEPT ![c] = Append(@, Current(c))]
  /\ IF Len(saveFilePaths[c]) + 2 = Len(Wanted[c])
       THEN Answer(c, ToSet(saveFilePaths'[c]))
       ELSE UNCHANGED <<answers, crashed>>

\* startGet that returns when the file is there, and tells nobody.
NotifySilently(c) ==
  /\ stage[c] \in {"written", "present"}
  /\ IF stage[c] = "present" THEN UNCHANGED <<answers, saveFilePaths, crashed>>
     ELSE IF c \in Batches
       THEN /\ saveFilePaths' = [saveFilePaths EXCEPT ![c] = Append(@, Current(c))]
            /\ IF Len(saveFilePaths'[c]) = Len(Wanted[c])
                 THEN Answer(c, ToSet(saveFilePaths'[c]))
                 ELSE UNCHANGED <<answers, crashed>>
       ELSE UNCHANGED saveFilePaths /\ Answer(c, {Current(c)})
  /\ EndGet(c)
  /\ UNCHANGED <<got, writer, dropped, unwritten>>

\* sendResultsToWebView with a path that has not been set.
NotifyNothing(c) ==
  /\ stage[c] \in {"written", "present"}
  /\ Answer(c, {Nobody})
  /\ EndGet(c)
  /\ UNCHANGED <<got, writer, saveFilePaths, dropped, unwritten>>

-----------------------------------------------------------------------------
(***************************************************************************)
(* doBatch and startGet.                                                   *)
(***************************************************************************)

\* doBatch returns at once when the numbers of names and of URLs differ, and
\* has nothing to do for an empty batch: neither ever answers.
BeginNothing(c) ==
  /\ stage[c] = "ready"
  /\ c \in Mismatched \/ Wanted[c] = <<>>
  /\ stage' = [stage EXCEPT ![c] = "done"]
  /\ dropped' = dropped \cup {c}
  /\ UNCHANGED <<got, writer, saveFilePaths, crashed, answers, unwritten>>

\* There is a get to begin.
HasNext(c) ==
  /\ stage[c] = "ready"
  /\ c \notin Mismatched
  /\ got[c] < Len(Wanted[c])

\* The file is looked for; unless it is there and stays, the connection is made
\* and the run loop entered.
StartGet(c) ==
  /\ HasNext(c)
  /\ got' = [got EXCEPT ![c] = @ + 1]
  /\ LET there == writer[Current(c)'] # Nobody /\ c \notin Overwriters
     IN  stage' = [stage EXCEPT ![c] = IF there THEN "present" ELSE "loading"]
  /\ UNCHANGED <<writer, saveFilePaths, crashed, answers, dropped, unwritten>>

\* The same with a URL that is none, or with one that no connection can be made
\* for, so that the run loop has nothing to wait for: startGet returns.
NoConnection(c) ==
  /\ HasNext(c)
  /\ LET name == Wanted[c][got[c] + 1]
     IN  writer[name] = Nobody \/ c \in Overwriters
  /\ got' = [got EXCEPT ![c] = @ + 1]
  /\ dropped' = dropped \cup {c}
  /\ stage' = [stage EXCEPT ![c] = IF got'[c] < Len(Wanted[c]) THEN "ready" ELSE "done"]
  /\ UNCHANGED <<writer, saveFilePaths, crashed, answers, unwritten>>

-----------------------------------------------------------------------------
(***************************************************************************)
(* The delegate methods of the connection.                                 *)
(***************************************************************************)

\* didReceiveResponse with a status that is not 2xx: the connection is
\* cancelled and the error sent back.  A response that is not HTTP at all fails
\* an assertion.
HTTPError(c) ==
  /\ stage[c] = "loading"
  /\ EndGet(c)
  /\ SendError(c) \/ Crash
  /\ UNCHANGED <<got, writer, saveFilePaths, dropped, unwritten>>

\* didFailWithError: the same, and an error need not have a failure reason, which
\* is another nil in an array.
ConnectionFails(c) ==
  /\ stage[c] = "loading"
  /\ EndGet(c)
  /\ SendError(c) \/ Crash
  /\ UNCHANGED <<got, writer, saveFilePaths, dropped, unwritten>>

\* connectionDidFinishLoading writes the file and does not look at whether that
\* worked, ...
FinishLoading(c) ==
  /\ stage[c] = "loading"
  /\ stage' = [stage EXCEPT ![c] = "written"]
  /\ \/ writer' = [writer EXCEPT ![Current(c)] = c] /\ UNCHANGED unwritten
     \/ unwritten' = unwritten \cup {Current(c)} /\ UNCHANGED writer
  /\ UNCHANGED <<got, saveFilePaths, crashed, answers, dropped>>

\* ... sendResultsToWebView of the batch collects the names and answers with all
\* of them ...
Collect(c) ==
  /\ saveFilePaths' = [saveFilePaths EXCEPT ![c] = Append(@, Current(c))]
  /\ IF Len(saveFilePaths'[c]) = Len(Wanted[c])
       THEN Answer(c, ToSet(saveFilePaths'[c]))
       ELSE UNCHANGED <<answers, crashed>>

\* ... and the main thread is told of the file, which startGet does too when
\* the file was there already.
Notify(c) ==
  /\ stage[c] \in {"written", "present"}
  /\ IF c \in Batches THEN Collect(c)
                      ELSE UNCHANGED saveFilePaths /\ Answer(c, {Current(c)})
  /\ EndGet(c)
  /\ UNCHANGED <<got, writer, dropped, unwritten>>

-----------------------------------------------------------------------------
Start(c) == BeginNothing(c) \/ StartGet(c) \/ NoConnection(c)

Delegate(c) == HTTPError(c) \/ ConnectionFails(c) \/ FinishLoading(c) \/ Notify(c)

Next == ~crashed /\ \E c \in Commands : Start(c) \/ Delegate(c)

Spec == Init /\ [][Next]_vars

(***************************************************************************)
(* Fairness: some thread runs that can, and a connection ends, if only     *)
(* with a timeout.  A command has finitely many steps to take, so that all *)
(* of them get to their end.                                               *)
(***************************************************************************)
FairSpec == Spec /\ WF_vars(Next)

-----------------------------------------------------------------------------
(***************************************************************************)
(* Properties.                                                             *)
(***************************************************************************)
TypeOK ==
  /\ \A c \in Commands : got[c] \in 0 .. Len(Wanted[c])
  /\ stage \in [Commands -> Stages]
  /\ writer \in [Names -> Commands \cup {Nobody}]
  /\ saveFilePaths \in [Commands -> Seq(Names)]
  /\ crashed \in BOOLEAN
  /\ answers \in [Commands -> Seq(SUBSET (Names \cup {"error"}))]
  /\ dropped \subseteq Commands
  /\ unwritten \subseteq Names

\* However its gets end, a command answers the page at most once.
OneAnswer == \A c \in Commands : Len(answers[c]) <= 1

\* A batch that answers names every file it was to get, and each file named in
\* any answer is in the directory or could not be written there.
AnswersAreComplete ==
  \A c \in Commands : answers[c] # <<>> =>
    /\ c \in Batches => answers[c][1] = ToSet(Wanted[c])
    /\ \A name \in answers[c][1] \ {"error"} : writer[name] # Nobody \/ name \in unwritten

\* A command answers, unless the application dies, it has begun nothing, or one of
\* its gets has been given up without telling anybody.
CommandsAnswer ==
  \A c \in Commands : <>(answers[c] # <<>> \/ crashed \/ c \in dropped)
=============================================================================
