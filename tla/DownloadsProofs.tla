---------------------------- MODULE DownloadsProofs ----------------------------
(***************************************************************************)
(* Proofs about Downloads: for any commands, batches of any length and any *)
(* names, a command answers at most once, and what it says is complete and *)
(* there.                                                                  *)
(***************************************************************************)
EXTENDS Downloads, SequenceTheorems, TLAPS

\* The file of this name has been written, or could not be.
There(name) == writer[name] # Nobody \/ name \in unwritten

\* How many gets of a command have ended.
Ended(c) == IF stage[c] \in {"ready", "done"} THEN got[c] ELSE got[c] - 1

\* A command has a get to begin or to end until it is done.
ProgressInv(c) ==
  /\ stage[c] = "ready" => got[c] < Len(Wanted[c]) \/ Len(Wanted[c]) = 0
  /\ stage[c] \in {"loading", "written", "present"} => got[c] >= 1
  /\ stage[c] \in {"written", "present"} => There(Current(c))

\* A batch collects at most one name for each get that has ended, and answers only when
\* it has collected all.  If no get has failed, its names are the first it wanted.
BatchInv(c) ==
  /\ Len(saveFilePaths[c]) <= Ended(c)
  /\ \A n \in 1 .. Len(saveFilePaths[c]) : There(saveFilePaths[c][n])
  /\ Len(saveFilePaths[c]) = Ended(c) =>
       \A n \in 1 .. Len(saveFilePaths[c]) : saveFilePaths[c][n] = Wanted[c][n]
  /\ answers[c] # <<>> => Len(saveFilePaths[c]) = Len(Wanted[c]) /\ Len(Wanted[c]) > 0

\* What a command has answered.
AnswerInv(c) ==
  /\ Len(answers[c]) <= 1
  /\ c \notin Batches /\ answers[c] # <<>> => stage[c] = "done"
  /\ answers[c] # <<>> =>
       /\ c \in Batches => answers[c][1] = ToSet(Wanted[c])
       /\ \A name \in answers[c][1] \ {"error"} : There(name)

CommandInv(c) ==
  /\ ProgressInv(c)
  /\ c \in Batches => BatchInv(c)
  /\ AnswerInv(c)

IInv ==
  /\ TypeOK
  /\ got \in [Commands -> Nat]
  /\ \A c \in Commands : CommandInv(c)

-----------------------------------------------------------------------------
LEMMA WantedType ==
  ASSUME NEW c \in Commands
  PROVE  /\ Wanted[c] \in Seq(Names)
         /\ Len(Wanted[c]) \in Nat
         /\ DOMAIN Wanted[c] = 1 .. Len(Wanted[c])
         /\ \A n \in 1 .. Len(Wanted[c]) : Wanted[c][n] \in Names
         /\ c \notin Batches => Len(Wanted[c]) = 1
<1>1. Wanted[c] \in Seq(Names)
  BY ConstantsAssumption
<1>2. QED
  BY <1>1, ConstantsAssumption, LenProperties, ElementOfSeq

\* What the types say of one command.
LEMMA TypesOf ==
  ASSUME IInv, NEW c \in Commands
  PROVE  /\ got[c] \in 0 .. Len(Wanted[c]) /\ got[c] \in Nat
         /\ stage[c] \in Stages
         /\ saveFilePaths[c] \in Seq(Names) /\ Len(saveFilePaths[c]) \in Nat
         /\ answers[c] \in Seq(SUBSET (Names \cup {"error"})) /\ Len(answers[c]) \in Nat
         /\ answers[c] = <<>> <=> Len(answers[c]) = 0
         /\ answers[c] # <<>> => answers[c][1] \subseteq Names \cup {"error"}
<1>1. /\ got[c] \in 0 .. Len(Wanted[c]) /\ got[c] \in Nat
      /\ stage[c] \in Stages
      /\ saveFilePaths[c] \in Seq(Names)
      /\ answers[c] \in Seq(SUBSET (Names \cup {"error"}))
  BY DEF IInv, TypeOK
<1>2. QED
  BY <1>1, LenProperties, EmptySeq, ElementOfSeq

\* A command at which nothing happens, while the files of others come to be there.
LEMMA Undisturbed ==
  ASSUME IInv, NEW c \in Commands,
         got'[c] = got[c], stage'[c] = stage[c],
         saveFilePaths'[c] = saveFilePaths[c], answers'[c] = answers[c],
         \A name \in Names : There(name) => There(name)'
  PROVE  CommandInv(c)'
<1>1. CommandInv(c)
  BY DEF IInv
<1>2. ProgressInv(c)'
  <2>1. Current(c)' = Current(c)
    BY DEF Current
  <2>2. stage[c] \in {"written", "present"} => Current(c) \in Names
    BY <1>1, WantedType, TypesOf DEF CommandInv, ProgressInv, Current
  <2>3. QED
    BY <1>1, <2>1, <2>2 DEF CommandInv, ProgressInv
<1>3. c \in Batches => BatchInv(c)'
  <2>1. \A n \in 1 .. Len(saveFilePaths[c]) : saveFilePaths[c][n] \in Names
    BY TypesOf, ElementOfSeq
  <2>2. QED
    BY <1>1, <2>1 DEF CommandInv, BatchInv, Ended
<1>4. AnswerInv(c)'
  <2>1. answers[c] # <<>> => \A name \in answers[c][1] \ {"error"} : name \in Names
    BY TypesOf
  <2>2. QED
    BY <1>1, <2>1 DEF CommandInv, AnswerInv
<1>5. QED
  BY <1>2, <1>3, <1>4 DEF CommandInv

\* The run loop of a get is left, which leaves a single command done.
LEMMA GetEnds ==
  ASSUME IInv, NEW c \in Commands, stage[c] \in {"loading", "written", "present"}, EndGet(c)
  PROVE  /\ stage' \in [Commands -> Stages]
         /\ \A d \in Commands \ {c} : stage'[d] = stage[d]
         /\ stage'[c] \in {"ready", "done"}
         /\ stage'[c] = "ready" => got[c] < Len(Wanted[c])
         /\ c \notin Batches => stage'[c] = "done"
         /\ Ended(c) = got[c] - 1
         /\ c \in Batches => Len(saveFilePaths[c]) <= got[c] - 1
         /\ answers[c] = <<>>
<1>1. CommandInv(c) /\ stage \in [Commands -> Stages] /\ got[c] \in 1 .. Len(Wanted[c])
  BY TypesOf, WantedType DEF IInv, TypeOK, CommandInv, ProgressInv
<1>2. /\ stage' \in [Commands -> Stages]
      /\ \A d \in Commands \ {c} : stage'[d] = stage[d]
      /\ stage'[c] = IF got[c] < Len(Wanted[c]) THEN "ready" ELSE "done"
  BY <1>1 DEF EndGet, Stages
<1>3. Ended(c) = got[c] - 1
  BY DEF Ended
<1>4. c \notin Batches => stage'[c] = "done" /\ answers[c] = <<>>
  BY <1>1, <1>2, WantedType DEF CommandInv, AnswerInv
<1>5. c \in Batches => Len(saveFilePaths[c]) <= got[c] - 1 /\ answers[c] = <<>>
  BY <1>1, <1>3, WantedType, TypesOf DEF CommandInv, BatchInv
<1>6. QED
  BY <1>2, <1>3, <1>4, <1>5

LEMMA Answered ==
  ASSUME IInv, NEW c \in Commands, NEW what \in SUBSET (Names \cup {"error"}),
         answers[c] = <<>>, Answer(c, what)
  PROVE  /\ answers' \in [Commands -> Seq(SUBSET (Names \cup {"error"}))]
         /\ \A d \in Commands \ {c} : answers'[d] = answers[d]
         /\ \/ answers'[c] = <<>>
            \/ Len(answers'[c]) = 1 /\ answers'[c][1] = what
         /\ crashed' \in BOOLEAN
<1>0. crashed \in BOOLEAN
  BY DEF IInv, TypeOK
<1>1. answers \in [Commands -> Seq(SUBSET (Names \cup {"error"}))]
  BY DEF IInv, TypeOK
<1>2. \/ answers' = answers /\ crashed' = TRUE
      \/ answers' = [answers EXCEPT ![c] = Append(answers[c], what)] /\ crashed' = crashed
  BY DEF Answer, Crash
<1>3. /\ Append(answers[c], what) \in Seq(SUBSET (Names \cup {"error"}))
      /\ Len(Append(answers[c], what)) = Len(answers[c]) + 1
      /\ Append(answers[c], what)[Len(answers[c]) + 1] = what
      /\ Append(answers[c], what) # <<>>
  BY <1>1, AppendProperties
<1>4. Len(answers[c]) = 0
  OBVIOUS
<1>5. CASE answers' = answers /\ crashed' = TRUE
  BY <1>1, <1>5
<1>6. CASE answers' = [answers EXCEPT ![c] = Append(answers[c], what)] /\ crashed' = crashed
  BY <1>0, <1>1, <1>3, <1>4, <1>6
<1>7. QED
  BY <1>2, <1>5, <1>6

-----------------------------------------------------------------------------
(***************************************************************************)
(* The steps.                                                              *)
(***************************************************************************)
LEMMA InitIInv == Init => IInv
<1> SUFFICES ASSUME Init
             PROVE  IInv
  OBVIOUS
<1>1. TypeOK /\ got \in [Commands -> Nat]
  <2>1. \A c \in Commands : got[c] \in 0 .. Len(Wanted[c])
    BY WantedType DEF Init
  <2>2. /\ saveFilePaths \in [Commands -> Seq(Names)]
        /\ answers \in [Commands -> Seq(SUBSET (Names \cup {"error"}))]
    BY EmptySeq DEF Init
  <2>3. writer \in [Names -> Commands \cup {Nobody}] /\ stage \in [Commands -> Stages]
    BY DEF Init, Stages
  <2>4. QED
    BY <2>1, <2>2, <2>3 DEF Init, TypeOK
<1>2. ASSUME NEW c \in Commands
      PROVE  CommandInv(c)
  <2>1. /\ got[c] = 0 /\ stage[c] = "ready" /\ answers[c] = <<>> /\ saveFilePaths[c] = <<>>
        /\ Len(Wanted[c]) \in Nat
    BY WantedType DEF Init
  <2>2. QED
    BY <2>1 DEF CommandInv, ProgressInv, BatchInv, AnswerInv, Ended
<1>3. QED
  BY <1>1, <1>2 DEF IInv

LEMMA StartStep ==
  ASSUME IInv, NEW c \in Commands, Start(c)
  PROVE  IInv'
<1>1. CommandInv(c) /\ stage[c] = "ready" /\ stage \in [Commands -> Stages] /\ TypeOK
  BY DEF IInv, TypeOK, Start, BeginNothing, StartGet, NoConnection, HasNext
<1>2. UNCHANGED <<writer, saveFilePaths, crashed, answers, unwritten>>
  BY DEF Start, BeginNothing, StartGet, NoConnection
<1>3. \A name \in Names : There(name) => There(name)'
  BY <1>2 DEF There
<1>4. CASE BeginNothing(c)
  <2>1. got' = got /\ (c \in Mismatched \/ Wanted[c] = <<>>) /\ stage' = [stage EXCEPT ![c] = "done"] /\ dropped' \subseteq Commands
    BY <1>1, <1>4 DEF BeginNothing, TypeOK
  <2>2. TypeOK' /\ got' \in [Commands -> Nat]
    BY <1>1, <1>2, <2>1 DEF IInv, TypeOK, Stages
  <2>3. \A d \in Commands \ {c} : CommandInv(d)'
    BY <1>1, <1>2, <1>3, <2>1, Undisturbed
  <2>4. CommandInv(c)'
    <3>1. c \in Batches
      <4>1. CASE c \in Mismatched
        BY <4>1, ConstantsAssumption
      <4>2. CASE Wanted[c] = <<>>
        <5>1. Len(Wanted[c]) = 0
          BY <4>2
        <5>2. QED
          BY <5>1, WantedType
      <4>3. QED
        BY <2>1, <4>1, <4>2
    <3>2. stage'[c] = "done"
      BY <1>1, <2>1
    <3>3. QED
      BY <1>1, <1>2, <2>1, <3>1, <3>2, TypesOf
         DEF CommandInv, ProgressInv, BatchInv, AnswerInv, Ended, There
  <2>5. QED
    BY <2>2, <2>3, <2>4 DEF IInv
<1>5. CASE StartGet(c) \/ NoConnection(c)
  <2>1. /\ got[c] < Len(Wanted[c]) /\ got' = [got EXCEPT ![c] = @ + 1]
        /\ dropped' \subseteq Commands
    BY <1>1, <1>5 DEF StartGet, NoConnection, HasNext, TypeOK
  <2>2. /\ got' \in [Commands -> Nat] /\ got'[c] = got[c] + 1
        /\ \A d \in Commands \ {c} : got'[d] = got[d]
    BY <2>1 DEF IInv
  <2>3. /\ stage' \in [Commands -> Stages]
        /\ \A d \in Commands \ {c} : stage'[d] = stage[d]
        /\ \/ stage'[c] \in {"loading", "present"}
           \/ stage'[c] = IF got'[c] < Len(Wanted[c]) THEN "ready" ELSE "done"
        /\ stage'[c] = "present" => There(Current(c)')
    BY <1>1, <1>5 DEF StartGet, NoConnection, Stages, There
  <2>4. TypeOK'
    <3>1. \A d \in Commands : got'[d] \in 0 .. Len(Wanted[d])
      BY <1>1, <2>1, <2>2, TypesOf, WantedType
    <3>2. QED
      BY <1>1, <1>2, <2>1, <2>3, <3>1 DEF TypeOK
  <2>5. \A d \in Commands \ {c} : CommandInv(d)'
    BY <1>2, <1>3, <2>2, <2>3, Undisturbed
  <2>6. CommandInv(c)'
    <3>1. ProgressInv(c)'
      BY <1>2, <2>1, <2>2, <2>3, TypesOf DEF ProgressInv, There
    <3>2. ASSUME c \in Batches
          PROVE  BatchInv(c)'
      <4>1. BatchInv(c) /\ Ended(c) = got[c]
        BY <1>1, <3>2 DEF CommandInv, Ended
      <4>2. Ended(c)' \in {got[c], got[c] + 1}
        BY <2>2, <2>3, TypesOf DEF Ended
      <4>3. Len(saveFilePaths[c]) <= Ended(c)'
        BY <4>1, <4>2, TypesOf DEF BatchInv
      <4>4. Len(saveFilePaths[c]) = Ended(c)' => Len(saveFilePaths[c]) = Ended(c)
        BY <4>1, <4>2, TypesOf DEF BatchInv
      <4>5. QED
        BY <1>2, <4>1, <4>3, <4>4 DEF BatchInv, There
    <3>3. answers[c] = <<>>
      BY <1>1, <2>1, WantedType, TypesOf DEF CommandInv, AnswerInv, BatchInv, Ended
    <3>4. AnswerInv(c)'
      BY <1>2, <3>3 DEF AnswerInv
    <3>5. QED
      BY <3>1, <3>2, <3>4 DEF CommandInv
  <2>7. QED
    BY <2>2, <2>4, <2>5, <2>6 DEF IInv
<1>6. QED
  BY <1>4, <1>5 DEF Start

LEMMA FailureStep ==
  ASSUME IInv, NEW c \in Commands, HTTPError(c) \/ ConnectionFails(c)
  PROVE  IInv'
<1>1. /\ stage[c] = "loading" /\ EndGet(c) /\ TypeOK
      /\ UNCHANGED <<got, writer, saveFilePaths, dropped, unwritten>>
      /\ Crash \/ (c \notin Batches /\ Answer(c, {"error"}))
  BY DEF IInv, HTTPError, ConnectionFails, SendError
<1>2. /\ stage' \in [Commands -> Stages]
      /\ \A d \in Commands \ {c} : stage'[d] = stage[d]
      /\ stage'[c] \in {"ready", "done"}
      /\ stage'[c] = "ready" => got[c] < Len(Wanted[c])
      /\ c \notin Batches => stage'[c] = "done"
      /\ Ended(c) = got[c] - 1
      /\ c \in Batches => Len(saveFilePaths[c]) <= got[c] - 1
      /\ answers[c] = <<>>
  BY <1>1, GetEnds
<1>3. /\ answers' \in [Commands -> Seq(SUBSET (Names \cup {"error"}))]
      /\ \A d \in Commands \ {c} : answers'[d] = answers[d]
      /\ \/ answers'[c] = <<>>
         \/ c \notin Batches /\ Len(answers'[c]) = 1 /\ answers'[c][1] = {"error"}
      /\ crashed' \in BOOLEAN
  <2>1. CASE Crash
    BY <1>1, <1>2, <2>1 DEF TypeOK, Crash
  <2>2. CASE c \notin Batches /\ Answer(c, {"error"})
    BY <1>2, <2>2, Answered
  <2>3. QED
    BY <1>1, <2>1, <2>2
<1>4. TypeOK' /\ got' \in [Commands -> Nat]
  BY <1>1, <1>2, <1>3 DEF IInv, TypeOK
<1>5. \A d \in Commands \ {c} : CommandInv(d)'
  BY <1>1, <1>2, <1>3, Undisturbed DEF There
<1>6. CommandInv(c)'
  <2>1. CommandInv(c)
    BY DEF IInv
  <2>2. ProgressInv(c)'
    BY <1>1, <1>2 DEF ProgressInv
  <2>3. ASSUME c \in Batches
        PROVE  BatchInv(c)'
    <3>1. answers'[c] = <<>> /\ BatchInv(c) /\ Ended(c)' = got[c]
      BY <1>1, <1>2, <1>3, <2>1, <2>3 DEF CommandInv, Ended
    <3>2. Len(saveFilePaths[c]) < Ended(c)'
      BY <1>2, <2>3, <3>1, TypesOf
    <3>3. Len(saveFilePaths[c]) <= Ended(c)' /\ Len(saveFilePaths[c]) # Ended(c)'
      BY <1>2, <2>3, <3>1, TypesOf
    <3>4. QED
      BY <1>1, <3>1, <3>3 DEF BatchInv, There
  <2>4. AnswerInv(c)'
    <3>1. CASE answers'[c] = <<>>
      BY <3>1 DEF AnswerInv
    <3>2. CASE c \notin Batches /\ Len(answers'[c]) = 1 /\ answers'[c][1] = {"error"}
      <4>1. answers'[c][1] \ {"error"} = {}
        BY <3>2
      <4>2. QED
        BY <1>2, <3>2, <4>1 DEF AnswerInv
    <3>3. QED
      BY <1>3, <3>1, <3>2
  <2>5. QED
    BY <2>2, <2>3, <2>4 DEF CommandInv
<1>7. QED
  BY <1>4, <1>5, <1>6 DEF IInv

LEMMA FinishStep ==
  ASSUME IInv, NEW c \in Commands, FinishLoading(c)
  PROVE  IInv'
<1>1. /\ stage[c] = "loading" /\ stage' = [stage EXCEPT ![c] = "written"]
      /\ TypeOK /\ CommandInv(c)
      /\ UNCHANGED <<got, saveFilePaths, crashed, answers, dropped>>
  BY DEF IInv, FinishLoading
<1>2. got[c] \in 1 .. Len(Wanted[c]) /\ Current(c) \in Names
  BY <1>1, TypesOf, WantedType DEF CommandInv, ProgressInv, Current
<1>3. /\ writer' \in [Names -> Commands \cup {Nobody}] /\ unwritten' \subseteq Names
      /\ \A name \in Names : There(name) => There(name)'
      /\ There(Current(c))'
  <2>1. CASE writer' = [writer EXCEPT ![Current(c)] = c] /\ UNCHANGED unwritten
    BY <1>1, <1>2, <2>1, ConstantsAssumption DEF TypeOK, There, Current
  <2>2. CASE unwritten' = unwritten \cup {Current(c)} /\ UNCHANGED writer
    BY <1>1, <1>2, <2>2 DEF TypeOK, There, Current
  <2>3. QED
    BY <2>1, <2>2 DEF FinishLoading
<1>4. stage' \in [Commands -> Stages] /\ stage'[c] = "written"
  BY <1>1 DEF TypeOK, Stages
<1>5. TypeOK' /\ got' \in [Commands -> Nat]
  BY <1>1, <1>3, <1>4 DEF IInv, TypeOK
<1>6. \A d \in Commands \ {c} : CommandInv(d)'
  BY <1>1, <1>3, Undisturbed DEF TypeOK
<1>7. CommandInv(c)'
  <2>1. ProgressInv(c)'
    BY <1>1, <1>2, <1>3, <1>4 DEF ProgressInv
  <2>2. ASSUME c \in Batches
        PROVE  BatchInv(c)'
    <3>1. Ended(c)' = Ended(c) /\ BatchInv(c)
      BY <1>1, <1>4, <2>2 DEF Ended, CommandInv
    <3>2. \A n \in 1 .. Len(saveFilePaths[c]) : saveFilePaths[c][n] \in Names
      BY TypesOf, ElementOfSeq
    <3>3. QED
      BY <1>1, <1>3, <3>1, <3>2 DEF BatchInv
  <2>3. AnswerInv(c)'
    <3>1. answers[c] = <<>>
      BY <1>1, <1>2, TypesOf, WantedType DEF CommandInv, AnswerInv, BatchInv, Ended
    <3>2. QED
      BY <1>1, <3>1 DEF AnswerInv
  <2>4. QED
    BY <2>1, <2>2, <2>3 DEF CommandInv
<1>8. QED
  BY <1>5, <1>6, <1>7 DEF IInv

\* A batch that collects a name.
LEMMA Collects ==
  ASSUME IInv, NEW c \in Batches, stage[c] \in {"written", "present"}, EndGet(c), Collect(c),
         UNCHANGED <<got, writer, unwritten>>
  PROVE  /\ saveFilePaths' \in [Commands -> Seq(Names)]
         /\ \A d \in Commands \ {c} : saveFilePaths'[d] = saveFilePaths[d]
         /\ answers' \in [Commands -> Seq(SUBSET (Names \cup {"error"}))]
         /\ \A d \in Commands \ {c} : answers'[d] = answers[d]
         /\ crashed' \in BOOLEAN
         /\ BatchInv(c)'
         /\ AnswerInv(c)'
<1>0. c \in Commands
  BY ConstantsAssumption
<1> DEFINE old == saveFilePaths[c]
           new == Append(old, Current(c))
<1>1. CommandInv(c) /\ TypeOK /\ got[c] \in 1 .. Len(Wanted[c]) /\ Current(c) \in Names
  BY <1>0, TypesOf, WantedType DEF IInv, CommandInv, ProgressInv, Current
<1>2. /\ stage'[c] \in {"ready", "done"}
      /\ Len(old) <= got[c] - 1 /\ Ended(c) = got[c] - 1 /\ answers[c] = <<>>
  BY <1>0, GetEnds
<1>3. Ended(c)' = got[c]
  BY <1>2 DEF Ended
<1>4. /\ new \in Seq(Names) /\ Len(new) = Len(old) + 1 /\ Len(old) \in Nat
      /\ \A n \in 1 .. Len(old) : new[n] = old[n]
      /\ new[Len(old) + 1] = Current(c)
  BY <1>0, <1>1, AppendProperties, TypesOf
<1>5. /\ saveFilePaths' \in [Commands -> Seq(Names)] /\ saveFilePaths'[c] = new
      /\ \A d \in Commands \ {c} : saveFilePaths'[d] = saveFilePaths[d]
  BY <1>0, <1>1, <1>4 DEF Collect, TypeOK
<1>6. \A n \in 1 .. Len(new) : There(new[n])
  <2> TAKE n \in 1 .. Len(new)
  <2>1. CASE n \in 1 .. Len(old)
    BY <1>1, <1>4, <2>1 DEF CommandInv, BatchInv
  <2>2. CASE n = Len(old) + 1
    BY <1>1, <1>4, <2>2 DEF CommandInv, ProgressInv
  <2>3. QED
    BY <1>4, <2>1, <2>2
<1>7. Len(new) = got[c] => \A n \in 1 .. Len(new) : new[n] = Wanted[c][n]
  <2> SUFFICES ASSUME Len(new) = got[c], NEW n \in 1 .. Len(new)
               PROVE  new[n] = Wanted[c][n]
    OBVIOUS
  <2>1. CASE n \in 1 .. Len(old)
    BY <1>1, <1>2, <1>4, <2>1 DEF CommandInv, BatchInv
  <2>2. CASE n = Len(old) + 1
    BY <1>4, <2>2 DEF Current
  <2>3. QED
    BY <1>4, <2>1, <2>2
<1>8. CASE Len(new) = Len(Wanted[c])
  <2>1. Len(new) = got[c]
    BY <1>1, <1>2, <1>4, <1>8
  <2>2. new = Wanted[c]
    BY <1>0, <1>4, <1>7, <1>8, <2>1, WantedType, SeqEqual
  <2>3. ToSet(new) = {new[n] : n \in 1 .. Len(new)}
    BY <1>4, LenProperties DEF ToSet
  <2>4. ToSet(new) \in SUBSET (Names \cup {"error"}) /\ \A name \in ToSet(new) : There(name)
    BY <1>4, <1>6, <2>3, ElementOfSeq
  <2>5. Answer(c, ToSet(new))
    BY <1>5, <1>8 DEF Collect
  <2>6. /\ answers' \in [Commands -> Seq(SUBSET (Names \cup {"error"}))]
        /\ \A d \in Commands \ {c} : answers'[d] = answers[d]
        /\ answers'[c] = <<>> \/ (Len(answers'[c]) = 1 /\ answers'[c][1] = ToSet(new))
        /\ crashed' \in BOOLEAN
    BY <1>0, <1>2, <2>4, <2>5, Answered
  <2>7. BatchInv(c)'
    BY <1>3, <1>4, <1>5, <1>6, <1>7, <1>8, <2>1 DEF BatchInv, There
  <2>8. AnswerInv(c)'
    <3>1. CASE answers'[c] = <<>>
      BY <3>1 DEF AnswerInv
    <3>2. CASE Len(answers'[c]) = 1 /\ answers'[c][1] = ToSet(new)
      BY <2>2, <2>4, <3>2 DEF AnswerInv, There
    <3>3. QED
      BY <2>6, <3>1, <3>2
  <2>9. QED
    BY <1>5, <2>6, <2>7, <2>8
<1>9. CASE Len(new) # Len(Wanted[c])
  <2>1. answers' = answers /\ crashed' = crashed
    BY <1>5, <1>9 DEF Collect
  <2>2. BatchInv(c)'
    BY <1>1, <1>2, <1>3, <1>4, <1>5, <1>6, <1>7, <2>1 DEF BatchInv, There
  <2>3. AnswerInv(c)'
    BY <1>2, <2>1 DEF AnswerInv
  <2>4. QED
    BY <1>1, <1>5, <2>1, <2>2, <2>3 DEF TypeOK
<1>10. QED
  BY <1>8, <1>9

LEMMA NotifyStep ==
  ASSUME IInv, NEW c \in Commands, Notify(c)
  PROVE  IInv'
<1>1. /\ stage[c] \in {"written", "present"} /\ EndGet(c) /\ TypeOK /\ CommandInv(c)
      /\ UNCHANGED <<got, writer, dropped, unwritten>>
  BY DEF IInv, Notify
<1>2. /\ stage' \in [Commands -> Stages]
      /\ \A d \in Commands \ {c} : stage'[d] = stage[d]
      /\ stage'[c] \in {"ready", "done"}
      /\ stage'[c] = "ready" => got[c] < Len(Wanted[c])
      /\ c \notin Batches => stage'[c] = "done"
      /\ answers[c] = <<>>
  BY <1>1, GetEnds
<1>3. /\ saveFilePaths' \in [Commands -> Seq(Names)]
      /\ \A d \in Commands \ {c} : saveFilePaths'[d] = saveFilePaths[d]
      /\ answers' \in [Commands -> Seq(SUBSET (Names \cup {"error"}))]
      /\ \A d \in Commands \ {c} : answers'[d] = answers[d]
      /\ crashed' \in BOOLEAN
      /\ c \in Batches => BatchInv(c)'
      /\ AnswerInv(c)'
  <2>1. CASE c \in Batches
    BY <1>1, <2>1, Collects DEF Notify
  <2>2. CASE c \notin Batches
    <3>1. Current(c) \in Names /\ There(Current(c))
      BY <1>1, TypesOf, WantedType DEF CommandInv, ProgressInv, Current
    <3>2. UNCHANGED saveFilePaths /\ Answer(c, {Current(c)})
      BY <2>2 DEF Notify
    <3>3. /\ answers' \in [Commands -> Seq(SUBSET (Names \cup {"error"}))]
          /\ \A d \in Commands \ {c} : answers'[d] = answers[d]
          /\ answers'[c] = <<>> \/ (Len(answers'[c]) = 1 /\ answers'[c][1] = {Current(c)})
          /\ crashed' \in BOOLEAN
      BY <1>2, <3>1, <3>2, Answered
    <3>4. AnswerInv(c)'
      <4>1. CASE answers'[c] = <<>>
        BY <4>1 DEF AnswerInv
      <4>2. CASE Len(answers'[c]) = 1 /\ answers'[c][1] = {Current(c)}
        BY <1>1, <1>2, <2>2, <3>1, <4>2 DEF AnswerInv, There
      <4>3. QED
        BY <3>3, <4>1, <4>2
    <3>5. QED
      BY <1>1, <2>2, <3>2, <3>3, <3>4 DEF TypeOK
  <2>3. QED
    BY <2>1, <2>2
<1>4. TypeOK' /\ got' \in [Commands -> Nat]
  BY <1>1, <1>2, <1>3 DEF IInv, TypeOK
<1>5. \A d \in Commands \ {c} : CommandInv(d)'
  BY <1>1, <1>2, <1>3, Undisturbed DEF There
<1>6. ProgressInv(c)'
  BY <1>1, <1>2 DEF ProgressInv
<1>7. QED
  BY <1>3, <1>4, <1>5, <1>6 DEF IInv, CommandInv

LEMMA NextStep == IInv /\ [Next]_vars => IInv'
<1> SUFFICES ASSUME IInv, [Next]_vars
             PROVE  IInv'
  OBVIOUS
<1>1. CASE \E c \in Commands : Start(c)
  BY <1>1, StartStep
<1>2. CASE \E c \in Commands : HTTPError(c) \/ ConnectionFails(c)
  BY <1>2, FailureStep
<1>3. CASE \E c \in Commands : FinishLoading(c)
  BY <1>3, FinishStep
<1>4. CASE \E c \in Commands : Notify(c)
  BY <1>4, NotifyStep
<1>5. CASE UNCHANGED vars
  BY <1>5 DEF vars, IInv, TypeOK, CommandInv, ProgressInv, BatchInv, AnswerInv, Ended, There,
              Current
<1>6. QED
  BY <1>1, <1>2, <1>3, <1>4, <1>5 DEF Next, Delegate

-----------------------------------------------------------------------------
(***************************************************************************)
(* The theorems.                                                           *)
(***************************************************************************)

\* The names a batch has collected agree with its gets that have ended, in every
\* behaviour of QCHTTPHandler and BatchQCHTTPHandler.
THEOREM InductiveInvariant == Spec => []IInv
<1>1. QED
  BY InitIInv, NextStep, PTL DEF Spec

\* The variables keep their types.
THEOREM TypeCorrect == Spec => []TypeOK
<1>1. IInv => TypeOK
  BY DEF IInv
<1>2. QED
  BY <1>1, InductiveInvariant, PTL

\* However its gets end, a command answers the page at most once.
THEOREM AnswersOnce == Spec => []OneAnswer
<1>1. IInv => OneAnswer
  BY DEF IInv, OneAnswer, CommandInv, AnswerInv
<1>2. QED
  BY <1>1, InductiveInvariant, PTL

\* A batch that answers has got every file, and what an answer names is in the directory
\* or could not be written there.
THEOREM CompleteAnswers == Spec => []AnswersAreComplete
<1>1. IInv => AnswersAreComplete
  BY DEF IInv, AnswersAreComplete, CommandInv, AnswerInv, There
<1>2. QED
  BY <1>1, InductiveInvariant, PTL
=============================================================================
