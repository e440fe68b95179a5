------------------------ MODULE CommandLineLoopProofs ------------------------
(* What TLAPS proves of CommandLineLoop, for an input of any length: the type *)
(* invariant, that no command is lost, and that a batch is complete.          *)
EXTENDS CommandLineLoop, SequenceLemmas, TLAPS

LEMMA Bounded ==
    \A s : s \in BoundedSeq(Lines, MaxLines) <=> s \in Seq(Lines) /\ Len(s) <= MaxLines
<1>1. ASSUME NEW s \in BoundedSeq(Lines, MaxLines) PROVE s \in Seq(Lines) /\ Len(s) <= MaxLines
  BY MaxLinesAssumption DEF BoundedSeq, SeqOf
<1>2. ASSUME NEW s \in Seq(Lines), Len(s) <= MaxLines PROVE s \in BoundedSeq(Lines, MaxLines)
  <2>1. s \in [1..Len(s) -> Lines] /\ Len(s) \in 0..MaxLines  BY <1>2, MaxLinesAssumption
  <2> QED  BY <2>1 DEF BoundedSeq, SeqOf
<1> QED  BY <1>1, <1>2

LEMMA CommandsBounds ==
    ASSUME NEW s \in Seq(Lines)
    PROVE  CommandsOf(s) \in Nat /\ CommandsOf(s) \in 0..Len(s)
BY CountBounds, Zenon DEF CommandsOf

LEMMA CommandsOfTail ==
    ASSUME NEW s \in Seq(Lines), s # <<>>
    PROVE  CommandsOf(s) = CommandsOf(Tail(s)) + (IF IsCommand(Head(s)) THEN 1 ELSE 0)
BY CountOfTail, Zenon DEF CommandsOf, IsCommand

-----------------------------------------------------------------------------
(* The inductive invariant                                                    *)

\* The input thread holds a command while it executes it.
LineOK == /\ line = "none" <=> reader \notin {"locking", "writing"}
          /\ line # "none" => IsCommand(line)

\* The output is locked by the thread that writes to it.
MutexOK == Running => /\ mutex = "reader" <=> reader = "writing"
                      /\ mutex = "main" <=> main = "writing"
                      /\ mutex = "logger" <=> logger = "writing"

\* Main stops polling because the input ended, or because of a signal; the end of
\* the input is seen when nothing is left of it.
EndOK == /\ shutdownRequested /\ ~signalled => reader = "ended"
         /\ reader = "ended" => input = <<>>
         /\ main \in {"locking", "writing", "returning", "returned"} => shutdownRequested

\* As long as the end of the input is all that main knows of, no answer comes behind the
\* shutdown message: the input thread, the only one that writes answers, has ended.
ByeOK == /\ main \in {"polling", "locking", "writing"} => sinceBye = {}
         /\ main \in {"returning", "returned"} /\ ~signalled =>
                "bye" \in sinceBye /\ sinceBye \subseteq {"bye", "log"}

IInv == TypeOK /\ NoCommandLost /\ LineOK /\ MutexOK /\ EndOK /\ ByeOK

USE DEF Lines, IsCommand, Running, Write

LEMMA InitOK == Init => IInv
<1> SUFFICES ASSUME Init PROVE IInv  OBVIOUS
<1>1. input \in Seq(Lines) /\ Len(input) <= MaxLines  BY Bounded DEF Init
<1>2. CommandsOf(input) \in 0..MaxLines
  <2>1. CommandsOf(input) \in 0..Len(input)  BY <1>1, CommandsBounds
  <2> QED  BY <1>1, <2>1, MaxLinesAssumption
<1>3. TypeOK
  <2>1. executed \in 0..MaxLines /\ commands \in 0..MaxLines  BY <1>2, MaxLinesAssumption DEF Init
  <2> QED  BY <2>1 DEF Init, TypeOK
<1>4. NoCommandLost  BY <1>2, MaxLinesAssumption DEF Init, NoCommandLost
<1> QED  BY <1>3, <1>4 DEF Init, IInv, LineOK, MutexOK, EndOK, ByeOK

\* The steps that touch neither the input nor a line.
LEMMA OtherSteps ==
    ASSUME IInv, \/ Welcome \/ LockForAnswer \/ Quit \/ HandlerThrows \/ InputEnds
                 \/ LockForLog \/ WriteLog \/ Signal \/ MainStep
    PROVE  IInv'
<1>1. UNCHANGED <<input, line, executed, commands>>
  BY DEF Welcome, LockForAnswer, Quit, HandlerThrows, InputEnds, LockForLog, WriteLog, Signal,
         MainStep, NoticeShutdown, LockForBye, WriteBye, MainReturns, readerVars
<1>2. NoCommandLost'  BY <1>1 DEF IInv, NoCommandLost
<1>3. CASE Welcome
  BY <1>2, <1>3 DEF Welcome, IInv, TypeOK, LineOK, MutexOK, EndOK, ByeOK
<1>4. CASE LockForAnswer
  BY <1>2, <1>4 DEF LockForAnswer, IInv, TypeOK, LineOK, MutexOK, EndOK, ByeOK
<1>5. CASE InputEnds
  BY <1>2, <1>5 DEF InputEnds, IInv, TypeOK, LineOK, MutexOK, EndOK, ByeOK
<1>6. CASE Signal
  BY <1>2, <1>6 DEF Signal, readerVars, IInv, TypeOK, LineOK, MutexOK, EndOK, ByeOK
<1>7. CASE NoticeShutdown
  BY <1>2, <1>7 DEF NoticeShutdown, readerVars, IInv, TypeOK, LineOK, MutexOK, EndOK, ByeOK
<1>8. CASE LockForBye
  BY <1>2, <1>8 DEF LockForBye, readerVars, IInv, TypeOK, LineOK, MutexOK, EndOK, ByeOK
<1>9. CASE WriteBye
  BY <1>2, <1>9 DEF WriteBye, readerVars, IInv, TypeOK, LineOK, MutexOK, EndOK, ByeOK
<1>10. CASE MainReturns
  BY <1>2, <1>10 DEF MainReturns, readerVars, IInv, TypeOK, LineOK, MutexOK, EndOK, ByeOK
<1>11. CASE Quit
  BY <1>2, <1>11 DEF Quit, readerVars, IInv, TypeOK, LineOK, MutexOK, EndOK, ByeOK
<1>12. CASE HandlerThrows
  BY <1>2, <1>12 DEF HandlerThrows, readerVars, IInv, TypeOK, LineOK, MutexOK, EndOK, ByeOK
<1>13. CASE LockForLog
  BY <1>2, <1>13 DEF LockForLog, readerVars, IInv, TypeOK, LineOK, MutexOK, EndOK, ByeOK
<1>14. CASE WriteLog
  BY <1>2, <1>14 DEF WriteLog, readerVars, IInv, TypeOK, LineOK, MutexOK, EndOK, ByeOK
<1> QED  BY <1>3, <1>4, <1>5, <1>6, <1>7, <1>8, <1>9, <1>10, <1>11, <1>12, <1>13, <1>14
     DEF MainStep

LEMMA ReadLineOK == ASSUME IInv, ReadLine PROVE IInv'
<1>1. input \in Seq(Lines) /\ input # <<>> /\ Len(input) <= MaxLines
  BY Bounded DEF IInv, TypeOK, ReadLine
<1>2. Tail(input) \in BoundedSeq(Lines, MaxLines) /\ Head(input) \in Lines
  <2>1. Tail(input) \in Seq(Lines) /\ Len(Tail(input)) <= MaxLines  BY <1>1, MaxLinesAssumption
  <2>2. Tail(input) \in BoundedSeq(Lines, MaxLines)  BY <2>1, Bounded, Zenon
  <2> QED  BY <1>1, <2>2
<1>3. CommandsOf(input) = CommandsOf(Tail(input)) + (IF IsCommand(Head(input)) THEN 1 ELSE 0)
  BY <1>1, CommandsOfTail
<1>4. CommandsOf(Tail(input)) \in Nat /\ executed \in Nat
  <2>1. CommandsOf(Tail(input)) \in 0..Len(Tail(input))  BY <1>2, Bounded, CommandsBounds
  <2> QED  BY <2>1 DEF IInv, TypeOK
<1>5. TypeOK'  BY <1>2 DEF IInv, TypeOK, ReadLine
<1>6. NoCommandLost'
  <2>1. line = "none"  BY DEF IInv, LineOK, ReadLine
  <2>2. commands = executed + CommandsOf(Tail(input)) + (IF IsCommand(Head(input)) THEN 1 ELSE 0)
    BY <1>3, <1>4, <2>1 DEF IInv, NoCommandLost
  <2>3. CASE IsCommand(Head(input))
    BY <2>1, <2>2, <2>3 DEF ReadLine, NoCommandLost
  <2>4. CASE ~IsCommand(Head(input))
    BY <2>1, <2>2, <2>4 DEF ReadLine, NoCommandLost
  <2> QED  BY <2>3, <2>4
<1> QED  BY <1>5, <1>6 DEF IInv, ReadLine, LineOK, MutexOK, EndOK, ByeOK

LEMMA WriteAnswerOK == ASSUME IInv, WriteAnswer PROVE IInv'
<1>1. line # "none" /\ executed \in Nat /\ commands \in 0..MaxLines
  BY DEF IInv, TypeOK, LineOK, WriteAnswer
<1>2. CommandsOf(input) \in Nat
  <2>1. CommandsOf(input) \in 0..Len(input) /\ Len(input) \in Nat
    BY Bounded, CommandsBounds DEF IInv, TypeOK
  <2> QED  BY <2>1
<1>3. commands = (executed + 1) + CommandsOf(input) + 0
  BY <1>1, <1>2 DEF IInv, NoCommandLost
<1>4. executed + 1 \in 0..MaxLines
  BY <1>1, <1>2, <1>3, MaxLinesAssumption
<1>5. TypeOK'  BY <1>4 DEF IInv, TypeOK, WriteAnswer
<1>6. NoCommandLost'
  <2>1. line' = "none"  BY DEF WriteAnswer
  <2> QED  BY <1>3, <2>1 DEF WriteAnswer, NoCommandLost
<1> QED  BY <1>5, <1>6 DEF IInv, WriteAnswer, LineOK, MutexOK, EndOK, ByeOK

LEMMA StutterOK == ASSUME IInv, UNCHANGED vars PROVE IInv'
BY DEF vars, readerVars, IInv, TypeOK, NoCommandLost, LineOK, MutexOK, EndOK, ByeOK

-----------------------------------------------------------------------------
(* The theorems                                                               *)

LEMMA NextOK == IInv /\ [Next]_vars => IInv'
BY OtherSteps, ReadLineOK, WriteAnswerOK, StutterOK DEF Next, Reads, Executes

\* The inductive invariant holds in every state of every run.
THEOREM LoopInvariant == Spec => []IInv
BY InitOK, NextOK, PTL DEF Spec

\* The types: no more commands are executed than the input holds lines.
THEOREM LoopTypeCorrect == Spec => []TypeOK
<1>1. IInv => TypeOK  BY DEF IInv
<1> QED  BY <1>1, LoopInvariant, PTL

\* The input loop: each command of the input is left, being executed, or executed.
THEOREM CommandsAreKept == Spec => []NoCommandLost
<1>1. IInv => NoCommandLost  BY DEF IInv
<1> QED  BY <1>1, LoopInvariant, PTL

\* The batch execution: the process that ends with its input has executed and answered
\* all of it before the shutdown message, and only log messages come behind that.
THEOREM BatchesAreComplete == Spec => []BatchIsComplete
<1>1. IInv => BatchIsComplete
  <2> SUFFICES ASSUME IInv, main = "returned", ~signalled
               PROVE  /\ executed = commands
                      /\ "bye" \in sinceBye /\ sinceBye \subseteq {"bye", "log"}
    BY DEF BatchIsComplete
  <2>1. reader = "ended" /\ input = <<>> /\ line = "none"
         /\ "bye" \in sinceBye /\ sinceBye \subseteq {"bye", "log"}
    BY DEF IInv, EndOK, LineOK, ByeOK
  <2> QED  BY <2>1, CountOfEmpty DEF CommandsOf, IInv, NoCommandLost, TypeOK
<1> QED  BY <1>1, LoopInvariant, PTL
=============================================================================
