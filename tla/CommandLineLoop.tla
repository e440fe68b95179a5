--------------------------- MODULE CommandLineLoop ---------------------------
(* FEP Control on the console: interactiveLoopCLI of fep_control_tool.cpp and *)
(* the input loop of fep_control_commandline.cpp.  A thread reads lines, from *)
(* a terminal or a pipe, and executes them one after the other; the main      *)
(* thread polls the flag that the end of the input, or a signal, sets, writes *)
(* the shutdown message and returns, which ends the process whatever the      *)
(* input thread is doing.  A handler may throw what it does not catch, which   *)
(* ends the process too.  Once a system is monitored, threads of the fep3     *)
(* library write its log messages to the same console, until the process ends.*)
EXTENDS Counting, SequencesExt

CONSTANT MaxLines  \* bound: how many lines the input holds

ASSUME MaxLinesAssumption == MaxLines \in Nat

\* "monitor" is startMonitoringSystem, "command" any other line that is answered (also
\* stopMonitoringSystem, which need not end the monitoring), "blank" one without a word
\* or an answer, "interrupt" the empty line CTRL-C gives.
Lines == {"command", "monitor", "blank", "interrupt", "quit"}

VARIABLES
    piped,              \* the input is a pipe, which does not make the thread wait
    input,              \* the lines that are left; the input ends after them
    shutdownRequested,
    signalled,          \* a signal has set the flag
    reader,             \* where the input thread is
    line,               \* the line it is executing
    executed,           \* how many commands have been executed and answered
    commands,           \* how many the input held
    monitoring,         \* a system is monitored
    logger,             \* what the threads that deliver log messages do
    mutex,              \* _mutex_write_output
    main,               \* where the main thread is
    sinceBye            \* the shutdown message, and what was written behind it

readerVars == <<piped, input, reader, line, executed, commands, monitoring>>
vars == <<shutdownRequested, signalled, readerVars, logger, mutex, main, sinceBye>>

IsCommand(l) == l \in {"command", "monitor", "quit"}
CommandsOf(s) == Count(s, {"command", "monitor", "quit"})

TypeOK == /\ piped \in BOOLEAN
          /\ input \in BoundedSeq(Lines, MaxLines)
          /\ shutdownRequested \in BOOLEAN /\ signalled \in BOOLEAN
          /\ reader \in {"starting", "reading", "locking", "writing", "quitting", "ended"}
          /\ line \in Lines \cup {"none"}
          /\ executed \in 0..MaxLines /\ commands \in 0..MaxLines
          /\ monitoring \in BOOLEAN /\ logger \in {"idle", "writing"}
          /\ mutex \in {"free", "reader", "main", "logger"}
          /\ main \in {"polling", "locking", "writing", "returning",
                     "returned", "exited", "terminated"}
          /\ sinceBye \subseteq {"welcome", "answer", "bye", "log"}

Init == /\ piped \in BOOLEAN
        /\ input \in BoundedSeq(Lines, MaxLines)
        /\ shutdownRequested = FALSE /\ signalled = FALSE
        /\ reader = "starting" /\ line = "none"
        /\ executed = 0 /\ commands = CommandsOf(input)
        /\ monitoring = FALSE /\ logger = "idle"
        /\ mutex = "free" /\ main = "polling" /\ sinceBye = {}

Running == main \in {"polling", "locking", "writing", "returning"}

\* A message reaches the console.
Write(message) ==
    sinceBye' = IF message = "bye" \/ sinceBye # {} THEN sinceBye \cup {message} ELSE {}

-----------------------------------------------------------------------------
(* The input thread *)

\* The welcome is printed under the lock of the output.
Welcome == /\ Running /\ reader = "starting" /\ mutex = "free"
           /\ reader' = "reading"
           /\ Write("welcome")
           /\ UNCHANGED <<shutdownRequested, signalled, piped, input, line, executed,
                          commands, monitoring, logger, mutex, main>>

\* Slip: the next line is taken before the last one was executed.
ReadAhead ==
    /\ Running /\ reader \in {"reading", "locking"} /\ input # <<>>
    /\ input' = Tail(input)
    /\ IF IsCommand(Head(input))
       THEN line' = Head(input) /\ reader' = "locking"
       ELSE UNCHANGED <<line, reader>>
    /\ UNCHANGED <<shutdownRequested, signalled, piped, executed, commands, monitoring, logger,
                   mutex, main, sinceBye>>

\* A line without an answer leaves nothing; any other is executed.
ReadLine ==
    /\ Running /\ reader = "reading" /\ input # <<>>
    /\ input' = Tail(input)
    /\ IF IsCommand(Head(input))
       THEN /\ line' = Head(input)
            /\ reader' = "locking"
       ELSE UNCHANGED <<line, reader>>
    /\ monitoring' = (monitoring \/ Head(input) = "monitor")
    /\ UNCHANGED <<shutdownRequested, signalled, piped, executed, commands, logger, mutex, main,
                   sinceBye>>

\* The handler has run and its answer is to be written.
LockForAnswer == /\ Running /\ reader = "locking" /\ mutex = "free"
                 /\ mutex' = "reader"
                 /\ reader' = "writing"
                 /\ UNCHANGED <<shutdownRequested, signalled, piped, input, line, executed,
                                commands, monitoring, logger, main, sinceBye>>

\* Slips: an answer is written again; its lock is kept.
WriteAnswerAgain ==
    /\ Running /\ reader = "writing"
    /\ Write("answer")
    /\ executed' = executed + 1
    /\ UNCHANGED <<shutdownRequested, signalled, piped, input, reader, line, commands, monitoring,
                   logger, mutex, main>>

WriteAnswerKeepingLock ==
    /\ Running /\ reader = "writing"
    /\ Write("answer")
    /\ executed' = executed + 1
    /\ reader' = (IF line = "quit" THEN "quitting" ELSE "reading") /\ line' = "none"
    /\ UNCHANGED <<shutdownRequested, signalled, piped, input, commands, monitoring, logger, mutex,
                   main>>

WriteAnswer ==
    /\ Running /\ reader = "writing"
    /\ Write("answer")
    /\ mutex' = "free"
    /\ executed' = executed + 1
    /\ reader' = (IF line = "quit" THEN "quitting" ELSE "reading") /\ line' = "none"
    /\ UNCHANGED <<shutdownRequested, signalled, piped, input, commands, monitoring, logger, main>>

\* quit calls exit behind its answer.
Quit == /\ Running /\ reader = "quitting"
        /\ main' = "exited"
        /\ UNCHANGED <<shutdownRequested, signalled, readerVars, logger, mutex, sinceBye>>

\* An exception that leaves a handler leaves the thread.
HandlerThrows == /\ Running /\ reader = "locking" /\ line # "quit"
                 /\ main' = "terminated"
                 /\ UNCHANGED <<shutdownRequested, signalled, readerVars, logger, mutex, sinceBye>>

\* Slips: the end of the input is seen with the last line; main is not told of it.
InputEndsWithLastLine ==
    /\ Running /\ reader \in {"reading", "locking"} /\ input = <<>>
    /\ reader' = "ended"
    /\ shutdownRequested' = TRUE
    /\ UNCHANGED <<signalled, piped, input, line, executed, commands, monitoring, logger, mutex, main,
                   sinceBye>>

InputEndsUntold ==
    /\ Running /\ reader = "reading" /\ input = <<>>
    /\ reader' = "ended"
    /\ UNCHANGED <<shutdownRequested, signalled, piped, input, line, executed, commands, monitoring,
                   logger, mutex, main, sinceBye>>

InputEnds == /\ Running /\ reader = "reading" /\ input = <<>>
             /\ reader' = "ended"
             /\ shutdownRequested' = TRUE
             /\ UNCHANGED <<signalled, piped, input, line, executed, commands, monitoring, logger,
                            mutex, main, sinceBye>>

-----------------------------------------------------------------------------
(* Monitor::onLog, on threads of the library: one message at a time gets the  *)
(* lock.                                                                      *)

LockForLog == /\ Running /\ monitoring /\ logger = "idle" /\ mutex = "free"
              /\ mutex' = "logger"
              /\ logger' = "writing"
              /\ UNCHANGED <<shutdownRequested, signalled, readerVars, main, sinceBye>>

WriteLog == /\ Running /\ logger = "writing"
            /\ Write("log")
            /\ mutex' = "free"
            /\ logger' = "idle"
            /\ UNCHANGED <<shutdownRequested, signalled, readerVars, main>>

-----------------------------------------------------------------------------
(* The signal and the main thread *)

Signal == /\ Running /\ ~signalled
          /\ signalled' = TRUE
          /\ shutdownRequested' = TRUE
          /\ UNCHANGED <<readerVars, logger, mutex, main, sinceBye>>

NoticeShutdown == /\ main = "polling" /\ shutdownRequested
                  /\ main' = "locking"
                  /\ UNCHANGED <<shutdownRequested, signalled, readerVars, logger, mutex, sinceBye>>

LockForBye == /\ main = "locking" /\ mutex = "free"
              /\ mutex' = "main"
              /\ main' = "writing"
              /\ UNCHANGED <<shutdownRequested, signalled, readerVars, logger, sinceBye>>

WriteBye == /\ main = "writing" /\ mutex = "main"
            /\ Write("bye")
            /\ mutex' = "free"
            /\ main' = "returning"
            /\ UNCHANGED <<shutdownRequested, signalled, readerVars, logger>>

\* No other thread is joined; what they do ends with the process.
MainReturns == /\ main = "returning"
               /\ main' = "returned"
               /\ UNCHANGED <<shutdownRequested, signalled, readerVars, logger, mutex, sinceBye>>

-----------------------------------------------------------------------------
Reads      == ReadLine \/ InputEnds
Executes   == Welcome \/ LockForAnswer \/ WriteAnswer \/ Quit
MainStep   == NoticeShutdown \/ LockForBye \/ WriteBye \/ MainReturns

Next == Reads \/ Executes \/ HandlerThrows \/ LockForLog \/ WriteLog \/ Signal \/ MainStep

\* The threads are scheduled, but the mutex is not fair: one that waits for it may wait
\* as long as others lock it again and again.  A pipe is read to its end; whoever sits
\* at a terminal owes no line, and nobody a log message, a signal or an exception.
Fairness == /\ WF_vars(Executes) /\ WF_vars(piped /\ Reads)
            /\ WF_vars(WriteLog) /\ WF_vars(MainStep)

Spec == Init /\ [][Next]_vars /\ Fairness

-----------------------------------------------------------------------------
(* Properties *)

\* utilities_overview.md, the batch execution: a process that ends because its input
\* ended has executed and answered every command of it before the shutdown message,
\* behind which only log messages of a system that is still monitored can come.
BatchIsComplete ==
    main = "returned" /\ ~signalled =>
        executed = commands /\ "bye" \in sinceBye /\ sinceBye \subseteq {"bye", "log"}

\* Log messages are written without end.
LogsForever == []<>(logger = "writing")

\* Neither the end of the input nor a signal is waited for in vain: main ends the
\* process although the input thread may be busy or waiting for a line, unless log
\* messages never leave it the lock.
ShutdownEnds == LogsForever \/ (shutdownRequested ~> ~Running)

\* A process that is fed by a pipe comes to its end, with the same exception.
ProcessEnds == LogsForever \/ (piped => <>~Running)

\* The commands are executed in order and none twice: those that are left are the
\* ones neither executed nor being executed.
NoCommandLost == commands = executed + CommandsOf(input) + (IF line # "none" THEN 1 ELSE 0)
=============================================================================
