------------------------------- MODULE Startup -------------------------------
(* How fep_control starts: main and parseAndExecuteCommandline of             *)
(* src/src/fep_control_tool/fep_control_tool.cpp.  The arguments are looked at*)
(* from left to right; an execute option takes all that follow it as one      *)
(* command, executes it in a session of its own and ends the parsing.  Main   *)
(* then returns, or goes on to serve a console or websockets.                 *)
EXTENDS CommandDispatch, SequencesExt

CONSTANT MaxArguments  \* bound: how many arguments are given

ASSUME MaxArgumentsAssumption == MaxArguments \in Nat

\* --json, --websocket, -ad or --auto_discovery, -e or --execute, anything else.
Arguments == {"json", "websocket", "auto_discovery", "execute", "word"}

VARIABLES arguments,      \* argv without the program
          position,       \* i: the next argument to look at
          jsonMode, operationMode, autoDiscovery,
          executed,       \* the sessions that executed a command, in order
          result,         \* what parseAndExecuteCommandline returned
          phase,          \* where the program is
          line,           \* the line executed last: its command and how many arguments
          answers         \* what it was answered

outcomeVars == <<result, line, answers>>
vars == <<arguments, position, jsonMode, operationMode, autoDiscovery, executed, phase, outcomeVars>>

\* "exited": main returned; "quit": the command ended the process; "crashed": an
\* exception left main, or the assertion on an empty command failed.
Phases == {"parsing", "deciding", "console", "server", "exited", "quit", "crashed"}
Executions == [json : BOOLEAN, command : Seq(Arguments)]

\* The arguments of a line are counted only.
Lines == [command : CommandNames \cup {Unknown, "none"}, count : Nat]
NoLine == [command |-> "none", count |-> 0]

TypeOK == /\ arguments \in BoundedSeq(Arguments, MaxArguments)
          /\ position \in 1..(Len(arguments) + 1)
          /\ jsonMode \in BOOLEAN /\ autoDiscovery \in BOOLEAN
          /\ operationMode \in {"COMMANDLINE", "WEBSOCKET"}
          /\ executed \in Seq(Executions)
          /\ result \in -3..1
          /\ phase \in Phases
          /\ line \in Lines
          /\ answers \in Seq({"note", "error"})

\* Without arguments nothing is parsed.
Init == /\ arguments \in BoundedSeq(Arguments, MaxArguments)
        /\ position = 1
        /\ jsonMode = FALSE /\ autoDiscovery = FALSE
        /\ operationMode = "COMMANDLINE"
        /\ executed = <<>>
        /\ result = 0 /\ line = NoLine /\ answers = <<>>
        /\ phase = IF arguments = <<>> THEN "console" ELSE "parsing"

-----------------------------------------------------------------------------
Look(argument) == /\ phase = "parsing" /\ position <= Len(arguments)
                  /\ arguments[position] = argument

\* Slip: an option takes a value.
ParseFlagAndValue(argument) ==
    /\ Look(argument) /\ argument # "execute"
    /\ position' = position + 2
    /\ jsonMode' = (jsonMode \/ argument = "json")
    /\ autoDiscovery' = (autoDiscovery \/ argument = "auto_discovery")
    /\ operationMode' = IF argument = "websocket" THEN "WEBSOCKET" ELSE operationMode
    /\ UNCHANGED <<arguments, executed, phase, outcomeVars>>

ParseFlag(argument) ==
    /\ Look(argument) /\ argument # "execute"
    /\ position' = position + 1
    /\ jsonMode' = (jsonMode \/ argument = "json")
    /\ autoDiscovery' = (autoDiscovery \/ argument = "auto_discovery")
    /\ operationMode' = IF argument = "websocket" THEN "WEBSOCKET" ELSE operationMode
    /\ UNCHANGED <<arguments, executed, phase, outcomeVars>>

\* Slip: the parsing goes on behind the execute option.
ExecuteAndGoOn ==
    /\ Look("execute") /\ position < Len(arguments)
    /\ position' = position + 1
    /\ executed' = Append(executed, [json |-> jsonMode,
                         command |-> SubSeq(arguments, position + 1, Len(arguments))])
    /\ UNCHANGED <<arguments, jsonMode, operationMode, autoDiscovery, phase, outcomeVars>>

\* The command is executed in a session that is given the JSON mode seen so far and
\* nothing else; the status is what processCommandline returns, unless the command is
\* quit or throws what its handler does not catch.  A command without a word is
\* asserted not to happen; without assertions its first word is read beyond the end.
Execute ==
    /\ Look("execute")
    /\ LET command == SubSeq(arguments, position + 1, Len(arguments)) IN
       IF command = <<>>
       THEN phase' = "crashed" /\ UNCHANGED <<executed, outcomeVars>>
       ELSE \E c \in IF Head(command) = "word" THEN CommandNames \cup {Unknown} ELSE {Unknown} :
            \E o \in Processed(NewSession(jsonMode), c, Len(command) - 1) :
               /\ executed' = Append(executed, [json |-> jsonMode, command |-> command])
               /\ line' = [command |-> c, count |-> Len(command) - 1]
               /\ answers' = o.answers
               /\ result' = IF o.end = "returns" THEN o.status ELSE result
               /\ phase' = CASE o.end = "returns" -> "deciding"
                              [] o.end = "exits"   -> "quit"
                              [] o.end = "throws"  -> "crashed"
    /\ UNCHANGED <<arguments, position, jsonMode, operationMode, autoDiscovery>>

\* No argument is left and no command was found: the usage is shown, except to a
\* program that goes on.
ParsingEnds ==
    /\ phase = "parsing" /\ position > Len(arguments)
    /\ result' = -1
    /\ phase' = "deciding"
    /\ UNCHANGED <<arguments, position, jsonMode, operationMode, autoDiscovery, executed,
                   line, answers>>

\* Slip: a command is taken to have been found whenever arguments were given.
FoundAlways == TRUE

\* found_execute_command is never set by the parsing.
FoundExecuteCommand == FALSE

Decide ==
    /\ phase = "deciding"
    /\ phase' = IF (FoundExecuteCommand \/ ~jsonMode) /\ operationMode = "COMMANDLINE"
                THEN "exited"
                ELSE IF operationMode = "WEBSOCKET" THEN "server" ELSE "console"
    /\ UNCHANGED <<arguments, position, jsonMode, operationMode, autoDiscovery, executed,
                   outcomeVars>>

Next == \/ \E argument \in Arguments : ParseFlag(argument)
        \/ Execute \/ ParsingEnds \/ Decide

Spec == Init /\ [][Next]_vars

-----------------------------------------------------------------------------
(* Properties *)

\* The options that count: those before the first execute option.
Options == LET first == {i \in DOMAIN arguments : arguments[i] = "execute"}
           IN  {arguments[i] : i \in {j \in DOMAIN arguments : \A k \in first : j < k}}

\* Where the program goes is decided by the options before the command and by
\* no word of the command: with a websocket option, and only with it, it becomes a
\* server, and one that was given no command stays on the console when nothing but
\* JSON mode was asked for, or nothing at all, and returns otherwise.
ModeFollowsOptions ==
    phase \in {"console", "server", "exited"} =>
        /\ phase = "server" <=> "websocket" \in Options
        /\ executed = <<>> =>
              (phase = "console" <=> "websocket" \notin Options /\
                                     (arguments = <<>> \/ "json" \in Options))

\* At most one command is executed, the words after the first execute option, in
\* the mode the options before it ask for, and never after the program settled.
OneCommand ==
    /\ Len(executed) <= 1
    /\ \A i \in DOMAIN executed :
          /\ executed[i].json <=> "json" \in Options
          /\ \E j \in DOMAIN arguments :
                /\ arguments[j] = "execute"
                /\ executed[i].command = SubSeq(arguments, j + 1, Len(arguments))
                /\ \A k \in 1..(j - 1) : arguments[k] # "execute"

\* When main returns success the command it was given was executed and no error was
\* answered: a command line that holds no command, a wrong one, and one that failed are
\* told to the caller.  (setSystemState, which drops what its last step returns, does
\* no harm here: it takes a system, and none is known to the session of a command.)  A
\* failure was answered with an error, but for help on a word that is no command.
ExitStatusTells ==
    phase = "exited" =>
        IF result = 0
        THEN line # NoLine /\ "error" \notin ToSet(answers)
        ELSE line = NoLine \/ line.command = "help" \/ "error" \in ToSet(answers)

-----------------------------------------------------------------------------
(* What a comment says and the code does not do *)

\* fep_control_tool.cpp:280-281: a program that was given a command to execute exits
\* behind it; the console is for one that was given none.
ExecuteExits == phase = "console" => executed = <<>>
=============================================================================
