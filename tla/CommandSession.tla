---------------------------- MODULE CommandSession ----------------------------
(* The program from its start through the lines of a session: Startup, then   *)
(* what the input loops of fep_control_commandline.cpp and of                 *)
(* fep_control_websocket.cpp do with each line (CommandDispatch), and what TAB*)
(* offers on the console.  The session is the one of the console, or that of  *)
(* one client of the server; the threads around it are CommandLineLoop and    *)
(* WebsocketServer.                                                           *)
EXTENDS Startup

CONSTANT MaxServed  \* bound: with how many arguments at most a program is started whose
                    \* lines are looked at

ASSUME MaxServedAssumption == MaxServed \in Nat

VARIABLES session,  \* what of the session decides how its commands may end
          offered   \* what TAB offers behind which words

sessionVars == <<vars, session, offered>>

\* Bound: a line holds at most one argument more than its command takes.
Counts(c) == IF c \in CommandNames THEN 0..(Len(Offered(c)) + 1) ELSE 0..1

NothingOffered == [command |-> "none", index |-> 0, kind |-> "nothing"]
Offers == [command : CommandNames \cup {"none"}, index : Nat,
           kind : {"nothing", "command", "system", "participant", "property", "state"}]

SessionTypeOK == TypeOK /\ session \in Sessions /\ offered \in Offers

SessionInit == Init /\ session = NewSession(jsonMode) /\ offered = NothingOffered

\* The session is made when the start is over, in the mode asked for.
Starts == Next /\ session' = NewSession(jsonMode') /\ UNCHANGED offered

\* The input loop waits for a line.
Serves == phase \in {"console", "server"} /\ Len(arguments) <= MaxServed

\* What a handler throws leaves the thread of the console, and the program; the
\* server answers it.
ExecuteLine(c, n) ==
    /\ Serves
    /\ \E o \in Processed(session, c, n) :
          /\ session' \in After(session, c, n, o)
          /\ line' = [command |-> c, count |-> n]
          /\ IF o.end = "throws" /\ phase = "server"
             THEN answers' = Append(o.answers, "error") /\ phase' = phase
             ELSE /\ answers' = o.answers
                  /\ phase' = CASE o.end = "returns" -> phase
                                [] o.end = "exits"   -> "quit"
                                [] o.end = "throws"  -> "crashed"
    /\ offered' = NothingOffered
    /\ UNCHANGED <<arguments, position, jsonMode, operationMode, autoDiscovery, executed, result>>

\* TAB behind n words, the first of which is c.  Without a word the first one is
\* read all the same, which ends the program.  The first word is completed to the
\* name of a command, a later one to what the table has for it.  (The line before is
\* of no further interest.)
Complete(c, n) ==
    /\ Serves /\ phase = "console"
    /\ phase' = IF n = 0 THEN "crashed" ELSE phase
    /\ line' = NoLine /\ answers' = <<>>
    /\ offered' = CASE n = 1 -> [command |-> "none", index |-> 1, kind |-> "command"]
                    [] n > 1 /\ c \in CommandNames /\ n - 1 <= Len(Offered(c)) ->
                          [command |-> c, index |-> n - 1, kind |-> Offered(c)[n - 1]]
                    [] OTHER -> NothingOffered
    /\ UNCHANGED <<arguments, position, jsonMode, operationMode, autoDiscovery, executed, result,
                   session>>

SessionNext ==
    \/ Starts
    \/ \E c \in CommandNames \cup {Unknown} : \E n \in Counts(c) :
          ExecuteLine(c, n) \/ Complete(c, n + 1)
    \/ Complete(Unknown, 0)

SessionSpec == SessionInit /\ [][SessionNext]_sessionVars

-----------------------------------------------------------------------------
(* Properties *)

\* Whoever sends a line gets one answer to it.  Four are silent: help on a word that
\* is no command, the property names of a participant without configuration, the
\* discovery of all systems, as text, that finds none, and a handler that throws where
\* nobody catches it, which a server always does.
AnsweredOnce ==
    line # NoLine =>
        \/ Len(answers) = 1
        \/ /\ answers = <<>>
           /\ \/ line = [command |-> "help", count |-> 1]
              \/ line = [command |-> "getParticipantPropertyNames", count |-> 2]
              \/ line = [command |-> "discoverAllSystems", count |-> 0] /\ ~session.json
              \/ phase = "crashed" /\ line.command \in SystemCommands \cup
                                         {"discoverAllSystems", "discoverSystem"}

\* The table and the handlers agree: of a line that is accepted the handler reads
\* all arguments that were typed and none behind them, and what TAB offers for an
\* argument is what the handler takes it for.
HandlersReadWhatIsTyped ==
    /\ Accepted(line.command, line.count) => Len(Reads(line.command, line.count)) = line.count
    /\ offered.command \in CommandNames /\ offered.kind # "nothing" =>
          Reads(offered.command, Len(Offered(offered.command)))[offered.index] = offered.kind
=============================================================================
