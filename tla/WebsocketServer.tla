--------------------------- MODULE WebsocketServer ---------------------------
(* FEP Control in websocket mode: interactiveLoopWebsocket of                 *)
(* src/src/fep_control_tool/fep_control_tool.cpp and the sessions of          *)
(* fep_control_websocket.cpp.                                                 *)
(*                                                                            *)
(* Threads: main polls the flag the signal handler sets, then tells the       *)
(* clients of a snapshot of the active connections that the application shuts *)
(* down, and returns, which ends the process; the acceptor makes one session  *)
(* per connection; every session reads requests and answers them.  Main and a *)
(* session write to the same client, one at a time, under the session's mutex.*)
(* A client connects, sends requests and leaves whenever it likes.            *)
EXTENDS Counting

CONSTANTS
    Clients,       \* connections clients make; a reconnection is another one
    Unresponsive,  \* those whose peer has stopped reading: a write to them blocks
    Requests,      \* the kinds of lines that are sent: "command", "quit", and "blank",
                   \* one that is not answered: a line without a word, help on an
                   \* unknown command, a listing of no system as text
    MaxRequests,   \* bound: how many lines one client sends
    Nobody

ASSUME ClientsAssumption == /\ Unresponsive \subseteq Clients
                            /\ Nobody \notin Clients \cup Requests
ASSUME RequestsAssumption == /\ Requests \subseteq {"command", "blank", "quit"}
                             /\ MaxRequests \in Nat

VARIABLES
    shutdownRequested,  \* shutdown_requested
    main,               \* where the main thread is
    pending,            \* the clients of main's snapshot it has still to inform
    informing,          \* the one it is informing
    acceptor,           \* where the acceptor thread is
    accepting,          \* the connection it works on
    active,             \* active_connections
    session,            \* where the thread of each session is
    request,            \* the line each session is executing
    mutex,              \* _mutex_write_output of each session: its holder
    link,               \* the connection as the client sees it
    lines,              \* lines sent and not read yet
    asked,              \* how many lines with a command each client has sent
    answers,            \* how many answers each client has got
    byes,               \* how many shutdown messages each client has got
    openAtShutdown      \* the clients that were connected when main saw the flag

threadVars == <<main, pending, informing, acceptor, accepting, active, session, request, mutex>>
clientVars == <<link, lines, asked, answers, byes>>
vars == <<shutdownRequested, threadVars, clientVars, openAtShutdown>>

MainStates     == {"polling", "notifying", "locking", "writing", "returned", "exited"}
AcceptorStates == {"binding", "listening", "accepted", "added", "failed"}
SessionStates  == {"none", "created", "handshake", "reading", "locking", "writing",
                   "quitting", "leaving", "done"}
\* "dropped": the process ended while the connection was open.
LinkStates     == {"idle", "connected", "open", "closed", "dropped"}

TypeOK == /\ shutdownRequested \in BOOLEAN
          /\ main \in MainStates
          /\ pending \subseteq Clients
          /\ informing \in Clients \cup {Nobody}
          /\ acceptor \in AcceptorStates
          /\ accepting \in Clients \cup {Nobody}
          /\ active \subseteq Clients
          /\ session \in [Clients -> SessionStates]
          /\ request \in [Clients -> Requests \cup {Nobody}]
          /\ mutex \in [Clients -> {"free", "session", "main"}]
          /\ link \in [Clients -> LinkStates]
          /\ lines \in [Clients -> Seq(Requests)]
          /\ asked \in [Clients -> Nat]
          /\ answers \in [Clients -> Nat]
          /\ byes \in [Clients -> Nat]
          /\ openAtShutdown \subseteq Clients

Init == /\ shutdownRequested = FALSE
        /\ main = "polling"
        /\ pending = {}
        /\ informing = Nobody
        /\ acceptor = "binding"
        /\ accepting = Nobody
        /\ active = {}
        /\ session = [c \in Clients |-> "none"]
        /\ request = [c \in Clients |-> Nobody]
        /\ mutex = [c \in Clients |-> "free"]
        /\ link = [c \in Clients |-> "idle"]
        /\ lines = [c \in Clients |-> <<>>]
        /\ asked = [c \in Clients |-> 0]
        /\ answers = [c \in Clients |-> 0]
        /\ byes = [c \in Clients |-> 0]
        /\ openAtShutdown = {}

Running == main \notin {"returned", "exited"}

\* What the end of the process does to the connections.
DropLinks == link' = [c \in Clients |-> IF link[c] = "open" THEN "dropped" ELSE link[c]]

-----------------------------------------------------------------------------
(* The clients and the signal *)

ClientConnects(c) ==
    /\ Running /\ acceptor \notin {"binding", "failed"}
    /\ link[c] = "idle"
    /\ link' = [link EXCEPT ![c] = "connected"]
    /\ UNCHANGED <<shutdownRequested, threadVars, lines, asked, answers, byes, openAtShutdown>>

ClientSends(c, line) ==
    /\ Running
    /\ link[c] = "open"
    /\ Len(lines[c]) < MaxRequests
    /\ line # "blank" => asked[c] < MaxRequests
    /\ lines' = [lines EXCEPT ![c] = Append(@, line)]
    /\ asked' = IF line = "blank" THEN asked ELSE [asked EXCEPT ![c] = @ + 1]
    /\ UNCHANGED <<shutdownRequested, threadVars, link, answers, byes, openAtShutdown>>

\* The client closes the connection or loses it.
ClientCloses(c) ==
    /\ Running
    /\ link[c] \in {"connected", "open"}
    /\ link' = [link EXCEPT ![c] = "closed"]
    /\ UNCHANGED <<shutdownRequested, threadVars, lines, asked, answers, byes, openAtShutdown>>

Signal == /\ Running
          /\ ~shutdownRequested
          /\ shutdownRequested' = TRUE
          /\ UNCHANGED <<threadVars, clientVars, openAtShutdown>>

-----------------------------------------------------------------------------
(* The acceptor thread.  An exception of the library (the port is taken, no   *)
(* descriptor or no thread is left) ends it, and with it the io_context the   *)
(* sockets of all sessions refer to.  What a thread that uses such a socket   *)
(* does then is undefined: here it goes on as before, or the process dies.    *)

Bind == /\ Running /\ acceptor = "binding"
        /\ acceptor' = "listening"
        /\ UNCHANGED <<shutdownRequested, main, pending, informing, accepting, active, session, request,
                       mutex, clientVars, openAtShutdown>>

Accept(c) == /\ Running /\ acceptor = "listening"
             /\ link[c] # "idle" /\ session[c] = "none"
             /\ session' = [session EXCEPT ![c] = "created"]
             /\ acceptor' = "accepted"
             /\ accepting' = c
             /\ UNCHANGED <<shutdownRequested, main, pending, informing, active, request, mutex,
                            clientVars, openAtShutdown>>

\* Slip: a connection is added before there is one.
AddConnectionEarly == /\ Running /\ acceptor \in {"listening", "accepted"}
                      /\ active' = active \cup {accepting}
                      /\ acceptor' = "added"
                      /\ UNCHANGED <<shutdownRequested, main, pending, informing, accepting, session,
                                     request, mutex, clientVars, openAtShutdown>>

AddConnection == /\ Running /\ acceptor = "accepted"
                 /\ active' = active \cup {accepting}
                 /\ acceptor' = "added"
                 /\ UNCHANGED <<shutdownRequested, main, pending, informing, accepting, session, request,
                                mutex, clientVars, openAtShutdown>>

StartSession == /\ Running /\ acceptor = "added"
                /\ session' = [session EXCEPT ![accepting] = "handshake"]
                /\ acceptor' = "listening"
                /\ accepting' = Nobody
                /\ UNCHANGED <<shutdownRequested, main, pending, informing, active, request, mutex,
                               clientVars, openAtShutdown>>

AcceptorFails == /\ Running /\ acceptor \in {"binding", "listening", "added"}
                 /\ acceptor' = "failed"
                 /\ UNCHANGED <<shutdownRequested, main, pending, informing, accepting, active, session,
                                request, mutex, clientVars, openAtShutdown>>

\* A thread reads from, writes to or destroys a socket whose io_context is gone.
UseOfDeadSocket ==
    /\ Running /\ acceptor = "failed"
    /\ \/ \E c \in Clients : session[c] \in {"handshake", "reading", "writing", "leaving"}
       \/ main = "writing"
    /\ main' = "exited" /\ DropLinks
    /\ UNCHANGED <<shutdownRequested, pending, informing, acceptor, accepting, active, session,
                   request, mutex, lines, asked, answers, byes, openAtShutdown>>

-----------------------------------------------------------------------------
(* The thread of a session: readInputFromSource, then removeConnection *)

Handshake(c) == /\ Running /\ session[c] = "handshake" /\ link[c] = "connected"
                /\ session' = [session EXCEPT ![c] = "reading"]
                /\ link' = [link EXCEPT ![c] = "open"]
                /\ UNCHANGED <<shutdownRequested, main, pending, informing, acceptor, accepting, active,
                               request, mutex, lines, asked, answers, byes, openAtShutdown>>

\* Slip: a handshake that fails leaves the thread behind.
ConnectionLostReading(c) ==
    /\ Running /\ session[c] = "reading" /\ link[c] = "closed"
    /\ session' = [session EXCEPT ![c] = "leaving"]
    /\ UNCHANGED <<shutdownRequested, main, pending, informing, acceptor, accepting, active, request,
                   mutex, clientVars, openAtShutdown>>

\* accept or read throws: the client has gone.  What it had sent may be lost.
ConnectionLost(c) == /\ Running
                     /\ session[c] \in {"handshake", "reading"} /\ link[c] = "closed"
                     /\ session' = [session EXCEPT ![c] = "leaving"]
                     /\ UNCHANGED <<shutdownRequested, main, pending, informing, acceptor, accepting,
                                    active, request, mutex, clientVars, openAtShutdown>>

\* Slip: one read takes all that has arrived, and its first line is executed.
ReadAll(c) ==
    /\ Running /\ session[c] = "reading" /\ lines[c] # <<>>
    /\ lines' = [lines EXCEPT ![c] = <<>>]
    /\ session' = [session EXCEPT ![c] = "locking"]
    /\ request' = [request EXCEPT ![c] = Head(lines[c])]
    /\ UNCHANGED <<shutdownRequested, main, pending, informing, acceptor, accepting, active, mutex,
                   link, asked, answers, byes, openAtShutdown>>

\* A line without an answer leaves nothing; any other is executed and answered.
ReadRequest(c) ==
    /\ Running /\ session[c] = "reading" /\ lines[c] # <<>>
    /\ lines' = [lines EXCEPT ![c] = Tail(@)]
    /\ IF Head(lines[c]) = "blank"
       THEN UNCHANGED <<session, request>>
       ELSE /\ session' = [session EXCEPT ![c] = "locking"]
            /\ request' = [request EXCEPT ![c] = Head(lines[c])]
    /\ UNCHANGED <<shutdownRequested, main, pending, informing, acceptor, accepting, active, mutex,
                   link, asked, answers, byes, openAtShutdown>>

LockForAnswer(c) ==
    /\ Running /\ session[c] = "locking" /\ mutex[c] = "free"
    /\ mutex' = [mutex EXCEPT ![c] = "session"]
    /\ session' = [session EXCEPT ![c] = "writing"]
    /\ UNCHANGED <<shutdownRequested, main, pending, informing, acceptor, accepting, active, request,
                   clientVars, openAtShutdown>>

\* A message reaches a client whose connection is open; to any other the write
\* throws, which is swallowed.
Delivered(count, c) == IF link[c] = "open" THEN [count EXCEPT ![c] = @ + 1] ELSE count

\* Slip: a write that throws, because the client has gone, keeps the lock.
WriteAnswerKeepingLock(c) ==
    /\ Running /\ session[c] = "writing"
    /\ answers' = Delivered(answers, c)
    /\ mutex' = IF link[c] = "open" THEN [mutex EXCEPT ![c] = "free"] ELSE mutex
    /\ session' = [session EXCEPT ![c] = IF request[c] = "quit" THEN "quitting" ELSE "reading"]
    /\ request' = [request EXCEPT ![c] = Nobody]
    /\ UNCHANGED <<shutdownRequested, main, pending, informing, acceptor, accepting, active, link,
                   lines, asked, byes, openAtShutdown>>

\* quit answers like any command ...
WriteAnswer(c) ==
    /\ Running /\ session[c] = "writing"
    /\ answers' = Delivered(answers, c)
    /\ mutex' = [mutex EXCEPT ![c] = "free"]
    /\ session' = [session EXCEPT ![c] = IF request[c] = "quit" THEN "quitting" ELSE "reading"]
    /\ request' = [request EXCEPT ![c] = Nobody]
    /\ UNCHANGED <<shutdownRequested, main, pending, informing, acceptor, accepting, active, link,
                   lines, asked, byes, openAtShutdown>>

\* ... and then clears its systems and calls exit, whatever the others are doing.
Quit(c) ==
    /\ Running /\ session[c] = "quitting"
    /\ main' = "exited" /\ DropLinks
    /\ UNCHANGED <<shutdownRequested, pending, informing, acceptor, accepting, active, session,
                   request, mutex, lines, asked, answers, byes, openAtShutdown>>

\* Slip: the session ends without taking its connection from the list.
LeaveListed(c) ==
    /\ Running /\ session[c] = "leaving"
    /\ session' = [session EXCEPT ![c] = "done"]
    /\ UNCHANGED <<shutdownRequested, main, pending, informing, acceptor, accepting, active, request,
                   mutex, clientVars, openAtShutdown>>

RemoveConnection(c) ==
    /\ Running /\ session[c] = "leaving"
    /\ active' = active \ {c}
    /\ session' = [session EXCEPT ![c] = "done"]
    /\ UNCHANGED <<shutdownRequested, main, pending, informing, acceptor, accepting, request, mutex,
                   clientVars, openAtShutdown>>

-----------------------------------------------------------------------------
(* The main thread *)

\* Slip: sessions that are busy are left out.
NoticeIdleSessions ==
    /\ main = "polling" /\ shutdownRequested
    /\ main' = "notifying"
    /\ pending' = {c \in active : session[c] = "reading"}
    /\ openAtShutdown' = {c \in Clients : link[c] = "open"}
    /\ UNCHANGED <<shutdownRequested, informing, acceptor, accepting, active, session, request,
                   mutex, clientVars>>

\* The flag is seen, and the vector of the active connections is copied.
NoticeShutdown ==
    /\ main = "polling" /\ shutdownRequested
    /\ main' = "notifying"
    /\ pending' = active
    /\ openAtShutdown' = {c \in Clients : link[c] = "open"}
    /\ UNCHANGED <<shutdownRequested, informing, acceptor, accepting, active, session, request,
                   mutex, clientVars>>

\* Slip: the live list is read again for every client.
NextActive(c) ==
    /\ main = "notifying" /\ c \in pending
    /\ main' = "locking"
    /\ informing' = c
    /\ UNCHANGED <<shutdownRequested, pending, acceptor, accepting, active, session, request, mutex,
                   clientVars, openAtShutdown>>

NextClient(c) ==
    /\ main = "notifying" /\ c \in pending
    /\ main' = "locking"
    /\ informing' = c
    /\ pending' = pending \ {c}
    /\ UNCHANGED <<shutdownRequested, acceptor, accepting, active, session, request, mutex,
                   clientVars, openAtShutdown>>

\* Slip: the message is written without the lock.
LockForByeIgnored ==
    /\ main = "locking"
    /\ main' = "writing"
    /\ mutex' = [mutex EXCEPT ![informing] = "main"]
    /\ UNCHANGED <<shutdownRequested, pending, informing, acceptor, accepting, active, session,
                   request, clientVars, openAtShutdown>>

LockForBye ==
    /\ main = "locking" /\ mutex[informing] = "free"
    /\ main' = "writing"
    /\ mutex' = [mutex EXCEPT ![informing] = "main"]
    /\ UNCHANGED <<shutdownRequested, pending, informing, acceptor, accepting, active, session,
                   request, clientVars, openAtShutdown>>

\* Slip: the lock is kept after the message.
WriteByeKeepingLock ==
    /\ main = "writing"
    /\ main' = "notifying"
    /\ byes' = Delivered(byes, informing)
    /\ informing' = Nobody
    /\ UNCHANGED <<shutdownRequested, pending, acceptor, accepting, active, session, request, mutex,
                   link, lines, asked, answers, openAtShutdown>>

WriteBye ==
    /\ main = "writing"
    /\ main' = "notifying"
    /\ byes' = Delivered(byes, informing)
    /\ mutex' = [mutex EXCEPT ![informing] = "free"]
    /\ informing' = Nobody
    /\ UNCHANGED <<shutdownRequested, pending, acceptor, accepting, active, session, request,
                   link, lines, asked, answers, openAtShutdown>>

\* Slip: main returns after the first message.
MainReturnsEarly ==
    /\ main = "notifying"
    /\ main' = "returned"
    /\ DropLinks
    /\ UNCHANGED <<shutdownRequested, pending, informing, acceptor, accepting, active, session,
                   request, mutex, lines, asked, answers, byes, openAtShutdown>>

MainReturns ==
    /\ main = "notifying" /\ pending = {}
    /\ main' = "returned"
    /\ DropLinks
    /\ UNCHANGED <<shutdownRequested, pending, informing, acceptor, accepting, active, session,
                   request, mutex, lines, asked, answers, byes, openAtShutdown>>

-----------------------------------------------------------------------------
ClientStep(c)  == \/ ClientConnects(c) \/ ClientCloses(c)
                  \/ \E line \in Requests : ClientSends(c, line)
AcceptorStep   == \/ Bind \/ AddConnection \/ StartSession
                  \/ \E c \in Clients : Accept(c)
SessionStep(c) == \/ ConnectionLost(c) \/ ReadRequest(c) \/ LockForAnswer(c)
                  \/ WriteAnswer(c) \/ Quit(c) \/ RemoveConnection(c)
MainStep       == \/ NoticeShutdown \/ LockForBye \/ WriteBye \/ MainReturns
                  \/ \E c \in Clients : NextClient(c)

Next == \/ Signal
        \/ \E c \in Clients : ClientStep(c) \/ Handshake(c) \/ SessionStep(c)
        \/ AcceptorStep \/ AcceptorFails \/ UseOfDeadSocket
        \/ MainStep

\* A write to a client that has stopped reading may block until it goes away.
Flows(c) == c \notin Unresponsive \/ link[c] # "open"

\* Every thread of the process is scheduled.  Clients owe nothing, not even the
\* handshake, and no signal has to come.
Fairness == /\ WF_vars(MainStep /\ (main = "writing" => Flows(informing)))
            /\ WF_vars(AcceptorStep)
            /\ \A c \in Clients : WF_vars(SessionStep(c) /\ (session[c] = "writing" => Flows(c)))

Spec == Init /\ [][Next]_vars /\ Fairness

-----------------------------------------------------------------------------
(* Properties *)

\* The vector of active connections holds exactly the sessions that can still
\* write to their client: from before the session's thread starts to after its
\* last read, and one whose thread could not be started for ever.
ActiveAreSessions ==
    \A c \in Clients : c \in active <=>
        \/ session[c] \in {"handshake", "reading", "locking", "writing", "quitting", "leaving"}
        \/ session[c] = "created" /\ accepting = c /\ acceptor \in {"added", "failed"}

\* Main and a session never write to the same client at the same time, although
\* they share its socket.
OneWriter == \A c \in Clients : session[c] = "writing" => ~(main = "writing" /\ informing = c)

\* No client is told twice that the application shuts down, and none before a
\* shutdown was requested.
ByeOnceAndOnlyOnShutdown ==
    \A c \in Clients : byes[c] <= (IF shutdownRequested THEN 1 ELSE 0)

\* When main returns, every client that was connected as the flag was noticed
\* has got the shutdown message or has left by itself.
InformedBeforeReturn ==
    main = "returned" => \A c \in openAtShutdown : byes[c] = 1 \/ link[c] = "closed"

\* While a client stays connected, each of its commands is in exactly one place:
\* unread, being executed, or answered; none is lost, none is answered twice,
\* whoever else leaves or is told goodbye.
EveryCommandOnce ==
    \A c \in Clients : link[c] = "open" =>
        asked[c] = answers[c] + (IF request[c] # Nobody THEN 1 ELSE 0)
                     + Count(lines[c], Requests \ {"blank"})

\* A requested shutdown ends the process, unless main waits for good for a client
\* that has stopped reading and has not gone away; one that it finds not reading
\* and that goes, or that it only passes, does not keep it.
ShutdownEnds ==
    <>[](shutdownRequested /\ Running => /\ main \in {"locking", "writing"}
                                         /\ informing \in Unresponsive
                                         /\ link[informing] = "open")

\* A command that was read is answered, or its client has left, or the process
\* has ended, unless the client does not read.
CommandAnswered ==
    \A c \in Clients \ Unresponsive :
        request[c] # Nobody ~> request[c] = Nobody \/ ~Running

\* The connection of a client that has left does not stay active, unless the
\* acceptor failed to start its session.
LostConnectionRemoved ==
    \A c \in Clients : c \in active /\ link[c] = "closed" ~>
        c \notin active \/ ~Running \/ (accepting = c /\ acceptor = "failed")

-----------------------------------------------------------------------------
(* The promise about the shutdown *)

Notifying == main \in {"notifying", "locking", "writing"}

Notice == INSTANCE ShutdownNotice WITH
    phase     <- CASE main = "polling" -> "serving" [] Notifying -> "informing"
                   [] main = "returned" -> "ended" [] OTHER -> "aborted",
    connected <- {c \in Clients : link[c] = "open"},
    due       <- IF Notifying
                 THEN {c \in openAtShutdown : link[c] = "open" /\ byes[c] = 0} ELSE {},
    informed  <- {c \in Clients : byes[c] > 0}

\* The server implements ShutdownNotice: to its clients every step of a thread is
\* a step of the promise, or none; it ends with nothing due unless somebody quits
\* or it dies with its acceptor.
ImplementsShutdownNotice == Notice!Spec
=============================================================================
