------------------------ MODULE WebsocketServerProofs ------------------------
(* Theorems about WebsocketServer, for every number of connections, peers that *)
(* have stopped reading and bound on their requests.                           *)
(*                                                                             *)
(* The inductive invariant says who holds each lock, what the list of active   *)
(* connections stands for, and, while main informs the clients, that each one  *)
(* that was connected as the shutdown was noticed is waiting to be informed,   *)
(* is being informed, was told, or has gone.                                   *)
EXTENDS WebsocketServer, SequenceLemmas, TLAPS

\* The acceptor works on a connection whose thread it has not started yet.
AcceptorOK ==
    /\ acceptor \in {"binding", "listening"} => accepting = Nobody
    /\ acceptor \in {"accepted", "added"} =>
           accepting \in Clients /\ session[accepting] = "created"

\* A lock is held by exactly the thread that writes.
MutexOK ==
    Running => \A c \in Clients :
        /\ mutex[c] = "session" <=> session[c] = "writing"
        /\ mutex[c] = "main" <=> main = "writing" /\ informing = c

\* An open connection has a thread that serves it.
LinkOK ==
    Running => \A c \in Clients :
        link[c] = "open" => session[c] \in {"reading", "locking", "writing", "quitting"}

\* Main is informing a client that waits for the message no more, and has it not.
InformingOK ==
    /\ main \in {"polling", "notifying", "returned"} => informing = Nobody
    /\ main \in {"locking", "writing"} => informing \in Clients
    /\ \A c \in Clients : c \in pending \/ c = informing => byes[c] = 0
    /\ informing \notin pending
    /\ main = "polling" => \A c \in Clients : byes[c] = 0
    /\ main \in {"notifying", "locking", "writing"} => shutdownRequested

\* Nobody who is owed the message is forgotten.
DueOK ==
    Notifying => \A c \in openAtShutdown :
        /\ link[c] \in {"open", "closed"}
        /\ c \in pending \/ c = informing \/ byes[c] = 1 \/ link[c] = "closed"

IInv == /\ TypeOK
        /\ AcceptorOK /\ ActiveAreSessions
        /\ MutexOK /\ LinkOK
        /\ InformingOK /\ DueOK
        /\ ByeOnceAndOnlyOnShutdown /\ InformedBeforeReturn

\* A connection that is made and not accepted yet concerns no thread.
LEMMA ClientConnectsOK ==
    ASSUME IInv, NEW c \in Clients, ClientConnects(c)
    PROVE  IInv'
<1>1. TypeOK'
  BY DEF IInv, TypeOK, LinkStates, ClientConnects, threadVars
<1>2. AcceptorOK' /\ ActiveAreSessions'
  BY DEF IInv, AcceptorOK, ActiveAreSessions, ClientConnects, threadVars
<1>3. MutexOK' /\ LinkOK'
  BY DEF IInv, MutexOK, LinkOK, ClientConnects, threadVars
<1>4. InformingOK' /\ ByeOnceAndOnlyOnShutdown'
  BY DEF IInv, InformingOK, ByeOnceAndOnlyOnShutdown, ClientConnects, threadVars
<1>5. DueOK' /\ InformedBeforeReturn'
  BY DEF IInv, DueOK, InformedBeforeReturn, Notifying, ClientConnects, threadVars
<1> QED
  BY <1>1, <1>2, <1>3, <1>4, <1>5 DEF IInv

\* A line that arrives concerns no thread.
LEMMA ClientSendsOK ==
    ASSUME IInv, NEW c \in Clients, NEW line \in Requests, ClientSends(c, line)
    PROVE  IInv'
<1>1. TypeOK'
  <2>1. Append(lines[c], line) \in Seq(Requests)
    BY DEF IInv, TypeOK
  <2>2. lines' \in [Clients -> Seq(Requests)]
    BY <2>1 DEF IInv, TypeOK, ClientSends
  <2>3. asked' \in [Clients -> Nat]
    BY DEF IInv, TypeOK, ClientSends
  <2> QED
    BY <2>2, <2>3 DEF IInv, TypeOK, ClientSends, threadVars
<1>2. AcceptorOK' /\ ActiveAreSessions'
  BY DEF IInv, AcceptorOK, ActiveAreSessions, ClientSends, threadVars
<1>3. MutexOK' /\ LinkOK'
  BY DEF IInv, MutexOK, LinkOK, ClientSends, threadVars
<1>4. InformingOK' /\ ByeOnceAndOnlyOnShutdown'
  BY DEF IInv, InformingOK, ByeOnceAndOnlyOnShutdown, ClientSends, threadVars
<1>5. DueOK' /\ InformedBeforeReturn'
  BY DEF IInv, DueOK, InformedBeforeReturn, Notifying, ClientSends, threadVars
<1> QED
  BY <1>1, <1>2, <1>3, <1>4, <1>5 DEF IInv

\* A client that goes away is not owed the message any more.
LEMMA ClientClosesOK ==
    ASSUME IInv, NEW c \in Clients, ClientCloses(c)
    PROVE  IInv'
<1>1. TypeOK'
  BY DEF IInv, TypeOK, LinkStates, ClientCloses, threadVars
<1>2. AcceptorOK' /\ ActiveAreSessions'
  BY DEF IInv, AcceptorOK, ActiveAreSessions, ClientCloses, threadVars
<1>3. MutexOK' /\ LinkOK'
  BY DEF IInv, MutexOK, LinkOK, ClientCloses, threadVars
<1>4. InformingOK' /\ ByeOnceAndOnlyOnShutdown'
  BY DEF IInv, InformingOK, ByeOnceAndOnlyOnShutdown, ClientCloses, threadVars
<1>5. DueOK' /\ InformedBeforeReturn'
  BY DEF IInv, DueOK, InformedBeforeReturn, Notifying, ClientCloses, threadVars
<1> QED
  BY <1>1, <1>2, <1>3, <1>4, <1>5 DEF IInv

\* The signal sets the flag, which main has not seen.
LEMMA SignalOK ==
    ASSUME IInv, Signal
    PROVE  IInv'
<1>1. TypeOK'
  BY DEF IInv, TypeOK, Signal, threadVars, clientVars
<1>2. AcceptorOK' /\ ActiveAreSessions'
  BY DEF IInv, AcceptorOK, ActiveAreSessions, Signal, threadVars
<1>3. MutexOK' /\ LinkOK'
  BY DEF IInv, MutexOK, LinkOK, Signal, threadVars, clientVars
<1>4. InformingOK' /\ ByeOnceAndOnlyOnShutdown'
  BY DEF IInv, InformingOK, ByeOnceAndOnlyOnShutdown, TypeOK, Signal, threadVars,
     clientVars
<1>5. DueOK' /\ InformedBeforeReturn'
  BY DEF IInv, DueOK, InformedBeforeReturn, Notifying, Signal, threadVars, clientVars
<1> QED
  BY <1>1, <1>2, <1>3, <1>4, <1>5 DEF IInv

\* Before the acceptor listens it works on no connection.
LEMMA BindOK ==
    ASSUME IInv, Bind
    PROVE  IInv'
<1>1. TypeOK'
  BY DEF IInv, TypeOK, AcceptorStates, Bind, clientVars
<1>2. AcceptorOK' /\ ActiveAreSessions'
  BY DEF IInv, AcceptorOK, ActiveAreSessions, Bind
<1>3. MutexOK' /\ LinkOK'
  BY DEF IInv, MutexOK, LinkOK, Bind, clientVars
<1>4. InformingOK' /\ ByeOnceAndOnlyOnShutdown'
  BY DEF IInv, InformingOK, ByeOnceAndOnlyOnShutdown, Bind, clientVars
<1>5. DueOK' /\ InformedBeforeReturn'
  BY DEF IInv, DueOK, InformedBeforeReturn, Notifying, Bind, clientVars
<1> QED
  BY <1>1, <1>2, <1>3, <1>4, <1>5 DEF IInv

\* An accepted connection is new, so it is not in the list.
LEMMA AcceptOK ==
    ASSUME IInv, NEW c \in Clients, Accept(c)
    PROVE  IInv'
<1>1. TypeOK'
  BY DEF IInv, TypeOK, AcceptorStates, SessionStates, Accept, clientVars
<1>2. AcceptorOK' /\ ActiveAreSessions'
  BY DEF IInv, AcceptorOK, ActiveAreSessions, TypeOK, Accept
<1>3. MutexOK' /\ LinkOK'
  BY DEF IInv, MutexOK, LinkOK, Accept, clientVars
<1>4. InformingOK' /\ ByeOnceAndOnlyOnShutdown'
  BY DEF IInv, InformingOK, ByeOnceAndOnlyOnShutdown, Accept, clientVars
<1>5. DueOK' /\ InformedBeforeReturn'
  BY DEF IInv, DueOK, InformedBeforeReturn, Notifying, Accept, clientVars
<1> QED
  BY <1>1, <1>2, <1>3, <1>4, <1>5 DEF IInv

\* What is added to the list is the connection that was accepted.
LEMMA AddConnectionOK ==
    ASSUME IInv, AddConnection
    PROVE  IInv'
<1>1. TypeOK'
  BY DEF IInv, TypeOK, AcceptorStates, AcceptorOK, AddConnection, clientVars
<1>2. AcceptorOK' /\ ActiveAreSessions'
  BY DEF IInv, AcceptorOK, ActiveAreSessions, AddConnection
<1>3. MutexOK' /\ LinkOK'
  BY DEF IInv, MutexOK, LinkOK, AddConnection, clientVars
<1>4. InformingOK' /\ ByeOnceAndOnlyOnShutdown'
  BY DEF IInv, InformingOK, ByeOnceAndOnlyOnShutdown, AddConnection, clientVars
<1>5. DueOK' /\ InformedBeforeReturn'
  BY DEF IInv, DueOK, InformedBeforeReturn, Notifying, AddConnection, clientVars
<1> QED
  BY <1>1, <1>2, <1>3, <1>4, <1>5 DEF IInv

\* The connection whose thread starts is in the list.
LEMMA StartSessionOK ==
    ASSUME IInv, StartSession
    PROVE  IInv'
<1>1. TypeOK'
  BY DEF IInv, TypeOK, AcceptorStates, SessionStates, StartSession, clientVars
<1>2. AcceptorOK' /\ ActiveAreSessions'
  BY DEF IInv, AcceptorOK, ActiveAreSessions, TypeOK, StartSession
<1>3. MutexOK' /\ LinkOK'
  BY DEF IInv, MutexOK, LinkOK, AcceptorOK, StartSession, clientVars
<1>4. InformingOK' /\ ByeOnceAndOnlyOnShutdown'
  BY DEF IInv, InformingOK, ByeOnceAndOnlyOnShutdown, StartSession, clientVars
<1>5. DueOK' /\ InformedBeforeReturn'
  BY DEF IInv, DueOK, InformedBeforeReturn, Notifying, StartSession, clientVars
<1> QED
  BY <1>1, <1>2, <1>3, <1>4, <1>5 DEF IInv

\* An acceptor that fails leaves its connection listed if it was.
LEMMA AcceptorFailsOK ==
    ASSUME IInv, AcceptorFails
    PROVE  IInv'
<1>1. TypeOK'
  BY DEF IInv, TypeOK, AcceptorStates, AcceptorFails, clientVars
<1>2. AcceptorOK' /\ ActiveAreSessions'
  BY ClientsAssumption DEF IInv, AcceptorOK, ActiveAreSessions, AcceptorFails
<1>3. MutexOK' /\ LinkOK'
  BY DEF IInv, MutexOK, LinkOK, AcceptorFails, clientVars
<1>4. InformingOK' /\ ByeOnceAndOnlyOnShutdown'
  BY DEF IInv, InformingOK, ByeOnceAndOnlyOnShutdown, AcceptorFails, clientVars
<1>5. DueOK' /\ InformedBeforeReturn'
  BY DEF IInv, DueOK, InformedBeforeReturn, Notifying, AcceptorFails, clientVars
<1> QED
  BY <1>1, <1>2, <1>3, <1>4, <1>5 DEF IInv

\* A connection that opens has a thread, and was not open when main looked.
LEMMA HandshakeOK ==
    ASSUME IInv, NEW c \in Clients, Handshake(c)
    PROVE  IInv'
<1>1. TypeOK'
  BY DEF IInv, TypeOK, SessionStates, LinkStates, Handshake
<1>2. AcceptorOK' /\ ActiveAreSessions'
  BY DEF IInv, AcceptorOK, ActiveAreSessions, Handshake
<1>3. MutexOK' /\ LinkOK'
  BY DEF IInv, MutexOK, LinkOK, TypeOK, Handshake
<1>4. InformingOK' /\ ByeOnceAndOnlyOnShutdown'
  BY DEF IInv, InformingOK, ByeOnceAndOnlyOnShutdown, Handshake
<1>5. DueOK' /\ InformedBeforeReturn'
  BY DEF IInv, DueOK, InformedBeforeReturn, Notifying, Handshake
<1> QED
  BY <1>1, <1>2, <1>3, <1>4, <1>5 DEF IInv

\* A thread leaves its loop only when its connection is closed.
LEMMA ConnectionLostOK ==
    ASSUME IInv, NEW c \in Clients, ConnectionLost(c)
    PROVE  IInv'
<1>1. TypeOK'
  BY DEF IInv, TypeOK, SessionStates, ConnectionLost, clientVars
<1>2. AcceptorOK' /\ ActiveAreSessions'
  BY DEF IInv, AcceptorOK, ActiveAreSessions, ConnectionLost
<1>3. MutexOK' /\ LinkOK'
  BY DEF IInv, MutexOK, LinkOK, ConnectionLost, clientVars
<1>4. InformingOK' /\ ByeOnceAndOnlyOnShutdown'
  BY DEF IInv, InformingOK, ByeOnceAndOnlyOnShutdown, ConnectionLost, clientVars
<1>5. DueOK' /\ InformedBeforeReturn'
  BY DEF IInv, DueOK, InformedBeforeReturn, Notifying, ConnectionLost, clientVars
<1> QED
  BY <1>1, <1>2, <1>3, <1>4, <1>5 DEF IInv

\* A line that is read leaves the connection as it is.
LEMMA ReadRequestOK ==
    ASSUME IInv, NEW c \in Clients, ReadRequest(c)
    PROVE  IInv'
<1>1. TypeOK'
  <2>1. lines[c] \in Seq(Requests) /\ lines[c] # <<>>
    BY DEF IInv, TypeOK, ReadRequest
  <2>2. Head(lines[c]) \in Requests /\ Tail(lines[c]) \in Seq(Requests)
    BY <2>1
  <2>3. lines' \in [Clients -> Seq(Requests)]
    BY DEF IInv, TypeOK, ReadRequest
  <2>4. /\ session' \in [Clients -> SessionStates]
        /\ request' \in [Clients -> Requests \cup {Nobody}]
    <3>1. CASE Head(lines[c]) = "blank"
      BY <3>1 DEF IInv, TypeOK, ReadRequest
    <3>2. CASE Head(lines[c]) # "blank"
      <4> DEFINE line == Head(lines[c])
      <4>1. line \in Requests
        BY <2>2
      <4>2. /\ session' = [session EXCEPT ![c] = "locking"]
            /\ request' = [request EXCEPT ![c] = line]
        BY <3>2 DEF ReadRequest
      <4> HIDE DEF line
      <4> QED
        BY <4>1, <4>2 DEF IInv, TypeOK, SessionStates
    <3> QED
      BY <3>1, <3>2
  <2> QED
    BY <2>3, <2>4 DEF IInv, TypeOK, ReadRequest
<1>2. AcceptorOK' /\ ActiveAreSessions'
  BY DEF IInv, AcceptorOK, ActiveAreSessions, TypeOK, ReadRequest
<1>3. MutexOK' /\ LinkOK'
  BY DEF IInv, MutexOK, LinkOK, TypeOK, ReadRequest
<1>4. InformingOK' /\ ByeOnceAndOnlyOnShutdown'
  BY DEF IInv, InformingOK, ByeOnceAndOnlyOnShutdown, ReadRequest
<1>5. DueOK' /\ InformedBeforeReturn'
  BY DEF IInv, DueOK, InformedBeforeReturn, Notifying, ReadRequest
<1> QED
  BY <1>1, <1>2, <1>3, <1>4, <1>5 DEF IInv

\* A session takes its lock only when main does not hold it.
LEMMA LockForAnswerOK ==
    ASSUME IInv, NEW c \in Clients, LockForAnswer(c)
    PROVE  IInv'
<1>1. TypeOK'
  BY DEF IInv, TypeOK, SessionStates, LockForAnswer, clientVars
<1>2. AcceptorOK' /\ ActiveAreSessions'
  BY DEF IInv, AcceptorOK, ActiveAreSessions, LockForAnswer
<1>3. MutexOK' /\ LinkOK'
  BY DEF IInv, MutexOK, LinkOK, TypeOK, LockForAnswer, clientVars
<1>4. InformingOK' /\ ByeOnceAndOnlyOnShutdown'
  BY DEF IInv, InformingOK, ByeOnceAndOnlyOnShutdown, LockForAnswer, clientVars
<1>5. DueOK' /\ InformedBeforeReturn'
  BY DEF IInv, DueOK, InformedBeforeReturn, Notifying, LockForAnswer, clientVars
<1> QED
  BY <1>1, <1>2, <1>3, <1>4, <1>5 DEF IInv

\* A session gives its lock back.
LEMMA WriteAnswerOK ==
    ASSUME IInv, NEW c \in Clients, WriteAnswer(c)
    PROVE  IInv'
<1>1. TypeOK'
  <2>1. answers' \in [Clients -> Nat]
    BY DEF IInv, TypeOK, WriteAnswer, Delivered
  <2>2. /\ session' \in [Clients -> SessionStates]
        /\ request' \in [Clients -> Requests \cup {Nobody}]
    BY DEF IInv, TypeOK, SessionStates, WriteAnswer
  <2>3. mutex' \in [Clients -> {"free", "session", "main"}]
    BY DEF IInv, TypeOK, WriteAnswer
  <2> QED
    BY <2>1, <2>2, <2>3 DEF IInv, TypeOK, WriteAnswer
<1>2. AcceptorOK' /\ ActiveAreSessions'
  BY DEF IInv, AcceptorOK, ActiveAreSessions, TypeOK, WriteAnswer
<1>3. MutexOK' /\ LinkOK'
  BY DEF IInv, MutexOK, LinkOK, TypeOK, Running, WriteAnswer
<1>4. InformingOK' /\ ByeOnceAndOnlyOnShutdown'
  BY DEF IInv, InformingOK, ByeOnceAndOnlyOnShutdown, WriteAnswer
<1>5. DueOK' /\ InformedBeforeReturn'
  BY DEF IInv, DueOK, InformedBeforeReturn, Notifying, WriteAnswer
<1> QED
  BY <1>1, <1>2, <1>3, <1>4, <1>5 DEF IInv

\* The process ends at once, by quit or on a socket whose io_context is gone: no
\* thread is left to hold a lock, and main has not returned.
LEMMA DeathOK ==
    ASSUME IInv, UseOfDeadSocket \/ \E c \in Clients : Quit(c)
    PROVE  IInv'
<1>0. /\ main' = "exited" /\ DropLinks
      /\ UNCHANGED <<shutdownRequested, pending, informing, acceptor, accepting, active, session,
                     request, mutex, lines, asked, answers, byes, openAtShutdown>>
  BY DEF UseOfDeadSocket, Quit
<1>1. TypeOK'
  BY <1>0 DEF IInv, TypeOK, MainStates, LinkStates, DropLinks
<1>2. AcceptorOK' /\ ActiveAreSessions'
  BY <1>0 DEF IInv, AcceptorOK, ActiveAreSessions
<1>3. MutexOK' /\ LinkOK'
  BY <1>0 DEF MutexOK, LinkOK, Running
<1>4. InformingOK' /\ ByeOnceAndOnlyOnShutdown'
  BY <1>0 DEF IInv, InformingOK, ByeOnceAndOnlyOnShutdown
<1>5. DueOK' /\ InformedBeforeReturn'
  BY <1>0 DEF DueOK, InformedBeforeReturn, Notifying
<1> QED
  BY <1>1, <1>2, <1>3, <1>4, <1>5 DEF IInv

\* The thread that leaves the list is one that serves nobody.
LEMMA RemoveConnectionOK ==
    ASSUME IInv, NEW c \in Clients, RemoveConnection(c)
    PROVE  IInv'
<1>1. TypeOK'
  BY DEF IInv, TypeOK, SessionStates, RemoveConnection, clientVars
<1>2. AcceptorOK' /\ ActiveAreSessions'
  BY DEF IInv, AcceptorOK, ActiveAreSessions, TypeOK, RemoveConnection
<1>3. MutexOK' /\ LinkOK'
  BY DEF IInv, MutexOK, LinkOK, RemoveConnection, clientVars
<1>4. InformingOK' /\ ByeOnceAndOnlyOnShutdown'
  BY DEF IInv, InformingOK, ByeOnceAndOnlyOnShutdown, RemoveConnection, clientVars
<1>5. DueOK' /\ InformedBeforeReturn'
  BY DEF IInv, DueOK, InformedBeforeReturn, Notifying, RemoveConnection, clientVars
<1> QED
  BY <1>1, <1>2, <1>3, <1>4, <1>5 DEF IInv

\* Everybody who is connected is in the list that main copies.
LEMMA NoticeShutdownOK ==
    ASSUME IInv, NoticeShutdown
    PROVE  IInv'
<1>1. TypeOK'
  BY DEF IInv, TypeOK, MainStates, NoticeShutdown, clientVars
<1>2. AcceptorOK' /\ ActiveAreSessions'
  BY DEF IInv, AcceptorOK, ActiveAreSessions, NoticeShutdown
<1>3. MutexOK' /\ LinkOK'
  BY DEF IInv, MutexOK, LinkOK, Running, NoticeShutdown, clientVars
<1>4. InformingOK' /\ ByeOnceAndOnlyOnShutdown'
  BY ClientsAssumption DEF IInv, InformingOK, ByeOnceAndOnlyOnShutdown, TypeOK,
     NoticeShutdown, clientVars
<1>5. DueOK' /\ InformedBeforeReturn'
  BY DEF IInv, DueOK, InformedBeforeReturn, LinkOK, ActiveAreSessions, Running,
     NoticeShutdown, clientVars
<1> QED
  BY <1>1, <1>2, <1>3, <1>4, <1>5 DEF IInv

\* The next client moves from those pending to the one being informed.
LEMMA NextClientOK ==
    ASSUME IInv, NEW c \in Clients, NextClient(c)
    PROVE  IInv'
<1>1. TypeOK'
  BY DEF IInv, TypeOK, MainStates, NextClient, clientVars
<1>2. AcceptorOK' /\ ActiveAreSessions'
  BY DEF IInv, AcceptorOK, ActiveAreSessions, NextClient
<1>3. MutexOK' /\ LinkOK'
  BY DEF IInv, MutexOK, LinkOK, Running, NextClient, clientVars
<1>4. InformingOK' /\ ByeOnceAndOnlyOnShutdown'
  BY DEF IInv, InformingOK, ByeOnceAndOnlyOnShutdown, NextClient, clientVars
<1>5. DueOK' /\ InformedBeforeReturn'
  BY ClientsAssumption DEF IInv, DueOK, InformedBeforeReturn, TypeOK, InformingOK,
     Notifying, NextClient, clientVars
<1> QED
  BY <1>1, <1>2, <1>3, <1>4, <1>5 DEF IInv

\* Main takes the lock of the client it informs, when the session does not hold it.
LEMMA LockForByeOK ==
    ASSUME IInv, LockForBye
    PROVE  IInv'
<1>1. TypeOK'
  BY DEF IInv, TypeOK, MainStates, LockForBye, clientVars
<1>2. AcceptorOK' /\ ActiveAreSessions'
  BY DEF IInv, AcceptorOK, ActiveAreSessions, LockForBye
<1>3. MutexOK' /\ LinkOK'
  BY DEF IInv, MutexOK, LinkOK, TypeOK, Running, LockForBye, clientVars
<1>4. InformingOK' /\ ByeOnceAndOnlyOnShutdown'
  BY DEF IInv, InformingOK, ByeOnceAndOnlyOnShutdown, LockForBye, clientVars
<1>5. DueOK' /\ InformedBeforeReturn'
  BY DEF IInv, DueOK, InformedBeforeReturn, Notifying, LockForBye, clientVars
<1> QED
  BY <1>1, <1>2, <1>3, <1>4, <1>5 DEF IInv

\* The client being informed has the message, or has gone.
LEMMA WriteByeOK ==
    ASSUME IInv, WriteBye
    PROVE  IInv'
<1>1. TypeOK'
  BY DEF IInv, TypeOK, MainStates, InformingOK, WriteBye, Delivered
<1>2. AcceptorOK' /\ ActiveAreSessions'
  BY DEF IInv, AcceptorOK, ActiveAreSessions, WriteBye
<1>3. MutexOK' /\ LinkOK'
  BY DEF IInv, MutexOK, LinkOK, TypeOK, Running, WriteBye
<1>4. InformingOK' /\ ByeOnceAndOnlyOnShutdown'
  BY ClientsAssumption DEF IInv, InformingOK, ByeOnceAndOnlyOnShutdown, TypeOK,
     WriteBye, Delivered
<1>5. DueOK' /\ InformedBeforeReturn'
  BY DEF IInv, DueOK, InformedBeforeReturn, TypeOK, InformingOK, Notifying, WriteBye,
     Delivered
<1> QED
  BY <1>1, <1>2, <1>3, <1>4, <1>5 DEF IInv

\* Main returns when nobody is pending.
LEMMA MainReturnsOK ==
    ASSUME IInv, MainReturns
    PROVE  IInv'
<1>1. TypeOK'
  BY DEF IInv, TypeOK, MainStates, LinkStates, MainReturns, DropLinks
<1>2. AcceptorOK' /\ ActiveAreSessions'
  BY DEF IInv, AcceptorOK, ActiveAreSessions, MainReturns
<1>3. MutexOK' /\ LinkOK'
  BY DEF IInv, MutexOK, LinkOK, Running, MainReturns
<1>4. InformingOK' /\ ByeOnceAndOnlyOnShutdown'
  BY DEF IInv, InformingOK, ByeOnceAndOnlyOnShutdown, MainReturns
<1>5. DueOK' /\ InformedBeforeReturn'
  BY ClientsAssumption DEF IInv, DueOK, InformedBeforeReturn, TypeOK, InformingOK,
     Notifying, MainReturns, DropLinks
<1> QED
  BY <1>1, <1>2, <1>3, <1>4, <1>5 DEF IInv

-----------------------------------------------------------------------------
LEMMA InitOK == ASSUME Init PROVE IInv
<1>1. TypeOK
  <2>1. <<>> \in Seq(Requests)
    OBVIOUS
  <2>2. lines \in [Clients -> Seq(Requests)]
    BY <2>1 DEF Init
  <2> QED
    BY <2>2 DEF Init, TypeOK, MainStates, AcceptorStates, SessionStates, LinkStates
<1>2. AcceptorOK /\ ActiveAreSessions
  BY DEF Init, AcceptorOK, ActiveAreSessions
<1>3. MutexOK /\ LinkOK
  BY ClientsAssumption DEF Init, MutexOK, LinkOK
<1>4. InformingOK /\ ByeOnceAndOnlyOnShutdown
  BY DEF Init, InformingOK, ByeOnceAndOnlyOnShutdown
<1>5. DueOK /\ InformedBeforeReturn
  BY DEF Init, DueOK, InformedBeforeReturn, Notifying
<1> QED
  BY <1>1, <1>2, <1>3, <1>4, <1>5 DEF IInv

LEMMA NextOK == ASSUME IInv, [Next]_vars PROVE IInv'
<1>1. CASE Signal
  BY <1>1, SignalOK
<1>2. ASSUME NEW c \in Clients, ClientStep(c) PROVE IInv'
  BY <1>2, ClientConnectsOK, ClientSendsOK, ClientClosesOK DEF ClientStep
<1>3. ASSUME NEW c \in Clients, Handshake(c) PROVE IInv'
  BY <1>3, HandshakeOK
<1>4. ASSUME NEW c \in Clients, SessionStep(c) PROVE IInv'
  BY <1>4, ConnectionLostOK, ReadRequestOK, LockForAnswerOK, WriteAnswerOK, DeathOK,
     RemoveConnectionOK DEF SessionStep
<1>5. CASE AcceptorStep
  BY <1>5, BindOK, AcceptOK, AddConnectionOK, StartSessionOK DEF AcceptorStep
<1>6. CASE AcceptorFails
  BY <1>6, AcceptorFailsOK
<1>7. CASE MainStep
  BY <1>7, NoticeShutdownOK, NextClientOK, LockForByeOK, WriteByeOK, MainReturnsOK
     DEF MainStep
<1>8. CASE UseOfDeadSocket
  BY <1>8, DeathOK
<1>9. CASE UNCHANGED vars
  BY <1>9 DEF IInv, TypeOK, AcceptorOK, ActiveAreSessions, MutexOK, LinkOK, InformingOK,
              DueOK, ByeOnceAndOnlyOnShutdown, InformedBeforeReturn, Notifying, Running,
              vars, threadVars, clientVars
<1> QED
  BY <1>1, <1>2, <1>3, <1>4, <1>5, <1>6, <1>7, <1>8, <1>9 DEF Next

\* The inductive invariant holds in every reachable state.
THEOREM ServerInvariant == Spec => []IInv
<1>1. Init => IInv
  BY InitOK
<1>2. IInv /\ [Next]_vars => IInv'
  BY NextOK
<1> QED
  BY <1>1, <1>2, PTL DEF Spec

\* Every variable of the server keeps its type (interactiveLoopWebsocket and the
\* sessions of FepControlWebsocket).
THEOREM TypeCorrect == Spec => []TypeOK
<1>1. IInv => TypeOK
  BY DEF IInv
<1> QED
  BY <1>1, ServerInvariant, PTL

\* The vector of active connections is that of the sessions that may still write
\* (addConnection before the thread starts, removeConnection after its last read).
THEOREM ActiveCorrect == Spec => []ActiveAreSessions
<1>1. IInv => ActiveAreSessions
  BY DEF IInv
<1> QED
  BY <1>1, ServerInvariant, PTL

\* No two threads write to a client at the same time (_mutex_write_output): the
\* one that writes holds the lock, and a lock has one holder.
THEOREM WritersExclude == Spec => []OneWriter
<1>1. IInv => OneWriter
  <2> SUFFICES ASSUME IInv, NEW c \in Clients,
                      session[c] = "writing", main = "writing", informing = c
               PROVE  FALSE
    BY DEF OneWriter
  <2>1. mutex[c] = "session" /\ mutex[c] = "main"
    BY DEF IInv, MutexOK, Running
  <2> QED
    BY <2>1
<1> QED
  BY <1>1, ServerInvariant, PTL

\* Nobody is told twice, and nobody before a shutdown is requested: main informs a
\* copy of the list in which each connection is once.
THEOREM ByeIsSaidOnce == Spec => []ByeOnceAndOnlyOnShutdown
<1>1. IInv => ByeOnceAndOnlyOnShutdown
  BY DEF IInv
<1> QED
  BY <1>1, ServerInvariant, PTL

\* Main does not return before all that were connected as it saw the flag were told
\* or have left, however many connect, ask and leave meanwhile.
THEOREM AllInformed == Spec => []InformedBeforeReturn
<1>1. IInv => InformedBeforeReturn
  BY DEF IInv
<1> QED
  BY <1>1, ServerInvariant, PTL

-----------------------------------------------------------------------------
(* No command is lost or answered twice                                       *)

\* Before the connection is open nothing was sent, and a session has a line exactly
\* while it executes it.
LinesOK ==
    /\ \A c \in Clients : link[c] \in {"idle", "connected"} =>
                              lines[c] = <<>> /\ asked[c] = 0 /\ answers[c] = 0
    /\ Running => \A c \in Clients :
                     request[c] # Nobody <=> session[c] \in {"locking", "writing"}

CInv == LinesOK /\ EveryCommandOnce

\* What one connection is about: its place in the count of commands.
OnceFor(c) ==
    link[c] = "open" => asked[c] = answers[c] + (IF request[c] # Nobody THEN 1 ELSE 0)
                                     + Count(lines[c], Requests \ {"blank"})

LEMMA CInitOK == Init => CInv
BY DEF Init, CInv, LinesOK, EveryCommandOnce

\* A step that leaves the count of a connection alone.
LEMMA SameCount ==
    ASSUME CInv, UNCHANGED <<lines, asked, answers, request>>,
           \A c \in Clients : link'[c] = "open" => link[c] = "open"
    PROVE  EveryCommandOnce'
BY DEF CInv, EveryCommandOnce

LEMMA QuietSteps ==
    ASSUME IInv, CInv,
           \/ Signal \/ AcceptorStep \/ AcceptorFails \/ UseOfDeadSocket \/ MainStep
           \/ \E c \in Clients : \/ ClientConnects(c) \/ ClientCloses(c)
                                 \/ ConnectionLost(c) \/ LockForAnswer(c) \/ RemoveConnection(c)
                                 \/ Quit(c)
           \/ UNCHANGED vars
    PROVE  CInv'
<1>1. CASE Signal \/ UNCHANGED vars
  BY <1>1 DEF CInv, LinesOK, EveryCommandOnce, Running, Signal, vars, threadVars, clientVars
<1>2. CASE AcceptorStep \/ AcceptorFails
  <2>1. EveryCommandOnce'
    BY <1>2, SameCount DEF AcceptorStep, AcceptorFails, Bind, Accept, AddConnection, StartSession,
                           clientVars
  <2>2. LinesOK'
    BY <1>2 DEF CInv, LinesOK, IInv, TypeOK, AcceptorOK, Running, AcceptorStep, AcceptorFails, Bind,
                Accept, AddConnection, StartSession, clientVars
  <2> QED  BY <2>1, <2>2 DEF CInv
<1>3. CASE MainStep
  <2>1. EveryCommandOnce'
    BY <1>3, SameCount DEF IInv, TypeOK, MainStep, NoticeShutdown, LockForBye, WriteBye,
                           MainReturns, NextClient, DropLinks, clientVars
  <2>2. LinesOK'
    BY <1>3 DEF CInv, LinesOK, IInv, TypeOK, Running, MainStep, NoticeShutdown, LockForBye,
                WriteBye, MainReturns, NextClient, DropLinks, clientVars
  <2> QED  BY <2>1, <2>2 DEF CInv
<1>4. ASSUME NEW c \in Clients, ClientConnects(c) \/ ClientCloses(c) PROVE CInv'
  <2>1. EveryCommandOnce'
    BY <1>4, SameCount DEF IInv, TypeOK, ClientConnects, ClientCloses, threadVars
  <2>2. LinesOK'
    BY <1>4 DEF CInv, LinesOK, IInv, TypeOK, Running, ClientConnects, ClientCloses, threadVars
  <2> QED  BY <2>1, <2>2 DEF CInv
<1>5. ASSUME NEW c \in Clients, ConnectionLost(c) \/ LockForAnswer(c) \/ RemoveConnection(c)
      PROVE  CInv'
  <2>1. EveryCommandOnce'
    BY <1>5, SameCount DEF ConnectionLost, LockForAnswer, RemoveConnection, clientVars
  <2>2. LinesOK'
    BY <1>5 DEF CInv, LinesOK, IInv, TypeOK, Running, ConnectionLost, LockForAnswer,
                RemoveConnection, clientVars
  <2> QED  BY <2>1, <2>2 DEF CInv
<1>6. CASE UseOfDeadSocket \/ \E c \in Clients : Quit(c)
  <2>1. /\ main' = "exited" /\ DropLinks
        /\ UNCHANGED <<request, lines, asked, answers>>
    BY <1>6 DEF UseOfDeadSocket, Quit
  <2>2. EveryCommandOnce'
    BY <2>1, SameCount DEF DropLinks
  <2>3. LinesOK'
    BY <2>1 DEF CInv, LinesOK, Running, DropLinks
  <2> QED  BY <2>2, <2>3 DEF CInv
<1> QED  BY <1>1, <1>2, <1>3, <1>4, <1>5, <1>6

LEMMA HandshakeCounts ==
    ASSUME IInv, CInv, NEW c \in Clients, Handshake(c)
    PROVE  CInv'
<1>1. LinesOK'
  BY DEF CInv, LinesOK, IInv, TypeOK, Running, Handshake
<1>2. EveryCommandOnce'
  <2>1. Count(<<>>, Requests \ {"blank"}) = 0  BY CountOfEmpty
  <2>2. request[c] = Nobody /\ lines[c] = <<>> /\ asked[c] = 0 /\ answers[c] = 0
    BY DEF CInv, LinesOK, Running, Handshake
  <2>3. OnceFor(c)'  BY <2>1, <2>2 DEF OnceFor, Handshake
  <2>4. \A d \in Clients \ {c} : OnceFor(d)'
    BY DEF OnceFor, CInv, EveryCommandOnce, IInv, TypeOK, Handshake
  <2> QED  BY <2>3, <2>4 DEF EveryCommandOnce, OnceFor
<1> QED  BY <1>1, <1>2 DEF CInv

LEMMA SendCounts ==
    ASSUME IInv, CInv, NEW c \in Clients, NEW line \in Requests, ClientSends(c, line)
    PROVE  CInv'
<1> DEFINE X == Requests \ {"blank"}
<1>1. LinesOK'
  BY DEF CInv, LinesOK, IInv, TypeOK, Running, ClientSends, threadVars
<1>2. lines[c] \in Seq(Requests)  BY DEF IInv, TypeOK
<1>3. Count(Append(lines[c], line), X) = Count(lines[c], X) + (IF line \in X THEN 1 ELSE 0)
  <2> HIDE DEF X
  <2> QED  BY <1>2, CountOfAppend, Zenon
<1>4. Count(lines[c], X) \in Nat  BY <1>2, CountBounds, Zenon
<1>5. /\ asked[c] \in Nat /\ answers[c] \in Nat /\ link[c] = "open" /\ link' = link
      /\ asked'[c] = asked[c] + (IF line \in X THEN 1 ELSE 0)
      /\ lines'[c] = Append(lines[c], line) /\ UNCHANGED <<answers, request>>
      /\ \A d \in Clients \ {c} : lines'[d] = lines[d] /\ asked'[d] = asked[d]
  BY DEF IInv, TypeOK, ClientSends, threadVars
<1>6. asked[c] = answers[c] + (IF request[c] # Nobody THEN 1 ELSE 0) + Count(lines[c], X)
  BY <1>5 DEF CInv, EveryCommandOnce
<1> HIDE DEF X
<1>7. asked[c] + (IF line \in X THEN 1 ELSE 0)
        = answers[c] + (IF request[c] # Nobody THEN 1 ELSE 0) + Count(Append(lines[c], line), X)
  BY <1>3, <1>4, <1>5, <1>6
<1>8. OnceFor(c)'  BY <1>5, <1>7 DEF OnceFor, X
<1>9. \A d \in Clients \ {c} : OnceFor(d)'  BY <1>5 DEF OnceFor, CInv, EveryCommandOnce
<1> QED  BY <1>1, <1>8, <1>9 DEF CInv, EveryCommandOnce, OnceFor

LEMMA ReadCounts ==
    ASSUME IInv, CInv, NEW c \in Clients, ReadRequest(c)
    PROVE  CInv'
<1> DEFINE X == Requests \ {"blank"}
           line == Head(lines[c])
<1>1. lines[c] \in Seq(Requests) /\ lines[c] # <<>>  BY DEF IInv, TypeOK, ReadRequest
<1>2. line \in Requests  BY <1>1
<1>3. Count(lines[c], X) = Count(Tail(lines[c]), X) + (IF line \in X THEN 1 ELSE 0)
  BY <1>1, CountOfTail, Zenon
<1>4. Tail(lines[c]) \in Seq(Requests)  BY <1>1
<1>5. Count(Tail(lines[c]), X) \in Nat  BY <1>4, CountBounds, Zenon
<1>6. /\ answers[c] \in Nat /\ request[c] = Nobody
      /\ lines'[c] = Tail(lines[c]) /\ UNCHANGED <<answers, asked, link>>
      /\ \A d \in Clients \ {c} : lines'[d] = lines[d] /\ request'[d] = request[d]
  BY DEF IInv, TypeOK, CInv, LinesOK, Running, ReadRequest
<1>7. request'[c] # Nobody <=> line \in X
  <2> HIDE DEF line
  <2>1. request' = IF line = "blank" THEN request ELSE [request EXCEPT ![c] = line]
    BY DEF ReadRequest, line
  <2> QED  BY <1>2, <1>6, <2>1, ClientsAssumption DEF IInv, TypeOK
<1>8. LinesOK'
  <2> HIDE DEF line
  <2>1. request' = IF line = "blank" THEN request ELSE [request EXCEPT ![c] = line]
    BY DEF ReadRequest, line
  <2>2. session' = IF line = "blank" THEN session ELSE [session EXCEPT ![c] = "locking"]
    BY DEF ReadRequest, line
  <2>3. link[c] \notin {"idle", "connected"} /\ session[c] = "reading" /\ main' = main
    BY <1>1 DEF CInv, LinesOK, ReadRequest
  <2> QED  BY <1>2, <1>6, <1>7, <2>1, <2>2, <2>3, ClientsAssumption
           DEF IInv, TypeOK, CInv, LinesOK, Running
<1> HIDE DEF X, line
<1>9. link[c] = "open" => asked[c] = answers[c] + Count(lines[c], X)
  BY <1>3, <1>5, <1>6 DEF CInv, EveryCommandOnce, X
<1>10. link[c] = "open" =>
          asked[c] = answers[c] + (IF line \in X THEN 1 ELSE 0) + Count(Tail(lines[c]), X)
  BY <1>3, <1>5, <1>6, <1>9
<1>11. OnceFor(c)'  BY <1>6, <1>7, <1>10 DEF OnceFor, X
<1>12. \A d \in Clients \ {c} : OnceFor(d)'  BY <1>6 DEF OnceFor, CInv, EveryCommandOnce
<1> QED  BY <1>8, <1>11, <1>12 DEF CInv, EveryCommandOnce, OnceFor

LEMMA AnswerCounts ==
    ASSUME IInv, CInv, NEW c \in Clients, WriteAnswer(c)
    PROVE  CInv'
<1> DEFINE X == Requests \ {"blank"}
<1>1. Count(lines[c], X) \in Nat
  BY CountBounds, Zenon DEF IInv, TypeOK
<1>2. LinesOK'
  BY DEF CInv, LinesOK, IInv, TypeOK, Running, WriteAnswer, Delivered
<1>3. /\ answers[c] \in Nat /\ request[c] # Nobody /\ request'[c] = Nobody
      /\ UNCHANGED <<lines, asked, link>>
      /\ link[c] = "open" => answers'[c] = answers[c] + 1
      /\ \A d \in Clients \ {c} : answers'[d] = answers[d] /\ request'[d] = request[d]
  BY DEF IInv, TypeOK, CInv, LinesOK, Running, WriteAnswer, Delivered
<1> HIDE DEF X
<1>4. link[c] = "open" => asked[c] = (answers[c] + 1) + 0 + Count(lines[c], X)
  BY <1>1, <1>3 DEF CInv, EveryCommandOnce, X
<1>5. OnceFor(c)'  BY <1>3, <1>4 DEF OnceFor, X
<1>6. \A d \in Clients \ {c} : OnceFor(d)'  BY <1>3 DEF OnceFor, CInv, EveryCommandOnce
<1> QED  BY <1>2, <1>5, <1>6 DEF CInv, EveryCommandOnce, OnceFor

LEMMA CNextOK == ASSUME IInv, CInv, [Next]_vars PROVE CInv'
BY QuietSteps, HandshakeCounts, SendCounts, ReadCounts, AnswerCounts
   DEF Next, ClientStep, SessionStep

\* The input loop of a session: while its client stays connected each command is
\* unread, being executed or answered, whatever the other threads do.
THEOREM CommandsAreAnsweredOnce == Spec => []EveryCommandOnce
<1>1. Init => CInv  BY CInitOK
<1>2. IInv /\ CInv /\ [Next]_vars => CInv'  BY CNextOK
<1>3. CInv => EveryCommandOnce  BY DEF CInv
<1> QED  BY <1>1, <1>2, <1>3, ServerInvariant, PTL DEF Spec

-----------------------------------------------------------------------------
(* The server implements ShutdownNotice: what a client sees of a step.        *)

\* The steps no client sees: connections are as open as before, nobody is told,
\* and main does not enter or leave the part in which it informs.
LEMMA Unseen ==
    ASSUME \A c \in Clients : (link[c] = "open") <=> (link'[c] = "open"),
           UNCHANGED <<byes, openAtShutdown>>,
           main' = main \/ (Notifying /\ Notifying'),
           IInv
    PROVE  UNCHANGED Notice!vars
<1>1. openAtShutdown \subseteq Clients
  BY DEF IInv, TypeOK
<1>2. Notifying' = Notifying /\ (main' = "polling" <=> main = "polling")
        /\ (main' = "returned" <=> main = "returned")
  BY DEF Notifying
<1> QED
  BY <1>1, <1>2 DEF Notice!vars

LEMMA ClientSeen ==
    ASSUME IInv, NEW c \in Clients, ClientStep(c)
    PROVE  [Notice!Next]_Notice!vars
<1>1. CASE ClientConnects(c)
  BY <1>1, Unseen DEF IInv, TypeOK, ClientConnects, threadVars
<1>2. CASE ClientCloses(c) /\ link[c] = "open"
  <2>1. Notice!Disconnect(c)
    BY <1>2 DEF IInv, TypeOK, ClientCloses, threadVars, Notice!Disconnect, Notice!Open,
                MainStates, Running, Notifying
  <2> QED
    BY <2>1 DEF Notice!Next
<1>3. CASE ClientCloses(c) /\ link[c] # "open"
  BY <1>3, Unseen DEF IInv, TypeOK, ClientCloses, threadVars
<1>4. CASE \E line \in Requests : ClientSends(c, line)
  BY <1>4, Unseen DEF ClientSends, threadVars
<1> QED
  BY <1>1, <1>2, <1>3, <1>4 DEF ClientStep

LEMMA HandshakeSeen ==
    ASSUME IInv, NEW c \in Clients, Handshake(c)
    PROVE  [Notice!Next]_Notice!vars
<1>1. Notifying => c \notin openAtShutdown
  BY DEF IInv, DueOK, Handshake
<1>2. Notice!Connect(c)
  BY <1>1 DEF IInv, TypeOK, Handshake, Notice!Connect, Notice!Open, MainStates, Running,
              Notifying
<1> QED
  BY <1>2 DEF Notice!Next

LEMMA DeathSeen ==
    ASSUME IInv, UseOfDeadSocket \/ \E c \in Clients : Quit(c)
    PROVE  [Notice!Next]_Notice!vars
<1>1. /\ Running /\ main' = "exited" /\ DropLinks
      /\ UNCHANGED <<byes, openAtShutdown>>
  BY DEF UseOfDeadSocket, Quit
<1>2. Notice!Quit
  BY <1>1 DEF IInv, TypeOK, DropLinks, Notice!Quit, Notice!Open, MainStates, Running, Notifying
<1> QED
  BY <1>2 DEF Notice!Next

LEMMA SessionSeen ==
    ASSUME IInv, NEW c \in Clients, SessionStep(c)
    PROVE  [Notice!Next]_Notice!vars
<1>1. CASE ConnectionLost(c) \/ ReadRequest(c) \/ LockForAnswer(c) \/ RemoveConnection(c)
  BY <1>1, Unseen
     DEF ConnectionLost, ReadRequest, LockForAnswer, RemoveConnection, clientVars
<1>2. CASE WriteAnswer(c)
  BY <1>2, Unseen DEF WriteAnswer
<1>3. CASE Quit(c)
  BY <1>3, DeathSeen
<1> QED
  BY <1>1, <1>2, <1>3 DEF SessionStep

LEMMA MainSeen ==
    ASSUME IInv, MainStep
    PROVE  [Notice!Next]_Notice!vars
<1>1. CASE NoticeShutdown
  <2>1. \A c \in Clients : byes[c] = 0
    BY <1>1 DEF IInv, InformingOK, NoticeShutdown
  <2>2. Notice!Notice
    BY <1>1, <2>1 DEF NoticeShutdown, clientVars, Notice!Notice, Notifying
  <2> QED
    BY <2>2 DEF Notice!Next
<1>2. CASE LockForBye \/ \E c \in Clients : NextClient(c)
  BY <1>2, Unseen DEF LockForBye, NextClient, clientVars, Notifying
<1>3. CASE WriteBye /\ link[informing] = "open"
  <2>1. PICK c \in Clients : c = informing
    BY <1>3 DEF IInv, InformingOK, WriteBye
  <2>2. byes[c] = 0
    BY <1>3, <2>1 DEF IInv, InformingOK
  <2>3. /\ byes' = [byes EXCEPT ![c] = 1]
        /\ UNCHANGED <<link, openAtShutdown>>
        /\ main = "writing" /\ main' = "notifying"
    BY <1>3, <2>1, <2>2 DEF IInv, TypeOK, WriteBye, Delivered
  <2>4. Notice!Inform(c)
    BY <1>3, <2>1, <2>2, <2>3 DEF IInv, TypeOK, Notice!Inform, Notifying
  <2> QED
    BY <2>4 DEF Notice!Next
<1>4. CASE WriteBye /\ link[informing] # "open"
  BY <1>4, Unseen DEF WriteBye, Delivered, Notifying
<1>5. CASE MainReturns
  <2>1. \A c \in openAtShutdown : byes[c] = 1 \/ link[c] = "closed"
    BY <1>5, ClientsAssumption DEF IInv, TypeOK, DueOK, InformingOK, MainReturns, Notifying
  <2>2. \A c \in openAtShutdown : ~(link[c] = "open" /\ byes[c] = 0)
    BY <2>1
  <2>3. main = "notifying" /\ main' = "returned" /\ byes' = byes
    BY <1>5 DEF MainReturns
  <2>4. \A c \in Clients : link'[c] # "open"
    BY <1>5 DEF MainReturns, DropLinks
  <2>5. Notice!End
    BY <2>2, <2>3, <2>4 DEF Notice!End, Notifying
  <2> QED
    BY <2>5 DEF Notice!Next
<1> QED
  BY <1>1, <1>2, <1>3, <1>4, <1>5 DEF MainStep

LEMMA StepSeen ==
    ASSUME IInv, [Next]_vars
    PROVE  [Notice!Next]_Notice!vars
<1>1. CASE Signal \/ AcceptorStep \/ AcceptorFails
  BY <1>1, Unseen DEF Signal, AcceptorStep, AcceptorFails, Bind, Accept, AddConnection,
                      StartSession, threadVars, clientVars
<1>2. CASE UNCHANGED vars
  BY <1>2, Unseen DEF vars, threadVars, clientVars
<1> QED
  BY <1>1, <1>2, ClientSeen, HandshakeSeen, SessionSeen, DeathSeen, MainSeen DEF Next

\* The websocket server implements the promise about its end: whoever is connected
\* as the shutdown is noticed is told before it, unless he goes, somebody quits or the
\* process dies with its acceptor.
THEOREM ServerImplementsNotice == Spec => ImplementsShutdownNotice
<1>1. Init => Notice!Init
  BY DEF Init, Notice!Init, Notifying
<1>2. IInv /\ [Next]_vars => [Notice!Next]_Notice!vars
  BY StepSeen
<1> QED
  BY <1>1, <1>2, ServerInvariant, PTL DEF Spec, Notice!Spec, ImplementsShutdownNotice
=============================================================================
