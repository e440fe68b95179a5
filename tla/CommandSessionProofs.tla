------------------------ MODULE CommandSessionProofs ------------------------
(* Theorems of CommandSession: what of fep_control's options, its exit status *)
(* and its answers holds for command lines of any length.  The argument has   *)
(* two halves: what the table of commands lets come of one line (the lemmas on*)
(* Processed), and what the parsing has seen when it stops (IInv).            *)
EXTENDS CommandSession, TLAPS

-----------------------------------------------------------------------------
(* What may come of a line *)

\* A command that failed after an error answer and returns success all the same.
Forgiven == Outcome(<<"error">>, 0, "returns")

Endings == {Note, Error, Throws, Silent(0), Silent(1), Forgiven,
            Outcome(<<"note">>, 0, "exits"),
            Outcome(<<"error">>, -2, "returns"), Outcome(<<"error">>, -3, "returns")}

\* A line of a command has as many arguments as its table entry, or as many less as are
\* optional; the handlers read as many.
LEMMA TableOK ==
    ASSUME NEW c, NEW n \in Nat, Accepted(c, n)
    PROVE  Len(Reads(c, n)) = n
<1> USE DEF QuitCommands, ModeCommands, SystemStateCommands, MonitoringCommands,
            ParticipantStateCommands, GetPriorityCommands, SetPriorityCommands
<1>1. CASE c = "callRPC"
  <2>1. Len(Offered(c)) = 6 /\ Optional(c) = 1
    BY <1>1 DEF Offered, Optional
  <2>2. n = 5 \/ n = 6
    BY <2>1 DEF Accepted
  <2>3. CASE n = 5
    <3>1. Reads(c, n) = <<"system", "participant">> \o <<"object", "interface", "function">> \o <<>>
      BY <1>1, <2>3 DEF Reads
    <3> QED  BY <3>1, <2>3
  <2>4. CASE n = 6
    <3>1. Reads(c, n) = <<"system", "participant">> \o <<"object", "interface", "function">>
                          \o <<"value">>
      BY <1>1, <2>4 DEF Reads
    <3> QED  BY <3>1, <2>4
  <2> QED  BY <2>2, <2>3, <2>4
<1>2. CASE c = "help"
  <2>1. Len(Offered(c)) = 1 /\ Optional(c) = 1
    BY <1>2 DEF Offered, Optional
  <2> QED  BY <1>2, <2>1 DEF Accepted, Reads
<1>3. CASE c \notin {"callRPC", "help"}
  <2>1. n = Len(Offered(c)) \/ Len(Offered(c)) \notin Nat
    BY <1>3 DEF Accepted, Optional
  <2>2. CASE c \in QuitCommands \cup ModeCommands \cup
               {"discoverAllSystems", "getCurrentWorkingDirectory"}
    <3>1. Offered(c) = <<>> /\ Reads(c, n) = <<>>
      BY <2>2 DEF Offered, Reads
    <3> QED  BY <2>1, <3>1
  <2>3. CASE c \in {"discoverSystem", "setCurrentWorkingDirectory", "getSystemState",
                    "getParticipants", "configureTiming3NoSync", "getCurrentTimingMaster"}
               \cup SystemStateCommands \cup MonitoringCommands
    <3>1. Len(Offered(c)) = 1 /\ Len(Reads(c, n)) = 1
      BY <2>3 DEF Offered, Reads
    <3> QED  BY <2>1, <3>1
  <2>4. CASE c = "setSystemState"
    <3>1. Len(Offered(c)) = 2 /\ Reads(c, n) = <<"system">> \o <<"state">>
      BY <2>4 DEF Offered, Reads
    <3> QED  BY <2>1, <3>1
  <2>5. CASE c \in ParticipantStateCommands \cup GetPriorityCommands \cup
               {"getParticipantPropertyNames", "getParticipantProperties",
                "getParticipantRPCObjects", "getParticipantState", "configureTiming3SystemTime"}
    <3>1. Len(Offered(c)) = 2 /\ Reads(c, n) = <<"system", "participant">>
      BY <2>5 DEF Offered, Reads
    <3> QED  BY <2>1, <3>1
  <2>6. CASE c \in SetPriorityCommands \cup {"getParticipantRPCObjectIIDs",
               "getParticipantProperty", "setParticipantState"}
    <3>1. Len(Offered(c)) = 3
      BY <2>6 DEF Offered
    <3>2. PICK x : Reads(c, n) = <<"system", "participant">> \o <<x>>
      BY <2>6 DEF Reads
    <3> QED  BY <2>1, <3>1, <3>2
  <2>7. CASE c \in {"setParticipantProperty", "getParticipantRPCObjectIIDDefinition",
                    "configureTiming3DiscreteTime"}
    <3>1. Len(Offered(c)) = 4
      BY <2>7 DEF Offered
    <3>2. PICK x, y : Reads(c, n) = <<"system", "participant">> \o <<x, y>>
      BY <2>7 DEF Reads
    <3> QED  BY <2>1, <3>1, <3>2
  <2> QED
    BY <1>3, <2>2, <2>3, <2>4, <2>5, <2>6, <2>7
       DEF Accepted, CommandNames, SystemCommands, PropertyCommands, RPCObjectCommands, TimingCommands
<1> QED  BY <1>1, <1>2, <1>3

\* The endings that need an explanation are not the others, nor each other.
Plain == {Note, Error, Outcome(<<"note">>, 0, "exits"),
          Outcome(<<"error">>, -2, "returns"), Outcome(<<"error">>, -3, "returns")}

LEMMA EndingsDiffer ==
    /\ \A o \in {Throws, Silent(0), Silent(1), Forgiven} : o \notin Plain
    /\ Throws \notin {Silent(0), Silent(1), Forgiven}
    /\ Silent(0) \notin {Silent(1), Forgiven}
    /\ Silent(1) # Forgiven
<1>1. <<>> # <<"note">> /\ <<>> # <<"error">> /\ <<"note">> # <<"error">>
  <2>1. Len(<<>>) = 0 /\ Len(<<"note">>) = 1 /\ Len(<<"error">>) = 1
    OBVIOUS
  <2>2. <<"note">>[1] = "note" /\ <<"error">>[1] = "error"
    OBVIOUS
  <2> QED  BY <2>1, <2>2
<1>2. ASSUME NEW a, NEW b, NEW x, NEW y, NEW e, NEW f, Outcome(a, x, e) = Outcome(b, y, f)
      PROVE  a = b /\ x = y /\ e = f
  <2>1. Outcome(a, x, e).answers = a /\ Outcome(a, x, e).status = x /\ Outcome(a, x, e).end = e
    BY DEF Outcome
  <2>2. Outcome(b, y, f).answers = b /\ Outcome(b, y, f).status = y /\ Outcome(b, y, f).end = f
    BY DEF Outcome
  <2> QED  BY <1>2, <2>1, <2>2
<1> QED
  BY <1>1, <1>2 DEF Plain, Note, Error, Throws, Silent, Forgiven

\* What a new session is.
LEMMA NewSessionOK ==
    ASSUME NEW j \in BOOLEAN
    PROVE  /\ NewSession(j) \in Sessions /\ NewSession(j).json = j
           /\ ~NewSession(j).autoDiscovery /\ ~NewSession(j).known
BY DEF NewSession, Sessions

\* What a handler makes of a system it has to look up, and of a participant.
LEMMA OnSystemOK ==
    ASSUME NEW s \in Sessions, NEW ends, NEW o \in OnSystem(s, ends)
    PROVE  o \in {Error, Throws} \/ (o \in ends /\ (s.autoDiscovery \/ s.known))
<1>1. CASE s.autoDiscovery \/ s.known
  BY <1>1 DEF OnSystem
<1>2. CASE ~s.autoDiscovery /\ ~s.known
  BY <1>2 DEF OnSystem
<1> QED  BY <1>1, <1>2

LEMMA OnParticipantOK ==
    ASSUME NEW s \in Sessions, NEW ends, NEW o \in OnParticipant(s, ends)
    PROVE  o \in {Error, Throws} \cup ends
BY OnSystemOK DEF OnParticipant

\* What may come of a line of any session: who is silent, who throws, and that only
\* a session that may know a system forgives an error.
LEMMA EndingsOK ==
    ASSUME NEW s \in Sessions, NEW c, NEW n \in Nat, NEW o \in Processed(s, c, n)
    PROVE  /\ o \in Endings
           /\ o = Throws => c \in SystemCommands \cup {"discoverAllSystems", "discoverSystem"}
           /\ o = Silent(0) => \/ c = "getParticipantPropertyNames" /\ n = 2
                               \/ c = "discoverAllSystems" /\ n = 0 /\ ~s.json
           /\ o = Silent(1) => c = "help" /\ n = 1
           /\ o = Forgiven => s.autoDiscovery \/ s.known
<1>1. CASE c \notin CommandNames \/ ~Accepted(c, n)
  <2>1. o \in Plain
    BY <1>1 DEF Processed, Plain
  <2> QED  BY <2>1, EndingsDiffer DEF Endings, Plain
<1>2. CASE c \in CommandNames /\ Accepted(c, n)
  <2> USE <1>2
  <2>1. o \in Handled(s, c, n)
    BY DEF Processed
  <2>2. CASE c \notin SystemCommands
    <3>1. \/ o \in Plain
          \/ o = Throws /\ c \in {"discoverAllSystems", "discoverSystem"}
          \/ o = Silent(0) /\ c = "discoverAllSystems" /\ ~s.json
          \/ o = Silent(1) /\ c = "help" /\ n # 0
      BY <2>1, <2>2 DEF Handled, CommandNames, SystemCommands, QuitCommands, ModeCommands, Quit,
          Discovery, WorkingDirectory, Help, Plain, SystemStateCommands, MonitoringCommands,
          TimingCommands, ParticipantStateCommands, GetPriorityCommands, SetPriorityCommands,
          PropertyCommands, RPCObjectCommands
    <3>2. (c = "help" => n \in {0, 1}) /\ (c = "discoverAllSystems" => n = 0)
      BY DEF Accepted, Offered, Optional, QuitCommands, ModeCommands, SystemStateCommands,
         MonitoringCommands, ParticipantStateCommands, GetPriorityCommands, SetPriorityCommands
    <3> QED  BY <3>1, <3>2, EndingsDiffer DEF Endings, Plain
  <2>3. CASE c \in SystemCommands
    <3>1. CASE c = "setSystemState"
      <4>1. o \in OnSystem(s, SetSystemState)
        BY <2>1, <3>1 DEF Handled, SystemCommands, QuitCommands, ModeCommands,
           SystemStateCommands, MonitoringCommands, TimingCommands, ParticipantStateCommands,
           GetPriorityCommands, SetPriorityCommands, PropertyCommands, RPCObjectCommands
      <4>2. SetSystemState = {Note, Error, Forgiven}
        BY DEF SetSystemState, ChangeStateMethod, GetSystemState, Note, Error, Forgiven, Outcome
      <4> QED  BY <2>3, <4>1, <4>2, OnSystemOK, EndingsDiffer DEF Endings, Plain
    <3>2. CASE c = "getParticipantPropertyNames"
      <4>1. o \in OnParticipant(s, PropertyNames)
        BY <2>1, <3>2 DEF Handled, SystemCommands, QuitCommands, ModeCommands,
           SystemStateCommands, MonitoringCommands, TimingCommands, ParticipantStateCommands,
           GetPriorityCommands, SetPriorityCommands, PropertyCommands, RPCObjectCommands
      <4>2. n = 2
        <5>1. Offered(c) = <<"system", "participant">> /\ Optional(c) = 0
          BY <3>2 DEF Offered, Optional, QuitCommands, ModeCommands, SystemStateCommands,
             MonitoringCommands, ParticipantStateCommands, GetPriorityCommands,
             SetPriorityCommands
        <5> QED  BY <5>1 DEF Accepted
      <4> QED
        BY <2>3, <3>2, <4>1, <4>2, OnParticipantOK, EndingsDiffer DEF Endings, Plain, PropertyNames
    <3>3. CASE c \notin {"setSystemState", "getParticipantPropertyNames"}
      <4>1. \E ends \in SUBSET {Note, Error, Throws} :
               o \in OnSystem(s, ends) \/ o \in OnParticipant(s, ends)
        BY <2>1, <2>3, <3>3 DEF Handled, SystemCommands, QuitCommands, ModeCommands,
           SystemStateCommands, MonitoringCommands, TimingCommands, ParticipantStateCommands,
           GetPriorityCommands, SetPriorityCommands, PropertyCommands, RPCObjectCommands,
           ChangeStateMethod, Monitoring, GetSystemState, Timing, DoParticipantStateChange,
           Priority, ParticipantState, Property, RPCObjects, CallRPC
      <4> QED  BY <2>3, <4>1, OnSystemOK, OnParticipantOK, EndingsDiffer DEF Endings, Plain
    <3> QED  BY <3>1, <3>2, <3>3
  <2> QED  BY <2>2, <2>3
<1> QED  BY <1>1, <1>2

\* What TAB offers for an argument is what the handler takes it for.
LEMMA OfferedOK ==
    ASSUME NEW c \in CommandNames, NEW i \in 1..Len(Offered(c)), Offered(c)[i] # "nothing"
    PROVE  Reads(c, Len(Offered(c)))[i] = Offered(c)[i]
<1> USE DEF QuitCommands, ModeCommands, SystemStateCommands, MonitoringCommands,
            ParticipantStateCommands, GetPriorityCommands, SetPriorityCommands
<1> DEFINE n == Len(Offered(c))
<1>1. CASE c \in QuitCommands \cup ModeCommands \cup
             {"discoverAllSystems", "getCurrentWorkingDirectory"}
  <2>1. Offered(c) = <<>>
    BY <1>1 DEF Offered
  <2> QED  BY <2>1
<1>2. CASE c \in {"discoverSystem", "setCurrentWorkingDirectory"}
  <2>1. Offered(c) = <<"nothing">>
    BY <1>2 DEF Offered
  <2> QED  BY <2>1
<1>3. CASE c = "help"
  <2>1. Offered(c) = <<"command">>
    BY <1>3 DEF Offered
  <2>2. n = 1
    BY <2>1
  <2>3. Reads(c, n) = <<"command">>
    BY <1>3, <2>2 DEF Reads
  <2> QED  BY <2>1, <2>3
<1>4. CASE c \in {"getSystemState", "getParticipants", "configureTiming3NoSync",
                  "getCurrentTimingMaster"} \cup SystemStateCommands \cup MonitoringCommands
  <2>1. Offered(c) = <<"system">> /\ Reads(c, n) = <<"system">>
    BY <1>4 DEF Offered, Reads
  <2> QED  BY <2>1
<1>5. CASE c = "setSystemState"
  <2>1. Offered(c) = <<"system", "state">> /\ Reads(c, n) = <<"system">> \o <<"state">>
    BY <1>5 DEF Offered, Reads
  <2>2. i = 1 \/ i = 2
    BY <2>1
  <2> QED  BY <2>1, <2>2
<1>6. CASE c \in ParticipantStateCommands \cup GetPriorityCommands \cup
             {"getParticipantPropertyNames", "getParticipantProperties",
              "getParticipantRPCObjects", "getParticipantState", "configureTiming3SystemTime"}
  <2>1. Offered(c) = <<"system", "participant">> /\ Reads(c, n) = <<"system", "participant">>
    BY <1>6 DEF Offered, Reads
  <2> QED  BY <2>1
<1>7. CASE c \in SetPriorityCommands \cup {"getParticipantRPCObjectIIDs",
             "getParticipantRPCObjectIIDDefinition", "configureTiming3DiscreteTime", "callRPC"}
  <2>1. i \in {1, 2} /\ Offered(c)[1] = "system" /\ Offered(c)[2] = "participant"
    <3>1. \/ Offered(c) = <<"system", "participant", "nothing">>
          \/ Offered(c) = <<"system", "participant", "nothing", "nothing">>
          \/ Offered(c) = <<"system", "participant", "nothing", "nothing", "nothing", "nothing">>
      BY <1>7 DEF Offered
    <3> QED  BY <3>1
  <2>2. CASE c # "callRPC"
    <3>1. CASE c \in SetPriorityCommands \cup {"getParticipantRPCObjectIIDs"}
      <4>1. PICK x : Reads(c, n) = <<"system", "participant">> \o <<x>>
        BY <3>1 DEF Reads
      <4> QED  BY <2>1, <4>1
    <3>2. CASE c \in {"getParticipantRPCObjectIIDDefinition", "configureTiming3DiscreteTime"}
      <4>1. PICK x, y : Reads(c, n) = <<"system", "participant">> \o <<x, y>>
        BY <3>2 DEF Reads
      <4> QED  BY <2>1, <4>1
    <3> QED  BY <1>7, <2>2, <3>1, <3>2
  <2>3. CASE c = "callRPC"
    <3>1. n = 6
      BY <2>3 DEF Offered
    <3>2. Reads(c, 6) = (<<"system", "participant">> \o <<"object", "interface", "function">>)
                        \o <<"value">>
      BY <2>3 DEF Reads
    <3> QED  BY <2>1, <3>1, <3>2
  <2> QED  BY <2>2, <2>3
<1>8. CASE c \in {"getParticipantProperty", "setParticipantState"}
  <2>1. PICK x \in {"property", "state"} :
             /\ Offered(c) = <<"system", "participant", x>>
             /\ Reads(c, n) = <<"system", "participant">> \o <<x>>
    BY <1>8 DEF Offered, Reads
  <2>2. i \in {1, 2, 3}
    BY <2>1
  <2> QED  BY <2>1, <2>2
<1>9. CASE c = "setParticipantProperty"
  <2>1. /\ Offered(c) = <<"system", "participant", "property", "nothing">>
        /\ Reads(c, n) = <<"system", "participant">> \o <<"property", "value">>
    BY <1>9 DEF Offered, Reads
  <2>2. i \in {1, 2, 3}
    BY <2>1
  <2> QED  BY <2>1, <2>2
<1> QED
  BY <1>1, <1>2, <1>3, <1>4, <1>5, <1>6, <1>7, <1>8, <1>9
     DEF CommandNames, SystemCommands, PropertyCommands, RPCObjectCommands, TimingCommands

\* "none" stands for no command, in a line and in an offer.
LEMMA NoneIsNoCommand == "none" \notin CommandNames \cup {Unknown}
BY DEF Unknown, CommandNames, SystemCommands, QuitCommands, ModeCommands, SystemStateCommands,
   MonitoringCommands, TimingCommands, ParticipantStateCommands, GetPriorityCommands,
   SetPriorityCommands, PropertyCommands, RPCObjectCommands

LEMMA KindsOK ==
    ASSUME NEW c \in CommandNames, NEW i \in 1..Len(Offered(c))
    PROVE  Offered(c)[i] \in {"nothing", "command", "system", "participant", "property", "state"}
<1>1. \/ Offered(c) \in {<<>>, <<"nothing">>, <<"command">>, <<"system">>, <<"system", "state">>,
                         <<"system", "participant">>, <<"system", "participant", "nothing">>}
      \/ Offered(c) = <<"system", "participant", "property">>
      \/ Offered(c) = <<"system", "participant", "state">>
      \/ Offered(c) = <<"system", "participant", "property", "nothing">>
      \/ Offered(c) = <<"system", "participant", "nothing", "nothing">>
      \/ Offered(c) = <<"system", "participant", "nothing", "nothing", "nothing", "nothing">>
  BY DEF Offered, CommandNames, SystemCommands, QuitCommands, ModeCommands, SystemStateCommands,
     MonitoringCommands, TimingCommands, ParticipantStateCommands, GetPriorityCommands,
     SetPriorityCommands, PropertyCommands, RPCObjectCommands
<1> QED  BY <1>1

-----------------------------------------------------------------------------
(* What the parsing has seen, and what the program does with it               *)

\* The flags are those of the arguments looked at, none of which executes.
SeenOK == /\ \A k \in 1..(position - 1) : arguments[k] # "execute"
          /\ jsonMode <=> \E k \in 1..(position - 1) : arguments[k] = "json"
          /\ operationMode = "WEBSOCKET" <=>
                \E k \in 1..(position - 1) : arguments[k] = "websocket"

\* The parsing stops at the end or at a command.
StoppedOK ==
    phase # "parsing" => \/ position = Len(arguments) + 1
                         \/ position \in DOMAIN arguments /\ arguments[position] = "execute"

SettledOK ==
    /\ phase = "server" => operationMode = "WEBSOCKET"
    /\ phase = "console" => operationMode = "COMMANDLINE" /\ (arguments = <<>> \/ jsonMode)
    /\ phase = "exited" => operationMode = "COMMANDLINE" /\ ~jsonMode
    /\ phase \in {"parsing", "deciding", "exited", "server"} => arguments # <<>>

\* One command at most is executed, and it is the one the parsing stopped at.
ExecutedOK ==
    /\ phase = "parsing" => executed = <<>> /\ line = NoLine
    /\ executed # <<>> =>
          /\ Len(executed) = 1
          /\ position \in DOMAIN arguments /\ arguments[position] = "execute"
          /\ executed[1].json <=> jsonMode
          /\ executed[1].command = SubSeq(arguments, position + 1, Len(arguments))

\* The result is that of the command until main has returned it.
ResultOK ==
    phase \in {"deciding", "exited"} =>
        IF result = 0
        THEN line # NoLine /\ "error" \notin ToSet(answers)
        ELSE line = NoLine \/ line.command = "help" \/ "error" \in ToSet(answers)

\* What TAB offers is what the table has at that place.
OfferOK ==
    offered.command \in CommandNames =>
        /\ offered.index \in 1..Len(Offered(offered.command))
        /\ offered.kind = Offered(offered.command)[offered.index]

\* Until the program settles the session is the one it would start with.
FreshOK == phase \in {"parsing", "deciding"} => session = NewSession(jsonMode)

ParseInv == SeenOK /\ StoppedOK /\ SettledOK /\ ExecutedOK
IInv == SessionTypeOK /\ ParseInv /\ ResultOK /\ AnsweredOnce /\ OfferOK /\ FreshOK

\* The options before the first command are the arguments the parsing has looked at.
LEMMA OptionsSeen ==
    ASSUME TypeOK, SeenOK, StoppedOK, phase # "parsing"
    PROVE  Options = {arguments[k] : k \in 1..(position - 1)}
<1> DEFINE first == {i \in DOMAIN arguments : arguments[i] = "execute"}
<1>0. arguments \in Seq(Arguments) /\ position \in 1..(Len(arguments) + 1)
  BY MaxArgumentsAssumption DEF TypeOK, BoundedSeq, SeqOf
<1>1. DOMAIN arguments = 1..Len(arguments)
  BY <1>0
<1>2. ASSUME NEW j \in DOMAIN arguments
      PROVE  (\A k \in first : j < k) <=> j \in 1..(position - 1)
  BY <1>0, <1>1 DEF SeenOK, StoppedOK
<1>3. 1..(position - 1) \subseteq DOMAIN arguments
  BY <1>0, <1>1
<1> QED  BY <1>2, <1>3 DEF Options

LEMMA InitOK == SessionInit => IInv
<1> SUFFICES ASSUME SessionInit PROVE IInv
  OBVIOUS
<1>1. arguments \in Seq(Arguments) /\ Len(arguments) \in Nat /\ position = 1
  BY MaxArgumentsAssumption DEF SessionInit, Init, BoundedSeq, SeqOf
<1>2. TypeOK
  <2>1. jsonMode \in BOOLEAN /\ autoDiscovery \in BOOLEAN
    BY DEF SessionInit, Init
  <2>2. executed \in Seq(Executions) /\ answers \in Seq({"note", "error"})
    BY DEF SessionInit, Init
  <2>3. line \in Lines /\ result \in -3..1
    BY DEF SessionInit, Init, Lines, NoLine
  <2>4. /\ arguments \in BoundedSeq(Arguments, MaxArguments)
        /\ position \in 1..(Len(arguments) + 1)
        /\ operationMode \in {"COMMANDLINE", "WEBSOCKET"} /\ phase \in Phases
    BY <1>1 DEF SessionInit, Init, Phases
  <2> QED  BY <2>1, <2>2, <2>3, <2>4, Zenon DEF TypeOK
<1>3. SessionTypeOK
  <2>1. session \in Sessions
    BY <1>2, NewSessionOK DEF SessionInit, TypeOK
  <2> QED  BY <1>2, <2>1 DEF SessionTypeOK, SessionInit, NothingOffered, Offers
<1>4. ParseInv
  BY <1>1 DEF SessionInit, Init, ParseInv, SeenOK, StoppedOK, SettledOK, ExecutedOK
<1>5. ResultOK /\ AnsweredOnce /\ FreshOK
  BY DEF SessionInit, Init, ResultOK, AnsweredOnce, FreshOK
<1>6. OfferOK
  BY NoneIsNoCommand DEF SessionInit, OfferOK, NothingOffered
<1> QED  BY <1>3, <1>4, <1>5, <1>6 DEF IInv

\* The arguments stay, and are finitely many.
LEMMA ArgumentsOK ==
    ASSUME TypeOK
    PROVE  /\ arguments \in Seq(Arguments) /\ Len(arguments) \in Nat
           /\ DOMAIN arguments = 1..Len(arguments)
           /\ position \in 1..(Len(arguments) + 1)
BY MaxArgumentsAssumption DEF TypeOK, BoundedSeq, SeqOf

LEMMA ParseFlagOK ==
    ASSUME IInv, NEW argument \in Arguments, ParseFlag(argument), session' = NewSession(jsonMode'), UNCHANGED offered
    PROVE  IInv'
<1>0. /\ phase = "parsing" /\ phase' = phase /\ arguments' = arguments /\ position' = position + 1
      /\ position <= Len(arguments) /\ arguments[position] = argument /\ argument # "execute"
      /\ executed' = executed /\ line' = line /\ answers' = answers /\ result' = result
  BY DEF ParseFlag, Look, outcomeVars
<1>1. TypeOK /\ position \in Nat \ {0} /\ Len(arguments) \in Nat
  BY ArgumentsOK DEF IInv, SessionTypeOK
<1>2. SessionTypeOK'
  <2>1. position' \in 1..(Len(arguments') + 1)
    BY <1>0, <1>1
  <2>2. /\ jsonMode' \in BOOLEAN /\ autoDiscovery' \in BOOLEAN
        /\ operationMode' \in {"COMMANDLINE", "WEBSOCKET"}
    BY <1>1 DEF ParseFlag, TypeOK
  <2>3. TypeOK'
    BY <1>0, <1>1, <2>1, <2>2, Zenon DEF TypeOK
  <2>4. session' \in Sessions
    BY <2>2, NewSessionOK, Zenon
  <2> QED  BY <2>3, <2>4, Zenon DEF IInv, SessionTypeOK
<1>3. SeenOK'
  <2>1. jsonMode' <=> jsonMode \/ argument = "json"
    BY Zenon DEF ParseFlag
  <2>2. operationMode' = "WEBSOCKET" <=> operationMode = "WEBSOCKET" \/ argument = "websocket"
    BY DEF ParseFlag
  <2>3. \A k \in 1..(position' - 1) : arguments'[k] # "execute"
    BY <1>0, <1>1 DEF IInv, ParseInv, SeenOK
  <2>4. \A a : (\E k \in 1..(position' - 1) : arguments'[k] = a) <=>
                  (\E k \in 1..(position - 1) : arguments[k] = a) \/ argument = a
    <3>1. ASSUME NEW m, m = position + 1, NEW a
          PROVE  (\E k \in 1..(m - 1) : arguments[k] = a) <=>
                    (\E k \in 1..(position - 1) : arguments[k] = a) \/ arguments[position] = a
      BY <1>1, <3>1
    <3> QED  BY <1>0, <3>1, Zenon
  <2> QED  BY <2>1, <2>2, <2>3, <2>4, Zenon DEF IInv, ParseInv, SeenOK
<1>4. ParseInv'
  BY <1>0, <1>3 DEF IInv, ParseInv, StoppedOK, SettledOK, ExecutedOK
<1>5. ResultOK' /\ OfferOK' /\ FreshOK'
  BY <1>0 DEF IInv, ResultOK, OfferOK, FreshOK
<1>6. AnsweredOnce'
  BY <1>0 DEF IInv, ParseInv, ExecutedOK, AnsweredOnce
<1> QED  BY <1>2, <1>4, <1>5, <1>6 DEF IInv

LEMMA ParsingEndsOK ==
    ASSUME IInv, ParsingEnds, session' = NewSession(jsonMode'), UNCHANGED offered
    PROVE  IInv'
<1>0. /\ phase = "parsing" /\ phase' = "deciding" /\ result' = -1 /\ position > Len(arguments)
      /\ line = NoLine
      /\ UNCHANGED <<arguments, position, jsonMode, operationMode, autoDiscovery, executed, line,
                     answers>>
  BY DEF ParsingEnds, IInv, ParseInv, ExecutedOK
<1>1. TypeOK /\ position = Len(arguments) + 1
  BY <1>0, ArgumentsOK DEF IInv, SessionTypeOK
<1>2. SessionTypeOK'
  <2>1. result' \in -3..1 /\ phase' \in Phases
    BY <1>0 DEF Phases
  <2>2. session' \in Sessions
    BY <1>0, <1>1, NewSessionOK DEF TypeOK
  <2> QED  BY <1>0, <1>1, <2>1, <2>2, Zenon DEF IInv, SessionTypeOK, TypeOK
<1>3. ParseInv'
  BY <1>0, <1>1 DEF IInv, ParseInv, SeenOK, StoppedOK, SettledOK, ExecutedOK
<1>4. ResultOK' /\ AnsweredOnce' /\ OfferOK' /\ FreshOK'
  BY <1>0 DEF IInv, ResultOK, AnsweredOnce, OfferOK, FreshOK
<1> QED  BY <1>2, <1>3, <1>4 DEF IInv

LEMMA DecideOK ==
    ASSUME IInv, Decide, session' = NewSession(jsonMode'), UNCHANGED offered
    PROVE  IInv'
<1>0. /\ phase = "deciding"
      /\ UNCHANGED <<arguments, position, jsonMode, operationMode, autoDiscovery, executed, result,
                     line, answers>>
  BY DEF Decide, outcomeVars
<1>1. /\ phase' \in {"exited", "server", "console"}
      /\ phase' = "exited" => operationMode = "COMMANDLINE" /\ ~jsonMode
      /\ phase' = "server" => operationMode = "WEBSOCKET"
      /\ phase' = "console" => operationMode # "WEBSOCKET" /\ jsonMode
  <2>1. CASE ~jsonMode /\ operationMode = "COMMANDLINE"
    <3>1. phase' = "exited"
      BY <2>1, Zenon DEF Decide
    <3> QED  BY <2>1, <3>1
  <2>2. CASE ~(~jsonMode /\ operationMode = "COMMANDLINE")
    <3>1. phase' = IF operationMode = "WEBSOCKET" THEN "server" ELSE "console"
      BY <2>2, Zenon DEF Decide, FoundExecuteCommand
    <3>2. operationMode \in {"COMMANDLINE", "WEBSOCKET"}
      BY DEF IInv, SessionTypeOK, TypeOK
    <3> QED  BY <2>2, <3>1, <3>2
  <2> QED  BY <2>1, <2>2
<1>5. session' = session
  BY <1>0 DEF IInv, FreshOK
<1>2. SessionTypeOK'
  <2>1. phase' \in Phases
    BY <1>1 DEF Phases
  <2> QED  BY <1>0, <1>5, <2>1, Zenon DEF IInv, SessionTypeOK, TypeOK
<1>3. ParseInv'
  <2>1. operationMode \in {"COMMANDLINE", "WEBSOCKET"}
    BY DEF IInv, SessionTypeOK, TypeOK
  <2> QED  BY <1>0, <1>1, <2>1 DEF IInv, ParseInv, SeenOK, StoppedOK, SettledOK, ExecutedOK
<1>4. ResultOK' /\ AnsweredOnce' /\ OfferOK' /\ FreshOK'
  BY <1>0, <1>1, <1>5 DEF IInv, ResultOK, AnsweredOnce, OfferOK, FreshOK
<1> QED  BY <1>2, <1>3, <1>4 DEF IInv

\* What every outcome is made of, and that only a silent one hides how it ended.
LEMMA OutcomeOK ==
    ASSUME NEW o \in Endings
    PROVE  /\ o.answers \in Seq({"note", "error"}) /\ o.status \in -3..1
           /\ o.end \in {"returns", "exits", "throws"}
           /\ o.end = "throws" => o = Throws
           /\ Len(o.answers) = 1 \/ (o.answers = <<>> /\ o \in {Throws, Silent(0), Silent(1)})
           /\ o.end = "returns" /\ o # Forgiven =>
                 IF o.status = 0 THEN "error" \notin ToSet(o.answers)
                 ELSE o = Silent(1) \/ "error" \in ToSet(o.answers)
<1>1. /\ <<"note">> \in Seq({"note", "error"}) /\ Len(<<"note">>) = 1
      /\ "error" \notin ToSet(<<"note">>)
  BY DEF ToSet
<1>2. /\ <<"error">> \in Seq({"note", "error"}) /\ Len(<<"error">>) = 1
      /\ "error" \in ToSet(<<"error">>)
  BY DEF ToSet
<1>3. <<>> \in Seq({"note", "error"}) /\ "error" \notin ToSet(<<>>)
  BY DEF ToSet
<1>4. \A a, x, e : /\ Outcome(a, x, e).answers = a
                  /\ Outcome(a, x, e).status = x /\ Outcome(a, x, e).end = e
  BY DEF Outcome
<1> HIDE DEF Outcome
<1>5. CASE o \in {Note, Outcome(<<"note">>, 0, "exits")}
  <2>1. o.answers = <<"note">> /\ o.status = 0 /\ o.end \in {"returns", "exits"}
    BY <1>4, <1>5 DEF Note
  <2> QED  BY <1>1, <2>1
<1>6. CASE o \in {Error, Outcome(<<"error">>, -2, "returns"), Outcome(<<"error">>, -3, "returns")}
  <2>1. o.answers = <<"error">> /\ o.status \in {1, -2, -3} /\ o.end = "returns"
    BY <1>4, <1>6 DEF Error
  <2> QED  BY <1>2, <2>1
<1>7. CASE o = Forgiven
  <2>1. o.answers = <<"error">> /\ o.status = 0 /\ o.end = "returns"
    BY <1>4, <1>7 DEF Forgiven
  <2> QED  BY <1>2, <1>7, <2>1
<1>8. CASE o = Throws
  <2>1. o.answers = <<>> /\ o.status = 0 /\ o.end = "throws"
    BY <1>4, <1>8 DEF Throws
  <2> QED  BY <1>3, <1>8, <2>1
<1>9. CASE o \in {Silent(0), Silent(1)}
  <2>1. o.answers = <<>> /\ o.status \in {0, 1} /\ o.end = "returns"
    BY <1>4, <1>9 DEF Silent
  <2>2. o.status = 1 => o = Silent(1)
    BY <1>4, <1>9 DEF Silent
  <2> QED  BY <1>3, <1>9, <2>1, <2>2
<1> QED  BY <1>5, <1>6, <1>7, <1>8, <1>9 DEF Endings

\* The session stays one.
LEMMA AfterOK ==
    ASSUME NEW s \in Sessions, NEW c, NEW n, NEW o, NEW t \in After(s, c, n, o)
    PROVE  t \in Sessions
<1>1. \A a \in BOOLEAN : /\ [s EXCEPT !.autoDiscovery = a] \in Sessions
                         /\ [s EXCEPT !.known = a] \in Sessions
                         /\ [s EXCEPT !.json = a] \in Sessions
  BY DEF Sessions
<1> QED  BY <1>1 DEF After

LEMMA ExecuteOK ==
    ASSUME IInv, Execute, session' = NewSession(jsonMode'), UNCHANGED offered
    PROVE  IInv'
<1> DEFINE command == SubSeq(arguments, position + 1, Len(arguments))
<1>0. /\ phase = "parsing" /\ position <= Len(arguments) /\ arguments[position] = "execute"
      /\ UNCHANGED <<arguments, position, jsonMode, operationMode, autoDiscovery>>
      /\ executed = <<>> /\ line = NoLine
  BY DEF Execute, Look, IInv, ParseInv, ExecutedOK
<1>1. /\ TypeOK /\ position \in DOMAIN arguments /\ arguments # <<>>
      /\ command \in Seq(Arguments) /\ Len(command) \in Nat
  BY <1>0, ArgumentsOK DEF IInv, SessionTypeOK
<1>2. SeenOK' /\ OfferOK' /\ FreshOK' /\ session' \in Sessions
  <2>1. session' \in Sessions
    BY <1>0, <1>1, NewSessionOK DEF TypeOK
  <2> QED  BY <1>0, <2>1 DEF IInv, ParseInv, SeenOK, OfferOK, FreshOK
<1>3. StoppedOK'
  BY <1>0, <1>1 DEF StoppedOK
<1>4. CASE command = <<>>
  <2>1. /\ phase' = "crashed"
        /\ UNCHANGED <<executed, result, line, answers>>
    BY <1>4 DEF Execute, outcomeVars
  <2>2. SessionTypeOK'
    <3>1. phase' \in Phases
      BY <2>1 DEF Phases
    <3> QED  BY <1>0, <1>2, <2>1, <3>1, Zenon DEF IInv, SessionTypeOK, TypeOK
  <2>3. SettledOK' /\ ExecutedOK' /\ ResultOK' /\ AnsweredOnce'
    BY <1>0, <2>1 DEF SettledOK, ExecutedOK, ResultOK, AnsweredOnce
  <2> QED  BY <1>2, <1>3, <2>2, <2>3 DEF IInv, ParseInv
<1>5. CASE command # <<>>
  <2> DEFINE execution == [json |-> jsonMode, command |-> command]
             n == Len(command) - 1
             opened == NewSession(jsonMode)
  <2>1. n \in Nat
    BY <1>1, <1>5
  <2>2. PICK c \in CommandNames \cup {Unknown} : \E o \in Processed(opened, c, n) :
          /\ executed' = Append(executed, execution)
          /\ line' = [command |-> c, count |-> n]
          /\ answers' = o.answers
          /\ result' = IF o.end = "returns" THEN o.status ELSE result
          /\ phase' = CASE o.end = "returns" -> "deciding"
                         [] o.end = "exits"   -> "quit"
                         [] o.end = "throws"  -> "crashed"
    BY <1>5 DEF Execute
  <2>20. PICK o \in Processed(opened, c, n) :
          /\ executed' = Append(executed, execution)
          /\ line' = [command |-> c, count |-> n]
          /\ answers' = o.answers
          /\ result' = IF o.end = "returns" THEN o.status ELSE result
          /\ phase' = CASE o.end = "returns" -> "deciding"
                         [] o.end = "exits"   -> "quit"
                         [] o.end = "throws"  -> "crashed"
    BY <2>2, Zenon
  <2>3. /\ opened \in Sessions /\ opened.json = jsonMode
        /\ ~(opened.autoDiscovery \/ opened.known)
    BY <1>1, NewSessionOK, Zenon DEF TypeOK
  <2>4. /\ o \in Endings /\ o # Forgiven
        /\ o = Throws => c \in SystemCommands \cup {"discoverAllSystems", "discoverSystem"}
        /\ o = Silent(0) => \/ c = "getParticipantPropertyNames" /\ n = 2
                            \/ c = "discoverAllSystems" /\ n = 0 /\ ~opened.json
        /\ o = Silent(1) => c = "help" /\ n = 1
    <3> HIDE DEF n, opened
    <3> QED  BY <2>1, <2>20, <2>3, EndingsOK, Zenon
  <2>5. /\ phase' \in {"deciding", "quit", "crashed"}
        /\ phase' = "deciding" => o.end = "returns"
        /\ o.end = "throws" => phase' = "crashed"
    BY <2>20, <2>4, OutcomeOK
  <2>6. execution \in Executions
    <3>1. jsonMode \in BOOLEAN
      BY <1>1 DEF TypeOK
    <3> HIDE DEF command
    <3> QED  BY <1>1, <3>1 DEF Executions
  <2>7. executed' = <<execution>>
    BY <1>0, <2>20
  <2>8. SessionTypeOK'
    <3>1. executed' \in Seq(Executions)
      <4> HIDE DEF execution
      <4> QED  BY <2>6, <2>7
    <3>2. line' \in Lines
      <4> HIDE DEF n
      <4> QED  BY <2>1, <2>2 DEF Lines
    <3>3. answers' \in Seq({"note", "error"}) /\ result' \in -3..1 /\ phase' \in Phases
      BY <1>1, <2>20, <2>4, <2>5, OutcomeOK DEF Phases, TypeOK
    <3> QED
      BY <1>0, <1>2, <3>1, <3>2, <3>3, Zenon DEF IInv, SessionTypeOK, TypeOK
  <2>9. SettledOK'
    BY <1>0, <1>1, <2>5 DEF SettledOK
  <2>10. ExecutedOK'
    <3>1. Len(executed') = 1 /\ executed'[1] = execution
      <4> HIDE DEF execution
      <4> QED  BY <2>7
    <3>2. (execution.json <=> jsonMode) /\ execution.command = command
      OBVIOUS
    <3>3. executed'[1].json <=> jsonMode'
      BY <1>0, <3>1, <3>2, Zenon
    <3>4. executed'[1].command = SubSeq(arguments', position' + 1, Len(arguments'))
      BY <1>0, <3>1, <3>2, Zenon
    <3> QED  BY <1>0, <1>1, <2>5, <3>1, <3>3, <3>4 DEF ExecutedOK
  <2>11. line' # NoLine /\ line'.command = c /\ line'.count = n
    <3> HIDE DEF n
    <3> QED  BY <2>20, NoneIsNoCommand DEF NoLine
  <2>12. ResultOK'
    <3> HIDE DEF n
    <3> QED  BY <2>20, <2>4, <2>5, <2>11, OutcomeOK DEF ResultOK
  <2>13. AnsweredOnce'
    <3>1. session' = opened
      BY <1>0
    <3> HIDE DEF n, opened
    <3> QED  BY <2>20, <2>4, <2>5, <3>1, OutcomeOK DEF AnsweredOnce, Throws, Outcome
  <2> QED  BY <1>2, <1>3, <2>8, <2>9, <2>10, <2>12, <2>13 DEF IInv, ParseInv
<1> QED  BY <1>4, <1>5

LEMMA ExecuteLineOK ==
    ASSUME IInv, NEW c \in CommandNames \cup {Unknown}, NEW n \in Counts(c), ExecuteLine(c, n)
    PROVE  IInv'
<1>0. /\ phase \in {"console", "server"}
      /\ UNCHANGED <<arguments, position, jsonMode, operationMode, autoDiscovery, executed, result>>
      /\ offered' = NothingOffered
  BY DEF ExecuteLine, Serves
<1>1. n \in Nat /\ session \in Sessions /\ TypeOK
  <2>1. n \in Nat
    <3>1. ASSUME c \in CommandNames PROVE Len(Offered(c)) + 1 \in Int
      BY DEF Offered
    <3> QED  BY <3>1 DEF Counts
  <2> QED  BY <2>1 DEF IInv, SessionTypeOK
<1>2. PICK o \in Processed(session, c, n) :
          /\ session' \in After(session, c, n, o)
          /\ line' = [command |-> c, count |-> n]
          /\ IF o.end = "throws" /\ phase = "server"
             THEN answers' = Append(o.answers, "error") /\ phase' = phase
             ELSE /\ answers' = o.answers
                  /\ phase' = CASE o.end = "returns" -> phase
                                [] o.end = "exits"   -> "quit"
                                [] o.end = "throws"  -> "crashed"
  BY DEF ExecuteLine
<1>3. /\ o \in Endings
      /\ o = Throws => c \in SystemCommands \cup {"discoverAllSystems", "discoverSystem"}
      /\ o = Silent(0) => \/ c = "getParticipantPropertyNames" /\ n = 2
                          \/ c = "discoverAllSystems" /\ n = 0 /\ ~session.json
      /\ o = Silent(1) => c = "help" /\ n = 1
  BY <1>1, <1>2, EndingsOK, Zenon
<1>4. /\ phase' \in {phase, "quit", "crashed"}
      /\ o.end = "throws" /\ phase # "server" => phase' = "crashed"
  BY <1>2, <1>3, OutcomeOK
<1>5. \/ answers' = o.answers /\ (o.end = "throws" => phase' = "crashed")
      \/ answers' = <<"error">>
  <2>1. CASE o.end = "throws" /\ phase = "server"
    <3>1. o.answers = <<>>
      BY <1>3, <2>1, OutcomeOK DEF Throws, Outcome
    <3> QED  BY <1>2, <2>1, <3>1
  <2>2. CASE ~(o.end = "throws" /\ phase = "server")
    BY <1>2, <1>4, <2>2
  <2> QED  BY <2>1, <2>2
<1>6. SessionTypeOK'
  <2>1. session' \in Sessions
    BY <1>1, <1>2, AfterOK, Zenon
  <2>2. offered' \in Offers
    BY <1>0 DEF NothingOffered, Offers
  <2>3. line' \in Lines /\ phase' \in Phases
    BY <1>0, <1>1, <1>2, <1>4 DEF Lines, Phases
  <2>4. answers' \in Seq({"note", "error"})
    <3>1. <<"error">> \in Seq({"note", "error"})
      OBVIOUS
    <3> QED  BY <1>3, <1>5, <3>1, OutcomeOK
  <2> QED  BY <1>0, <1>1, <2>1, <2>2, <2>3, <2>4, Zenon DEF SessionTypeOK, TypeOK
<1>7. SeenOK' /\ StoppedOK'
  BY <1>0 DEF IInv, ParseInv, SeenOK, StoppedOK
<1>8. SettledOK' /\ ExecutedOK' /\ ResultOK'
  BY <1>0, <1>4 DEF IInv, ParseInv, SettledOK, ExecutedOK, ResultOK
<1>9. AnsweredOnce'
  <2>1. line'.command = c /\ line'.count = n
    BY <1>2
  <2>2. CASE answers' = <<"error">>
    BY <2>2 DEF AnsweredOnce
  <2>3. CASE answers' = o.answers /\ (o.end = "throws" => phase' = "crashed")
    <3>1. c = "discoverAllSystems" /\ n = 0 /\ o # Note => session' = session
      <4>1. ASSUME c = "discoverAllSystems", n = 0, o # Note
            PROVE  After(session, c, n, o) = {session}
        BY <4>1 DEF After, SystemCommands, SystemStateCommands, GetPriorityCommands,
           SetPriorityCommands, MonitoringCommands, ParticipantStateCommands, PropertyCommands,
           RPCObjectCommands, TimingCommands
      <4> QED  BY <1>2, <4>1
    <3>2. CASE o = Note
      BY <2>3, <3>2 DEF AnsweredOnce, Note, Outcome
    <3>3. CASE o # Note
      BY <1>2, <1>3, <2>1, <2>3, <3>1, <3>3, OutcomeOK DEF AnsweredOnce, Throws, Outcome
    <3> QED  BY <3>2, <3>3
  <2> QED  BY <1>5, <2>2, <2>3
<1>10. OfferOK' /\ FreshOK'
  <2>1. offered'.command = "none"
    BY <1>0 DEF NothingOffered
  <2> QED  BY <1>0, <1>4, <2>1, NoneIsNoCommand DEF OfferOK, FreshOK
<1> QED  BY <1>6, <1>7, <1>8, <1>9, <1>10 DEF IInv, ParseInv

LEMMA CompleteOK ==
    ASSUME IInv, NEW c \in CommandNames \cup {Unknown}, NEW n \in Nat, Complete(c, n)
    PROVE  IInv'
<1>0. /\ phase = "console" /\ phase' \in {"console", "crashed"}
      /\ line' = NoLine /\ answers' = <<>>
      /\ UNCHANGED <<arguments, position, jsonMode, operationMode, autoDiscovery, executed, result,
                     session>>
  BY DEF Complete, Serves
<1>1. \/ offered' = [command |-> "none", index |-> 1, kind |-> "command"]
      \/ /\ n - 1 \in 1..Len(Offered(c)) /\ c \in CommandNames
         /\ offered' = [command |-> c, index |-> n - 1, kind |-> Offered(c)[n - 1]]
      \/ offered' = NothingOffered
  <2>1. ASSUME c \in CommandNames PROVE Len(Offered(c)) \in Nat
    BY DEF Offered
  <2>2. CASE n = 1
    BY <2>2 DEF Complete
  <2>3. CASE n > 1 /\ c \in CommandNames /\ n - 1 <= Len(Offered(c))
    <3>1. offered' = [command |-> c, index |-> n - 1, kind |-> Offered(c)[n - 1]]
      BY <2>3 DEF Complete
    <3> QED  BY <2>1, <2>3, <3>1
  <2>4. CASE n # 1 /\ ~(n > 1 /\ c \in CommandNames /\ n - 1 <= Len(Offered(c)))
    BY <2>4 DEF Complete
  <2> QED  BY <2>2, <2>3, <2>4
<1>2. OfferOK' /\ offered' \in Offers
  <2>1. CASE offered'.command = "none" /\ offered' \in Offers
    BY <2>1, NoneIsNoCommand DEF OfferOK
  <2>2. CASE /\ n - 1 \in 1..Len(Offered(c)) /\ c \in CommandNames
             /\ offered' = [command |-> c, index |-> n - 1, kind |-> Offered(c)[n - 1]]
    <3>1. Offered(c)[n - 1] \in {"nothing", "command", "system", "participant", "property", "state"}
      BY <2>2, KindsOK
    <3> QED  BY <2>2, <3>1 DEF OfferOK, Offers
  <2>3. CASE \/ offered' = NothingOffered
             \/ offered' = [command |-> "none", index |-> 1, kind |-> "command"]
    BY <2>1, <2>3 DEF NothingOffered, Offers
  <2> QED  BY <1>1, <2>2, <2>3
<1>3. SessionTypeOK'
  <2>1. line' \in Lines /\ answers' \in Seq({"note", "error"}) /\ phase' \in Phases
    BY <1>0 DEF NoLine, Lines, Phases
  <2> QED  BY <1>0, <1>2, <2>1, Zenon DEF IInv, SessionTypeOK, TypeOK
<1>4. ParseInv' /\ ResultOK' /\ AnsweredOnce' /\ FreshOK'
  BY <1>0 DEF FreshOK, IInv, ParseInv, SeenOK, StoppedOK, SettledOK, ExecutedOK, ResultOK, AnsweredOnce
<1> QED  BY <1>2, <1>3, <1>4 DEF IInv

LEMMA NextOK == IInv /\ [SessionNext]_sessionVars => IInv'
<1> SUFFICES ASSUME IInv, [SessionNext]_sessionVars PROVE IInv'
  OBVIOUS
<1>1. CASE Starts
  <2>1. session' = NewSession(jsonMode') /\ UNCHANGED offered /\ Next
    BY <1>1 DEF Starts
  <2>2. CASE \E argument \in Arguments : ParseFlag(argument)
    BY <2>1, <2>2, ParseFlagOK
  <2> QED  BY <2>1, <2>2, ExecuteOK, ParsingEndsOK, DecideOK DEF Next
<1>2. CASE \E c \in CommandNames \cup {Unknown} : \E n \in Counts(c) :
              ExecuteLine(c, n) \/ Complete(c, n + 1)
  <2>1. PICK c \in CommandNames \cup {Unknown} : \E n \in Counts(c) :
              ExecuteLine(c, n) \/ Complete(c, n + 1)
    BY <1>2
  <2>2. PICK n \in Counts(c) : ExecuteLine(c, n) \/ Complete(c, n + 1)
    BY <2>1
  <2>3. n + 1 \in Nat
    <3>1. ASSUME c \in CommandNames PROVE Len(Offered(c)) + 1 \in Int
      BY DEF Offered
    <3> QED  BY <3>1 DEF Counts
  <2>4. CASE ExecuteLine(c, n)
    BY <2>1, <2>2, <2>4, ExecuteLineOK
  <2>5. CASE Complete(c, n + 1)
    BY <2>3, <2>5, CompleteOK, Zenon
  <2> QED  BY <2>2, <2>4, <2>5
<1>3. CASE Complete(Unknown, 0)
  BY <1>3, CompleteOK
<1>4. CASE UNCHANGED sessionVars
  BY <1>4 DEF sessionVars, vars, outcomeVars, IInv, SessionTypeOK, TypeOK, ParseInv, SeenOK,
     StoppedOK, SettledOK, ExecutedOK, ResultOK, AnsweredOnce, OfferOK, FreshOK
<1> QED  BY <1>1, <1>2, <1>3, <1>4 DEF SessionNext

-----------------------------------------------------------------------------
(* Theorems: for command lines of any length, and any number of lines after    *)

THEOREM SessionInvariant == SessionSpec => []IInv
BY InitOK, NextOK, PTL DEF SessionSpec

\* The variables of the program keep their types.
THEOREM SessionTypeCorrect == SessionSpec => []SessionTypeOK
<1>1. IInv => SessionTypeOK  BY DEF IInv
<1> QED  BY <1>1, SessionInvariant, PTL

\* Where the program goes is decided by the options before the command.
THEOREM ModeIsOptions == SessionSpec => []ModeFollowsOptions
<1>1. IInv => ModeFollowsOptions
  <2> SUFFICES ASSUME IInv, phase \in {"console", "server", "exited"}
               PROVE  /\ phase = "server" <=> "websocket" \in Options
                      /\ executed = <<>> =>
                            (phase = "console" <=> "websocket" \notin Options /\
                                                   (arguments = <<>> \/ "json" \in Options))
    BY DEF ModeFollowsOptions
  <2>1. Options = {arguments[k] : k \in 1..(position - 1)}
    BY OptionsSeen DEF IInv, ParseInv, SessionTypeOK
  <2>2. "websocket" \in Options <=> operationMode = "WEBSOCKET"
    BY <2>1 DEF IInv, ParseInv, SeenOK
  <2>3. "json" \in Options <=> jsonMode
    <3>1. "json" \in Options <=> \E k \in 1..(position - 1) : arguments[k] = "json"
      BY <2>1
    <3> QED  BY <3>1, Zenon DEF IInv, ParseInv, SeenOK
  <2>4. operationMode \in {"COMMANDLINE", "WEBSOCKET"}
    BY DEF IInv, SessionTypeOK, TypeOK
  <2>5. SettledOK
    BY DEF IInv, ParseInv
  <2>6. CASE phase = "server"
    BY <2>2, <2>5, <2>6 DEF SettledOK
  <2>7. CASE phase = "console"
    <3>1. operationMode = "COMMANDLINE" /\ (arguments = <<>> \/ jsonMode)
      BY <2>5, <2>7, Zenon DEF SettledOK
    <3>2. operationMode # "WEBSOCKET" /\ phase # "server"
      BY <2>7, <3>1
    <3> QED  BY <2>2, <2>3, <2>7, <3>1, <3>2, Zenon
  <2>8. CASE phase = "exited"
    <3>1. operationMode = "COMMANDLINE" /\ ~jsonMode /\ arguments # <<>>
      BY <2>5, <2>8, Zenon DEF SettledOK
    <3>2. operationMode # "WEBSOCKET" /\ phase # "server" /\ phase # "console"
      BY <2>8, <3>1
    <3> QED  BY <2>2, <2>3, <3>1, <3>2, Zenon
  <2> QED  BY <2>6, <2>7, <2>8
<1> QED  BY <1>1, SessionInvariant, PTL

\* At most one command is executed: what follows the first execute option.
THEOREM OneCommandIsExecuted == SessionSpec => []OneCommand
<1>1. IInv => OneCommand
  <2> SUFFICES ASSUME IInv PROVE OneCommand
    OBVIOUS
  <2>1. CASE executed = <<>>
    BY <2>1 DEF OneCommand
  <2>2. CASE executed # <<>>
    <3>1. ExecutedOK /\ SeenOK /\ StoppedOK /\ TypeOK
      BY DEF IInv, ParseInv, SessionTypeOK
    <3>2. /\ Len(executed) = 1 /\ phase # "parsing"
          /\ position \in DOMAIN arguments /\ arguments[position] = "execute"
          /\ executed[1].command = SubSeq(arguments, position + 1, Len(arguments))
      BY <2>2, <3>1 DEF ExecutedOK
    <3>3. DOMAIN executed = {1}
      <4>1. executed \in Seq(Executions)
        BY <3>1 DEF TypeOK
      <4> QED  BY <3>2, <4>1
    <3>4. executed[1].json <=> "json" \in Options
      <4>1. "json" \in Options <=> \E k \in 1..(position - 1) : arguments[k] = "json"
        BY <3>1, <3>2, OptionsSeen
      <4>2. executed[1].json <=> jsonMode
        BY <2>2, <3>1, Zenon DEF ExecutedOK
      <4> QED  BY <3>1, <4>1, <4>2, Zenon DEF SeenOK
    <3>5. \E j \in DOMAIN arguments :
                /\ arguments[j] = "execute"
                /\ executed[1].command = SubSeq(arguments, j + 1, Len(arguments))
                /\ \A k \in 1..(j - 1) : arguments[k] # "execute"
      BY <3>1, <3>2, Zenon DEF SeenOK
    <3>6. Len(executed) <= 1
      BY <3>2
    <3>7. \A i \in DOMAIN executed : i = 1
      BY <3>3
    <3> QED  BY <3>4, <3>5, <3>6, <3>7, Zenon DEF OneCommand
  <2> QED  BY <2>1, <2>2
<1> QED  BY <1>1, SessionInvariant, PTL

\* Success of main is the success of a command; a failure was told.
THEOREM ExitStatusIsTold == SessionSpec => []ExitStatusTells
<1>1. IInv => ExitStatusTells  BY DEF IInv, ResultOK, ExitStatusTells
<1> QED  BY <1>1, SessionInvariant, PTL

\* One answer to a line, but for four silent kinds.
THEOREM LinesAreAnsweredOnce == SessionSpec => []AnsweredOnce
<1>1. IInv => AnsweredOnce  BY DEF IInv
<1> QED  BY <1>1, SessionInvariant, PTL

\* Handlers, table and completion agree on the arguments.
THEOREM TableAndHandlersAgree == SessionSpec => []HandlersReadWhatIsTyped
<1>1. IInv => HandlersReadWhatIsTyped
  <2> SUFFICES ASSUME IInv PROVE HandlersReadWhatIsTyped
    OBVIOUS
  <2>1. line.count \in Nat
    BY DEF IInv, SessionTypeOK, TypeOK, Lines
  <2>2. Accepted(line.command, line.count) => Len(Reads(line.command, line.count)) = line.count
    BY <2>1, TableOK, Zenon
  <2>3. offered.command \in CommandNames /\ offered.kind # "nothing" =>
          Reads(offered.command, Len(Offered(offered.command)))[offered.index] = offered.kind
    BY OfferedOK DEF IInv, OfferOK
  <2> QED  BY <2>2, <2>3 DEF HandlersReadWhatIsTyped
<1> QED  BY <1>1, SessionInvariant, PTL
=============================================================================
