--------------------------- MODULE CommandDispatch ---------------------------
(* The table of commands of fep_control and what executing one line does      *)
(* (getControlCommands, processCommandline and the handlers of                *)
(* src/src/fep_control_tool/fep_control.cpp): how many arguments a command    *)
(* takes, what TAB offers for each, how its handler uses them, and the ways it*)
(* may end.  What handlers do to the registry of systems is SystemRegistry,   *)
(* what those on properties do is ParticipantProperties; what counts here are *)
(* their answers and what they return.                                        *)
EXTENDS Integers, Sequences

-----------------------------------------------------------------------------
(* The table                                                                  *)

QuitCommands == {"exit", "quit"}

SystemStateCommands ==
    {"loadSystem", "unloadSystem", "initializeSystem", "deinitializeSystem",
     "startSystem", "stopSystem", "pauseSystem", "shutdownSystem"}

GetPriorityCommands == {"getInitPriority", "getStartPriority"}
SetPriorityCommands == {"setInitPriority", "setStartPriority"}

MonitoringCommands == {"startMonitoringSystem", "stopMonitoringSystem"}

ParticipantStateCommands ==
    {"loadParticipant", "unloadParticipant", "initializeParticipant", "deinitializeParticipant",
     "startParticipant", "stopParticipant", "pauseParticipant", "shutdownParticipant"}

PropertyCommands == {"getParticipantPropertyNames", "getParticipantProperties",
                     "getParticipantProperty", "setParticipantProperty"}

RPCObjectCommands == {"getParticipantRPCObjects", "getParticipantRPCObjectIIDs",
                      "getParticipantRPCObjectIIDDefinition"}

TimingCommands == {"configureTiming3SystemTime", "configureTiming3DiscreteTime",
                   "configureTiming3NoSync", "getCurrentTimingMaster"}

ModeCommands == {"enableAutoDiscovery", "disableAutoDiscovery", "enableJson", "disableJson"}

\* The commands whose first argument is a system they look up.
SystemCommands ==
    SystemStateCommands \cup GetPriorityCommands \cup SetPriorityCommands \cup
    MonitoringCommands \cup ParticipantStateCommands \cup PropertyCommands \cup
    RPCObjectCommands \cup TimingCommands \cup
    {"getSystemState", "setSystemState", "getParticipantState", "setParticipantState",
     "getParticipants", "callRPC"}

CommandNames ==
    QuitCommands \cup ModeCommands \cup SystemCommands \cup
    {"discoverAllSystems", "discoverSystem", "setCurrentWorkingDirectory",
     "getCurrentWorkingDirectory", "help"}

\* What stands for every other first word.
Unknown == "unknown"

\* _arguments: what TAB offers for each argument.
Offered(c) ==
    CASE c \in QuitCommands \cup ModeCommands \cup
               {"discoverAllSystems", "getCurrentWorkingDirectory"}    -> <<>>
      [] c \in {"discoverSystem", "setCurrentWorkingDirectory"}        -> <<"nothing">>
      [] c = "help"                                                    -> <<"command">>
      [] c \in SystemStateCommands \cup MonitoringCommands \cup
               {"getSystemState", "getParticipants", "configureTiming3NoSync",
                "getCurrentTimingMaster"}                              -> <<"system">>
      [] c = "setSystemState"                                 -> <<"system", "state">>
      [] c \in ParticipantStateCommands \cup GetPriorityCommands \cup
               {"getParticipantPropertyNames", "getParticipantProperties",
                "getParticipantRPCObjects", "getParticipantState",
                "configureTiming3SystemTime"}                 -> <<"system", "participant">>
      [] c \in SetPriorityCommands \cup {"getParticipantRPCObjectIIDs"}
                                                  -> <<"system", "participant", "nothing">>
      [] c = "getParticipantProperty"             -> <<"system", "participant", "property">>
      [] c = "setParticipantState"                -> <<"system", "participant", "state">>
      [] c = "setParticipantProperty"  -> <<"system", "participant", "property", "nothing">>
      [] c \in {"getParticipantRPCObjectIIDDefinition", "configureTiming3DiscreteTime"}
                                       -> <<"system", "participant", "nothing", "nothing">>
      [] c = "callRPC"
                -> <<"system", "participant", "nothing", "nothing", "nothing", "nothing">>

\* Slip: a call may leave out its function as well.
OneMoreOptional(c) == IF c = "callRPC" THEN 2 ELSE IF c = "help" THEN 1 ELSE 0

\* _last_optional_parameters
Optional(c) == IF c \in {"help", "callRPC"} THEN 1 ELSE 0

-----------------------------------------------------------------------------
(* The handlers                                                               *)

\* How the handler uses the arguments of a line that has n of them, in order: each
\* is one use of the iterator into the line.  The commands on a participant take
\* its system and its name first.
Reads(c, n) ==
    LET onSystem == <<"system">>
        onParticipant == <<"system", "participant">>
    IN  CASE c \in QuitCommands \cup ModeCommands \cup
                   {"discoverAllSystems", "getCurrentWorkingDirectory"} -> <<>>
          [] c = "setCurrentWorkingDirectory"      -> <<"directory">>
          [] c = "help"                            -> IF n = 0 THEN <<>> ELSE <<"command">>
          [] c = "setSystemState"                  -> onSystem \o <<"state">>
          [] c \in SetPriorityCommands             -> onParticipant \o <<"number">>
          [] c = "setParticipantState"             -> onParticipant \o <<"state">>
          [] c = "getParticipantProperty"          -> onParticipant \o <<"property">>
          [] c = "setParticipantProperty"          -> onParticipant \o <<"property", "value">>
          [] c = "getParticipantRPCObjectIIDs"     -> onParticipant \o <<"object">>
          [] c = "getParticipantRPCObjectIIDDefinition"
                                               -> onParticipant \o <<"object", "interface">>
          [] c = "configureTiming3DiscreteTime"    -> onParticipant \o <<"number", "number">>
          [] c = "callRPC" -> onParticipant \o <<"object", "interface", "function">>
                                \o (IF n > 5 THEN <<"value">> ELSE <<>>)
          [] c \in ParticipantStateCommands \cup GetPriorityCommands \cup
                   {"getParticipantPropertyNames", "getParticipantProperties",
                    "getParticipantRPCObjects", "getParticipantState",
                    "configureTiming3SystemTime"}  -> onParticipant
          [] OTHER                                 -> onSystem

\* What of a session decides how a command may end: whether it discovers the
\* systems it does not know, whether it may know any, and whether it answers as JSON.
Sessions == [autoDiscovery : BOOLEAN, known : BOOLEAN, json : BOOLEAN]
NewSession(json) == [autoDiscovery |-> FALSE, known |-> FALSE, json |-> json]

\* An outcome: the answers written, what processCommandline returns, and whether
\* it does.  An answer is a note or an error; that it may take several messages
\* (SessionOutput) does not matter here.
Outcome(answers, status, end) == [answers |-> answers, status |-> status, end |-> end]

Note   == Outcome(<<"note">>, 0, "returns")
Error  == Outcome(<<"error">>, 1, "returns")
Throws == Outcome(<<>>, 0, "throws")
Silent(status) == Outcome(<<>>, status, "returns")

Quit == {Outcome(<<"note">>, 0, "exits")}

\* Nothing is caught: the answer is given when the discovery has returned.  All
\* systems are listed as text line by line, so that no system is no answer.
Discovery(s, c) == {Note, Throws} \cup
                   (IF c = "discoverAllSystems" /\ ~s.json THEN {Silent(0)} ELSE {})

WorkingDirectory(c) == IF c = "setCurrentWorkingDirectory" THEN {Note, Error} ELSE {Note}

\* help on a word that is no command prepares an answer and drops it.
Help(n) == IF n = 0 THEN {Note} ELSE {Note, Silent(1)}

\* Slip: the handler reports the error of the lookup and goes on to return success.
OnSystemUntold(s, ends) ==
    {Outcome(<<"error">>, 0, "returns")}
        \cup (IF s.autoDiscovery THEN {Throws} ELSE {})
        \cup (IF s.autoDiscovery \/ s.known THEN ends ELSE {})

\* A system that is not known is an error, or is discovered first, which is not
\* caught; what the handler then does, "ends", takes a system.
OnSystem(s, ends) ==
    {Error} \cup (IF s.autoDiscovery THEN {Throws} ELSE {})
            \cup (IF s.autoDiscovery \/ s.known THEN ends ELSE {})

\* Slip: the handler reports the missing participant once more.
OnParticipantTwice(s, ends) ==
    OnSystem(s, {Outcome(<<"error", "error">>, 1, "returns")} \cup ends)

\* A participant that is not in the system is an error.
OnParticipant(s, ends) == OnSystem(s, {Error} \cup ends)

ChangeStateMethod == {Note, Error}

\* The registration of the monitor is not caught, taking it back is.
Monitoring(c) == IF c = "startMonitoringSystem" THEN {Note, Throws} ELSE {Note}

DoParticipantStateChange == {Note, Error}

GetSystemState == {Note, Error}

\* The answer is that of shutdownSystem or of getSystemState; what the latter
\* returns is ignored.
SetSystemState == {Error} \cup ChangeStateMethod \cup
                  {[o EXCEPT !.status = 0] : o \in GetSystemState}

Timing == {Note, Error}

Priority == {Note, Error}

ParticipantState == {Note, Error}

\* A participant without configuration is not answered for.
PropertyNames == {Note, Error, Silent(0)}

Property == {Note, Error}

RPCObjects == {Note, Error}

CallRPC == {Note, Error}

\* The action bound to the command, called in session s.
Handled(s, c, n) ==
    CASE c \in QuitCommands                                         -> Quit
      [] c \in ModeCommands                                         -> {Note}
      [] c \in {"discoverAllSystems", "discoverSystem"}             -> Discovery(s, c)
      [] c \in {"setCurrentWorkingDirectory", "getCurrentWorkingDirectory"}
                                                                    -> WorkingDirectory(c)
      [] c = "help"                                                 -> Help(n)
      [] c \in SystemStateCommands                   -> OnSystem(s, ChangeStateMethod)
      [] c \in MonitoringCommands                    -> OnSystem(s, Monitoring(c))
      [] c = "getParticipants"                       -> OnSystem(s, {Note})
      [] c = "getSystemState"                        -> OnSystem(s, GetSystemState)
      [] c = "setSystemState"                        -> OnSystem(s, SetSystemState)
      [] c \in TimingCommands                        -> OnSystem(s, Timing)
      [] c \in ParticipantStateCommands              -> OnParticipant(s, DoParticipantStateChange)
      [] c \in GetPriorityCommands \cup SetPriorityCommands
                                                     -> OnParticipant(s, Priority)
      [] c \in {"getParticipantState", "setParticipantState"}
                                                     -> OnParticipant(s, ParticipantState)
      [] c = "getParticipantPropertyNames"           -> OnParticipant(s, PropertyNames)
      [] c \in PropertyCommands \ {"getParticipantPropertyNames"}
                                                     -> OnParticipant(s, Property)
      [] c \in RPCObjectCommands                     -> OnParticipant(s, RPCObjects)
      [] c = "callRPC"                               -> OnParticipant(s, CallRPC)

\* Is the handler called for a line of command c with n arguments?
Accepted(c, n) == /\ c \in CommandNames
                  /\ n <= Len(Offered(c)) /\ n >= Len(Offered(c)) - Optional(c)

\* processCommandline: what may come of such a line.
Processed(s, c, n) ==
    IF c \notin CommandNames THEN {Outcome(<<"error">>, -2, "returns")}
    ELSE IF ~Accepted(c, n) THEN {Outcome(<<"error">>, -3, "returns")}
    ELSE Handled(s, c, n)

\* The session behind a line that ended in outcome o.  A discovery makes a system
\* known (one of all systems need not find any, which a text answer shows), a lookup
\* that discovers does, and a shutdown may forget the last one.
After(s, c, n, o) ==
    LET knowing == [s EXCEPT !.known = TRUE]
    IN  IF ~Accepted(c, n) THEN {s}
        ELSE CASE c = "enableAutoDiscovery"              -> {[s EXCEPT !.autoDiscovery = TRUE]}
               [] c = "disableAutoDiscovery"             -> {[s EXCEPT !.autoDiscovery = FALSE]}
               [] c \in {"enableJson", "disableJson"}    -> {[s EXCEPT !.json = (c = "enableJson")]}
               [] c = "discoverSystem" /\ o = Note       -> {knowing}
               [] c = "discoverAllSystems" /\ o = Note   -> IF s.json THEN {s, knowing} ELSE {knowing}
               [] c \in {"shutdownSystem", "setSystemState"} /\ (s.known \/ s.autoDiscovery)
                                            -> {[s EXCEPT !.known = k] : k \in BOOLEAN}
               [] c \in SystemCommands \ {"shutdownSystem", "setSystemState"} /\ s.autoDiscovery
                                                         -> {s, knowing}
               [] OTHER                                  -> {s}
=============================================================================
