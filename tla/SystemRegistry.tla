---------------------------- MODULE SystemRegistry ----------------------------
(* The registry of systems of one FepControl session                          *)
(* (src/src/fep_control_tool/fep_control.cpp): the map from the names a user  *)
(* types to the fep3::System objects the session holds, how discovery and     *)
(* auto discovery fill it, how shutdown empties it, and the registration of   *)
(* the session's monitor with the systems in it.                              *)
(*                                                                            *)
(* A system that has no name is announced with the empty name (Unnamed) and   *)
(* shown to the user as "-" (EmptySystemName).  A System object is a          *)
(* snapshot: the participants discovery found, which may since have left.     *)
(* Participants come and go by themselves, or are shut down by somebody else; *)
(* the fep3 library that talks to them is modelled by what its callers rely   *)
(* on.                                                                        *)
EXTENDS FiniteSets

CONSTANTS
    Participants,     \* every participant that may ever be running
    SystemNames,      \* the names systems are announced with
    Home,             \* Home[p]: the name of the system p belongs to
    Unnamed,          \* the empty system name, ""
    EmptySystemName,  \* what stands for it on the command line, "-"
    NotConnected      \* no entry under this name

ASSUME NamesAssumption == /\ Unnamed \in SystemNames
                          /\ EmptySystemName \notin SystemNames

ASSUME HomeAssumption == Home \in [Participants -> SystemNames]

\* The names a user can type: those of systems and "-".
TypedNames == SystemNames \cup {EmptySystemName}

\* The names that stand for themselves.
NamedSystems == SystemNames \ {Unnamed}

SystemObjects == [name : SystemNames,
                  participants : SUBSET Participants,
                  monitored : BOOLEAN]

ASSUME EntryAssumption == NotConnected \notin SystemObjects

VARIABLES
    up,             \* the participants that are running now
    registry,       \* _connected_or_discovered_systems
    autoDiscovery,  \* _auto_discovery_of_systems
    lastUsed,       \* _last_system_name_used
    answer,         \* what the last command answered the user
    running         \* the process has not been ended by quit

vars == <<up, registry, autoDiscovery, lastUsed, answer, running>>

-----------------------------------------------------------------------------
(* Names *)

SystemNameUntranslated(n) == n

\* The name discovery is asked for when the user types n.
SystemName(n) == IF n = EmptySystemName THEN Unnamed ELSE n

\* The name under which a listing shows system s.
ListedName(s) == IF s = Unnamed THEN EmptySystemName ELSE s

Members(s) == {p \in Participants : Home[p] = s}

Connected(n) == registry[n] # NotConnected

NewSystem(s, found) == [name |-> s, participants |-> found, monitored |-> FALSE]

\* Slips in the three ways the registry changes, which the properties exclude.
DiscoveredEmplaced(n, found) ==
    IF Connected(SystemName(n)) THEN registry
    ELSE [registry EXCEPT ![SystemName(n)] = NewSystem(SystemName(n), found)]

DiscoveredAsLastUsed(n, found) ==
    [registry EXCEPT ![lastUsed] = NewSystem(SystemName(n), found)]

ListedAssigned(n, found) ==
    IF \E p \in found : ListedName(Home[p]) = n
    THEN NewSystem(SystemName(n), found \cap Members(SystemName(n)))
    ELSE registry[n]

ListedTogether(n, found) ==
    IF ~Connected(n) /\ \E p \in found : ListedName(Home[p]) = n
    THEN NewSystem(SystemName(n), found)
    ELSE registry[n]

ErasedNothing(r, sys) == r

ErasedAll(r, sys) == [n \in TypedNames |-> NotConnected]

\* The registry after discovery of the system the user calls n: the System object
\* found replaces the one of the same name.
Discovered(n, found) ==
    [registry EXCEPT ![SystemName(n)] = NewSystem(SystemName(n), found)]

\* What stands under n after a discovery of everything: a name that is connected
\* keeps the entry it has.
Listed(n, found) ==
    IF ~Connected(n) /\ \E p \in found : ListedName(Home[p]) = n
    THEN NewSystem(SystemName(n), found \cap Members(SystemName(n)))
    ELSE registry[n]

\* The registry r without the entry that has the NAME of sys, which need not be
\* the entry sys was looked up under.
Erased(r, sys) == [r EXCEPT ![sys.name] = NotConnected]

-----------------------------------------------------------------------------
(* Answers.  "ok" is a handler that returned true; "notConnected" the error   *)
(* of the lookup; "noParticipant" the refusal of getParticipant; "exception"  *)
(* an exception of the library, written by the handler or by the session.     *)

Commands == {"none", "discoverAllSystems", "discoverSystem", "getParticipants",
             "participant", "setParticipantState", "shutdownParticipant", "system",
            "shutdownSystem",
             "startMonitoringSystem", "stopMonitoringSystem", "autoDiscovery", "quit"}

Results == {"ok", "notConnected", "noParticipant", "exception"}

Answers == [command : Commands, name : TypedNames, result : Results,
            shown : SUBSET Participants]

Answer(c, n, r, shown) == [command |-> c, name |-> n, result |-> r, shown |-> shown]

TypeOK == /\ up \subseteq Participants
          /\ registry \in [TypedNames -> SystemObjects \cup {NotConnected}]
          /\ autoDiscovery \in BOOLEAN
          /\ lastUsed \in TypedNames
          /\ answer \in Answers
          /\ running \in BOOLEAN

Init == /\ up = {}
        /\ registry = [n \in TypedNames |-> NotConnected]
        /\ autoDiscovery = FALSE
        /\ lastUsed = Unnamed
        /\ answer = Answer("none", Unnamed, "ok", {})
        /\ running = TRUE

-----------------------------------------------------------------------------
(* The participants of the outside world *)

ParticipantAppears(p) == /\ p \notin up
                         /\ up' = up \cup {p}
                         /\ UNCHANGED <<registry, autoDiscovery, lastUsed, answer, running>>

ParticipantDisappears(p) == /\ p \in up
                            /\ up' = up \ {p}
                            /\ UNCHANGED <<registry, autoDiscovery, lastUsed, answer, running>>

-----------------------------------------------------------------------------
(* Lookup: the registry after it, and whether the name is connected in it.    *)
(* Discovery hears some of the participants that are up, or throws.           *)

Lookup(n) ==
    LET Outcome(r) == [registry |-> r,
                       result |-> IF r[n] = NotConnected THEN "notConnected" ELSE "ok"]
    IN  IF Connected(n) \/ ~autoDiscovery
        THEN {Outcome(registry)}
        ELSE {Outcome(Discovered(n, found)) : found \in SUBSET (up \cap Members(SystemName(n)))}
               \cup {[registry |-> registry, result |-> "exception"]}

LastUsedByDiscovery(n) == IF ~Connected(n) /\ autoDiscovery THEN n ELSE lastUsed

LastUsedByLookup(n) == IF Connected(n) \/ autoDiscovery THEN n ELSE lastUsed

\* A handler that stops where its lookup stopped.
LookupFails(c, n) ==
    \E found \in Lookup(n) :
        /\ found.result # "ok"
        /\ registry' = found.registry
        /\ answer' = Answer(c, n, found.result, {})
        /\ up' = up

-----------------------------------------------------------------------------
(* Discovery *)

\* Every system heard is listed and stored.  The last one of the listing becomes the last name used.
DiscoverAllSystems ==
    /\ running
    /\ \/ \E found \in SUBSET up :
            /\ registry' = [n \in TypedNames |-> Listed(n, found)]
            /\ \/ found = {} /\ lastUsed' = lastUsed
               \/ \E p \in found : lastUsed' = ListedName(Home[p])
            /\ answer' = Answer("discoverAllSystems", Unnamed, "ok", found)
       \/ /\ answer' = Answer("discoverAllSystems", Unnamed, "exception", {})
          /\ UNCHANGED <<registry, lastUsed>>
    /\ UNCHANGED <<up, autoDiscovery, running>>

DiscoverSystem(n) ==
    /\ running
    /\ lastUsed' = n
    /\ \/ \E found \in SUBSET (up \cap Members(SystemName(n))) :
            /\ registry' = Discovered(n, found)
            /\ answer' = Answer("discoverSystem", n, "ok", found)
       \/ /\ answer' = Answer("discoverSystem", n, "exception", {})
          /\ UNCHANGED registry
    /\ UNCHANGED <<up, autoDiscovery, running>>

SetAutoDiscovery(enabled) ==
    /\ running
    /\ autoDiscovery' = enabled
    /\ answer' = Answer("autoDiscovery", Unnamed, "ok", {})
    /\ UNCHANGED <<up, registry, lastUsed, running>>

-----------------------------------------------------------------------------
(* Commands on a system of the registry *)

\* getParticipants: what the entry holds, whoever of them is still running.
GetParticipants(n) ==
    /\ running
    /\ \/ LookupFails("getParticipants", n)
       \/ \E found \in Lookup(n) :
            /\ found.result = "ok"
            /\ registry' = found.registry
            /\ answer' = Answer("getParticipants", n, "ok", found.registry[n].participants)
            /\ up' = up
    /\ lastUsed' = LastUsedByLookup(n)
    /\ UNCHANGED <<autoDiscovery, running>>

\* The commands that call one method of the system and leave the registry alone:
\* its state machine, its state, its timing.
UseSystem(n) ==
    /\ running
    /\ \/ LookupFails("system", n)
       \/ \E found \in Lookup(n), r \in {"ok", "exception"} :
            /\ found.result = "ok"
            /\ registry' = found.registry
            /\ answer' = Answer("system", n, r, {})
            /\ up' = up
    /\ lastUsed' = LastUsedByLookup(n)
    /\ UNCHANGED <<autoDiscovery, running>>

\* How a command on participant p of the entry sys may end: p is refused if the
\* entry does not hold it, and can be reached while it is running.
Reaches(sys, p, r) == /\ (r = "noParticipant") <=> (p \notin sys.participants)
                      /\ r = "ok" => p \in up

\* The commands on one participant: its properties, priorities, RPC objects, its
\* state but for the end of it.
UseParticipant(n, p) ==
    /\ running
    /\ \/ LookupFails("participant", n)
       \/ \E found \in Lookup(n), r \in {"ok", "exception", "noParticipant"} :
            /\ found.result = "ok"
            /\ registry' = found.registry
            /\ Reaches(found.registry[n], p, r)
            /\ answer' = Answer("participant", n, r, {p})
            /\ up' = up
    /\ lastUsed' = LastUsedByLookup(n)
    /\ UNCHANGED <<autoDiscovery, running>>

\* setParticipantState works on a second System object made of the name as typed,
\* so under the name "-" it reaches nobody.  The state "shutdowned" ends the
\* participant.
SetParticipantState(n, p) ==
    /\ running
    /\ \/ LookupFails("setParticipantState", n)
       \/ \E found \in Lookup(n), r \in {"ok", "exception", "noParticipant"} :
            /\ found.result = "ok"
            /\ registry' = found.registry
            /\ Reaches(found.registry[n], p, r)
            /\ r = "ok" => n # EmptySystemName
            /\ answer' = Answer("setParticipantState", n, r, {p})
            /\ up' = up \/ (r = "ok" /\ up' = up \ {p})
    /\ lastUsed' = LastUsedByLookup(n)
    /\ UNCHANGED <<autoDiscovery, running>>

\* shutdownParticipant: the participant stops, its entry is not told.
ShutdownParticipant(n, p) ==
    /\ running
    /\ \/ LookupFails("shutdownParticipant", n)
       \/ \E found \in Lookup(n), r \in {"ok", "exception", "noParticipant"} :
            /\ found.result = "ok"
            /\ registry' = found.registry
            /\ Reaches(found.registry[n], p, r)
            /\ answer' = Answer("shutdownParticipant", n, r, {p})
            /\ up' = IF r = "ok" THEN up \ {p} ELSE up
    /\ lastUsed' = LastUsedByLookup(n)
    /\ UNCHANGED <<autoDiscovery, running>>

\* shutdownSystem, and setSystemState to "shutdowned".  When the library throws
\* some participants may have stopped already; otherwise all those the entry
\* holds have, and the entry is erased.
ShutdownSystem(n) ==
    /\ running
    /\ \/ LookupFails("shutdownSystem", n)
       \/ \E found \in Lookup(n) :
            LET sys == found.registry[n] IN
            /\ found.result = "ok"
            /\ \/ /\ up' = up \ sys.participants
                  /\ registry' = Erased(found.registry, sys)
                  /\ answer' = Answer("shutdownSystem", n, "ok", sys.participants)
               \/ \E stopped \in SUBSET (up \cap sys.participants) :
                    /\ up' = up \ stopped
                    /\ registry' = found.registry
                    /\ answer' = Answer("shutdownSystem", n, "exception", {})
    /\ lastUsed' = LastUsedByLookup(n)
    /\ UNCHANGED <<autoDiscovery, running>>

\* A registration that exists is taken back before a new one is made.  Either may
\* throw: what the first throws is ignored, the second ends the command, with the old
\* registration taken back or not.
StartMonitoringSystem(n) ==
    /\ running
    /\ \/ LookupFails("startMonitoringSystem", n)
       \/ \E found \in Lookup(n), r \in {"ok", "exception"}, registered \in BOOLEAN :
            /\ found.result = "ok"
            /\ r = "ok" => registered
            /\ registered => r = "ok" \/ found.registry[n].monitored
            /\ registry' = [found.registry EXCEPT ![n].monitored = registered]
            /\ answer' = Answer("startMonitoringSystem", n, r, {})
            /\ up' = up
    /\ lastUsed' = LastUsedByLookup(n)
    /\ UNCHANGED <<autoDiscovery, running>>

\* What taking the registration back throws is ignored, and success is answered.
StopMonitoringSystem(n) ==
    /\ running
    /\ \/ LookupFails("stopMonitoringSystem", n)
       \/ \E found \in Lookup(n), registered \in BOOLEAN :
            /\ found.result = "ok"
            /\ registered => found.registry[n].monitored
            /\ registry' = [found.registry EXCEPT ![n].monitored = registered]
            /\ answer' = Answer("stopMonitoringSystem", n, "ok", {})
            /\ up' = up
    /\ lastUsed' = LastUsedByLookup(n)
    /\ UNCHANGED <<autoDiscovery, running>>

Quit == /\ running
        /\ registry' = [n \in TypedNames |-> NotConnected]
        /\ answer' = Answer("quit", Unnamed, "ok", {})
        /\ running' = FALSE
        /\ UNCHANGED <<up, autoDiscovery, lastUsed>>

-----------------------------------------------------------------------------
SystemCommand(n) == \/ DiscoverSystem(n)
                    \/ GetParticipants(n)
                    \/ UseSystem(n)
                    \/ ShutdownSystem(n)
                    \/ StartMonitoringSystem(n)
                    \/ StopMonitoringSystem(n)
                    \/ \E p \in Participants : \/ UseParticipant(n, p)
                                             \/ SetParticipantState(n, p)
                                             \/ ShutdownParticipant(n, p)

Next == \/ \E p \in Participants : ParticipantAppears(p) \/ ParticipantDisappears(p)
        \/ DiscoverAllSystems
        \/ \E enabled \in BOOLEAN : SetAutoDiscovery(enabled)
        \/ \E n \in TypedNames : SystemCommand(n)
        \/ Quit

Spec == Init /\ [][Next]_vars
-----------------------------------------------------------------------------
(* What the user can complete with TAB *)

ConnectedSystemsCompletion == {n \in TypedNames : Connected(n)}

\* The participants offered are those of the last name used, whatever system
\* the line being typed names.
ConnectedParticipantsCompletion ==
    IF Connected(lastUsed) THEN registry[lastUsed].participants ELSE {}

-----------------------------------------------------------------------------
(* Properties *)

\* The answer is that of a command on one system.
OnOneSystem(a) == a.command \notin {"none", "discoverAllSystems", "autoDiscovery", "quit"}

Shutdown(a) == a.command = "shutdownSystem" /\ a.result = "ok"

\* An entry is the System its key stands for and holds participants of that
\* system only, however the entry came about (discovery of one system, of all,
\* auto discovery) and however often it was replaced.  What the state of the
\* registry has to satisfy for commands to reach the system the user names.
EntriesAreTheirKeys ==
    \A n \in TypedNames : Connected(n) =>
        /\ registry[n].name = SystemName(n)
        /\ registry[n].participants \subseteq Members(SystemName(n))

\* A command that succeeded on a participant, and a listing shown for a system,
\* concern participants of the system the user named, never of another one
\* (getConnectedOrDiscoveredSystem and the maps it reads).
AnswersConcernNamedSystem ==
    OnOneSystem(answer) /\ answer.result = "ok" =>
        answer.shown \subseteq Members(SystemName(answer.name))

\* An entry disappears only by the successful shutdown of its own system or by
\* quit: no discovery and no failing command makes the session forget a system.
OnlyShutdownForgets ==
    [][\A n \in TypedNames : Connected(n) /\ ~Connected(n)' =>
          \/ Shutdown(answer') /\ SystemName(answer'.name) = SystemName(n)
          \/ ~running']_vars

\* After a system with a name of its own was shut down, the session does not
\* know it any more: the name is gone from the registry and from completion.
ShutdownForgets ==
    [][Shutdown(answer') /\ answer' # answer /\ answer'.name \in NamedSystems =>
          answer'.name \notin ConnectedSystemsCompletion']_vars

\* While the session monitors a system that has a name, only a command on this
\* very system ends that: a discovery of everything keeps the System objects
\* the monitor is registered with, auto discovery replaces only what is missing.
OthersKeepMonitoring ==
    [][\A n \in NamedSystems :
          (Connected(n) /\ registry[n].monitored) /\ ~(Connected(n)' /\ registry'[n].monitored) =>
              \/ /\ answer'.name = n
                 /\ answer'.command \in {"discoverSystem", "shutdownSystem",
                                         "startMonitoringSystem", "stopMonitoringSystem"}
              \/ ~running']_vars

\* With auto discovery on, no command on a system that has a name is refused
\* because it is not connected: discovery stores the system where the second
\* lookup finds it.
AutoDiscoveryConnects ==
    [][answer' # answer /\ answer'.result = "notConnected" =>
          ~autoDiscovery \/ answer'.name \notin NamedSystems]_vars

\* The session does not contradict its own listing: a participant that
\* discoverSystem or getParticipants has just shown in a system is not refused
\* by the next command as not in that system, nor the system as not connected.
\* It holds for a listing by name, whatever happens to the participant meanwhile.
ListingIsHonoured ==
    [][/\ answer.command \in {"discoverSystem", "getParticipants"}
       /\ answer.result = "ok" /\ answer.name \in NamedSystems
       /\ answer' # answer
       /\ answer'.command \in {"participant", "setParticipantState", "shutdownParticipant"}
       /\ answer'.name = answer.name
       /\ answer'.shown \subseteq answer.shown
       => answer'.result \in {"ok", "exception"}]_vars

\* After a command that succeeded on a system with a name, TAB offers the
\* participants of that system (the reason _last_system_name_used is kept).
CompletionFollowsCommand ==
    OnOneSystem(answer) /\ answer.result = "ok" /\ answer.name \in NamedSystems
      /\ Connected(answer.name)
        => ConnectedParticipantsCompletion = registry[answer.name].participants

-----------------------------------------------------------------------------
(* What comments, help texts and tests say of the registry, and the code does *)
(* not do; each is the property of a run that refutes it.                     *)

\* fep_control.cpp:1603-1607 tells the user who is refused a participant to run
\* discoverAllSystems: a participant it has just listed is then not refused.
DiscoverAllFindsParticipant ==
    [][/\ answer.command = "discoverAllSystems" /\ answer.result = "ok"
       /\ answer'.command = "participant"
       /\ answer'.shown \subseteq answer.shown \cap Members(SystemName(answer'.name))
       /\ answer'.name \in NamedSystems
       => answer'.result # "noParticipant"]_vars
=============================================================================
