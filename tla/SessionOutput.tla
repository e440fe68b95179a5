---------------------------- MODULE SessionOutput ----------------------------
(* What one session writes to its client, and who writes it:                  *)
(*   - the command thread, the answers of the handlers (writeNote, writeNotes,*)
(*     writeError, writeException of fep_control.cpp), in JSON or as text;    *)
(*   - the threads of the fep3 library that deliver log messages to the       *)
(*     session's Monitor (monitor.cpp) while a system is monitored;           *)
(*   - the main thread, the message of the shutdown.                          *)
(* Every writeOutput is one message, whole (the sink is locked); an answer    *)
(* may take several.  The mode is kept twice, in the session and in its       *)
(* monitor, without a lock: a thread reads it, builds its message, and writes *)
(* it later.                                                                  *)
EXTENDS Naturals, Sequences

CONSTANTS LogThreads,  \* the library's threads that call onLog
          MainThread,
          Systems,     \* the systems of the session that can be monitored
          NoSystem,
          MaxSystems   \* bound: how many systems a listing shows

ASSUME ThreadsAssumption == MainThread \notin LogThreads
ASSUME SystemsAssumption == NoSystem \notin Systems
ASSUME MaxSystemsAssumption == MaxSystems \in Nat

Others == LogThreads \cup {MainThread}

VARIABLES
    jsonMode,     \* FepControl::_json_mode
    monitorJson,  \* Monitor::_json_mode
    registered,   \* the systems the monitor is registered with
    command,      \* what the command thread is executing
    subject,      \* the system whose monitoring the command is about
    toWrite,      \* how many messages its answer still takes
    written,      \* how many it has taken
    building,     \* the format of the message each other thread is building
    source,       \* the system whose log message it is
    life,         \* how far the destruction of the session object is
    announced,    \* the mode the client was last told
    toldOn,       \* the systems the client was last told to be monitored
    unsure,       \* those of which it cannot know: the library refused to register the
                  \* monitor or to end that, or the System was replaced or erased, since
    stale,        \* messages in the other mode since, by thread (at most 2 counted)
    late,         \* log messages of a system that is told to be off since the last
                  \* command on its monitoring, by thread (likewise)
    split,        \* another message came between two of the same answer
    broken        \* onLog was called on an object that is being destroyed

modeVars  == <<jsonMode, monitorJson, registered>>
answerVars == <<command, subject, toWrite, written, split>>
logVars   == <<building, source>>
seenVars  == <<announced, toldOn, unsure, stale, late>>
vars == <<modeVars, answerVars, logVars, life, seenVars, broken>>

Formats == {"json", "text"}
Format(json) == IF json THEN "json" ELSE "text"

\* The kinds of commands, by what their handlers write.  "note" is one writeNote
\* or writeException; "error" a writeError, with or without a reason; "listing"
\* discoverAllSystems; "silent" one that writes nothing (help on an unknown
\* command, the property names of a participant without configuration).
Commands == {"none", "note", "error", "errorWithReason", "listing", "silent",
             "enableJson", "disableJson", "startMonitoring", "stopMonitoring", "discoverSystem"}

TypeOK == /\ jsonMode \in BOOLEAN /\ monitorJson \in BOOLEAN /\ registered \subseteq Systems
          /\ command \in Commands /\ subject \in Systems \cup {NoSystem}
          /\ toWrite \in 0..(3 + MaxSystems) /\ written \in 0..(3 + MaxSystems)
          /\ building \in [Others -> Formats \cup {"none"}]
          /\ source \in [LogThreads -> Systems \cup {NoSystem}]
          /\ life \in {"alive", "socketGone", "monitorGone", "gone"}
          /\ announced \in Formats /\ toldOn \subseteq Systems /\ unsure \subseteq Systems
          /\ stale \in [Others -> 0..2] /\ late \in [LogThreads \X Systems -> 0..2]
          /\ split \in BOOLEAN /\ broken \in BOOLEAN

Init == /\ jsonMode \in BOOLEAN /\ monitorJson = jsonMode
        /\ registered = {}
        /\ command = "none" /\ subject = NoSystem /\ toWrite = 0 /\ written = 0
        /\ building = [t \in Others |-> "none"] /\ source = [t \in LogThreads |-> NoSystem]
        /\ life = "alive"
        /\ announced = Format(jsonMode) /\ toldOn = {} /\ unsure = {}
        /\ stale = [t \in Others |-> 0] /\ late = [l \in LogThreads \X Systems |-> 0]
        /\ split = FALSE /\ broken = FALSE

-----------------------------------------------------------------------------
(* The command thread *)

\* Slip: a listing takes a message per system in JSON, too.
AnswerLengthsTorn(c, json) ==
    CASE c = "silent"                       -> {0}
      [] c = "listing"                      -> 0..MaxSystems
      [] c = "error" /\ ~json               -> {2}
      [] c = "errorWithReason" /\ ~json     -> {3}
      [] OTHER                              -> {1}

\* How many messages the answer takes.
AnswerLengths(c, json) ==
    CASE c = "silent"                       -> {0}
      [] c = "listing" /\ ~json             -> 0..MaxSystems
      [] c = "error" /\ ~json               -> {2}
      [] c = "errorWithReason" /\ ~json     -> {3}
      [] OTHER                              -> {1}

\* A handler up to its answer.
Execute(c) ==
    /\ life = "alive" /\ command = "none"
    /\ c \in {"note", "error", "errorWithReason", "listing", "silent"}
    /\ command' = c
    /\ toWrite' \in AnswerLengths(c, jsonMode)
    /\ written' = 0 /\ split' = FALSE
    /\ UNCHANGED <<modeVars, subject, logVars, life, seenVars, broken>>

\* enableJson and disableJson set the two flags one after the other.
SetSessionMode(json) ==
    /\ life = "alive" /\ command = "none"
    /\ command' = IF json THEN "enableJson" ELSE "disableJson"
    /\ jsonMode' = json
    /\ toWrite' = 0 /\ written' = 0 /\ split' = FALSE
    /\ UNCHANGED <<monitorJson, registered, subject, logVars, life, seenVars, broken>>

\* Slip: the monitor is not told of the switch.
SetMonitorModeForgotten(json) ==
    /\ command = IF json THEN "enableJson" ELSE "disableJson"
    /\ toWrite = 0 /\ written = 0
    /\ toWrite' = 1
    /\ UNCHANGED <<modeVars, command, subject, written, split, logVars, life, seenVars, broken>>

SetMonitorMode(json) ==
    /\ command = IF json THEN "enableJson" ELSE "disableJson"
    /\ toWrite = 0 /\ written = 0
    /\ monitorJson' = json
    /\ toWrite' = 1
    /\ UNCHANGED <<jsonMode, registered, command, subject, written, split, logVars, life,
                   seenVars, broken>>

\* A command that changes the registration of system s, answered next.
CommandOn(c, s) ==
    /\ life = "alive" /\ command = "none"
    /\ command' = c /\ subject' = s
    /\ late' = [l \in LogThreads \X Systems |-> IF l[2] = s THEN 0 ELSE late[l]]
    /\ written' = 0 /\ split' = FALSE
    /\ UNCHANGED <<jsonMode, monitorJson, logVars, life, announced, toldOn, stale, broken>>

\* startMonitoringSystem: the old registration is taken back, the new one made.
StartMonitoring(s) ==
    /\ CommandOn("startMonitoring", s)
    /\ registered' = registered \cup {s} /\ unsure' = unsure \ {s}
    /\ toWrite' = 1

\* The new registration throws, behind an old one that was taken back or not.  A server
\* answers that with an error; the console ends here.
StartMonitoringThrows(s) ==
    /\ CommandOn("error", s)
    /\ registered' \in {registered, registered \ {s}} /\ unsure' = unsure \cup {s}
    /\ toWrite' \in AnswerLengths("error", jsonMode)

\* Slip: the monitoring of a system is stopped, its registration is left.
StopMonitoringUnregistersNot(s) ==
    /\ CommandOn("stopMonitoring", s)
    /\ registered' = registered /\ unsure' = unsure \ {s}
    /\ toWrite' = 1

\* stopMonitoringSystem.  It gives the same answer when the library refuses to take
\* the registration back, which it ignores.
StopMonitoring(s) ==
    /\ CommandOn("stopMonitoring", s)
    /\ \/ registered' = registered \ {s} /\ unsure' = unsure \ {s}
       \/ registered' = registered /\ unsure' = unsure \cup {s}
    /\ toWrite' = 1

\* discoverSystem answers, and replaces the System when it returns; shutdownSystem
\* erases it and answers.  The registration goes with it.
DiscoverSystem(s) ==
    /\ CommandOn("discoverSystem", s)
    /\ registered' = registered /\ unsure' = unsure \cup {s}
    /\ toWrite' = 1

ShutdownSystem(s) ==
    /\ CommandOn("note", s)
    /\ registered' = registered \ {s} /\ unsure' = unsure \cup {s}
    /\ toWrite' = 1

\* Slip: one message too many.
WriteAnswerOnceMore ==
    /\ toWrite >= 0 /\ command # "none"
    /\ toWrite' = toWrite - 1
    /\ written' = written + 1
    /\ UNCHANGED <<modeVars, command, subject, split, logVars, life, seenVars, broken>>

\* One writeOutput of the answer.  The answer of a switch tells the client the
\* mode, that of stopMonitoringSystem that no log messages of the system are to come.
WriteAnswer ==
    /\ toWrite > 0
    /\ toWrite' = toWrite - 1
    /\ written' = written + 1
    /\ IF command \in {"enableJson", "disableJson"}
       THEN announced' = Format(jsonMode) /\ stale' = [t \in Others |-> 0]
       ELSE UNCHANGED <<announced, stale>>
    /\ toldOn' = CASE command = "startMonitoring" -> toldOn \cup {subject}
                   [] command = "stopMonitoring"  -> toldOn \ {subject}
                   [] OTHER                       -> toldOn
    /\ UNCHANGED <<modeVars, command, subject, split, logVars, life, unsure, late, broken>>

Finished == /\ command # "none" /\ toWrite = 0
            /\ command \in {"enableJson", "disableJson"} => written > 0

\* The handler returns and the session reads the next line.
Return == /\ Finished
          /\ command' = "none" /\ subject' = NoSystem
          /\ registered' = IF command = "discoverSystem" THEN registered \ {subject} ELSE registered
          /\ UNCHANGED <<jsonMode, monitorJson, toWrite, written, split, logVars, life, seenVars, broken>>

-----------------------------------------------------------------------------
(* The other threads *)

Switching == command \in {"enableJson", "disableJson"} /\ written = 0

\* A message of another thread reaches the client.  While a switch is under way
\* either format is right.
Seen(t) ==
    /\ split' = (split \/ (toWrite > 0 /\ written > 0))
    /\ stale' = IF building[t] = announced \/ Switching \/ stale[t] = 2 THEN stale
                ELSE [stale EXCEPT ![t] = @ + 1]
    /\ building' = [building EXCEPT ![t] = "none"]

\* onLog, for a message of system s, looks at the monitor's mode ...
BuildLog(t, s) ==
    /\ s \in registered /\ life # "gone" /\ building[t] = "none"
    /\ building' = [building EXCEPT ![t] = Format(monitorJson)]
    /\ source' = [source EXCEPT ![t] = s]
    /\ broken' = (broken \/ life # "alive")
    /\ UNCHANGED <<modeVars, answerVars, life, seenVars>>

\* Is the client prepared for messages of system s?
Expected(s) == s \in toldOn \/ (command = "startMonitoring" /\ subject = s)

\* ... and writes the message.
WriteLog(t) ==
    /\ building[t] # "none"
    /\ Seen(t)
    /\ source' = [source EXCEPT ![t] = NoSystem]
    /\ late' = [l \in LogThreads \X Systems |->
                    IF l = <<t, source[t]>> /\ ~Expected(source[t]) /\ late[l] < 2
                    THEN late[l] + 1 ELSE late[l]]
    /\ broken' = (broken \/ life # "alive")
    /\ UNCHANGED <<modeVars, command, subject, toWrite, written, life, announced, toldOn, unsure>>

\* writeShutdownMessage, on the main thread.
BuildBye == /\ life = "alive" /\ building[MainThread] = "none"
            /\ building' = [building EXCEPT ![MainThread] = Format(jsonMode)]
            /\ UNCHANGED <<modeVars, answerVars, source, life, seenVars, broken>>

WriteBye == /\ building[MainThread] # "none"
            /\ Seen(MainThread)
            /\ UNCHANGED <<modeVars, command, subject, toWrite, written, source, life, announced,
                           toldOn, unsure, late, broken>>

-----------------------------------------------------------------------------
(* The end of the session.  The client has gone, its thread releases the      *)
(* session object (main is not using it): the socket of the derived class is  *)
(* destroyed first, then the members of FepControl in reverse order, the      *)
(* monitor before the systems it is registered with.                          *)

DestroySocket == /\ life = "alive" /\ command = "none" /\ building[MainThread] = "none"
                 /\ life' = "socketGone"
                 /\ UNCHANGED <<modeVars, answerVars, logVars, seenVars, broken>>

DestroyMonitor == /\ life = "socketGone"
                  /\ life' = "monitorGone"
                  /\ UNCHANGED <<modeVars, answerVars, logVars, seenVars, broken>>

DestroySystems == /\ life = "monitorGone"
                  /\ life' = "gone"
                  /\ registered' = {}
                  /\ UNCHANGED <<jsonMode, monitorJson, answerVars, logVars, seenVars, broken>>

-----------------------------------------------------------------------------
Next == \/ \E c \in Commands : Execute(c)
        \/ \E b \in BOOLEAN : SetSessionMode(b) \/ SetMonitorMode(b)
        \/ \E s \in Systems : \/ StartMonitoring(s) \/ StartMonitoringThrows(s) \/ StopMonitoring(s)
                             \/ DiscoverSystem(s) \/ ShutdownSystem(s)
        \/ WriteAnswer \/ Return
        \/ \E t \in LogThreads : WriteLog(t) \/ \E s \in Systems : BuildLog(t, s)
        \/ BuildBye \/ WriteBye
        \/ DestroySocket \/ DestroyMonitor \/ DestroySystems

Spec == Init /\ [][Next]_vars

-----------------------------------------------------------------------------
(* Properties *)

\* Once the client was told the mode, every other thread writes at most one more
\* message in the other one: that whose mode it had read before.
ModeFollowsAnswer == \A t \in Others : stale[t] <= 1

\* The client may rely on what it was last told of the monitoring of a system, whatever
\* it asks of the others, unless the library refused to register the monitor or to end
\* that, or the client had the system discovered or shut down since: while it is told
\* that a system is monitored the monitor is registered with it (until the session
\* ends), and once it is told that the system is not, each log thread delivers at most
\* the message of it that it was already building.
MonitoringFollowsAnswer ==
    \A s \in Systems \ unsure :
        /\ s \in toldOn /\ life # "gone" =>
              s \in registered \/ (command = "stopMonitoring" /\ subject = s)
        /\ \A t \in LogThreads : late[<<t, s>>] <= 1

\* In JSON mode no answer is torn apart by a log message or by the shutdown
\* message: a client that parses messages one by one sees whole answers.
JsonAnswerIsWhole == jsonMode /\ command # "none" => ~split

-----------------------------------------------------------------------------
(* What is said of the end of a session and does not hold.                   *)

\* fep_control.cpp:815, "we clear that here before any static variable is closed":
\* the systems of a session go before what their callbacks use does.
NoLogIntoDestroyedSession == ~broken
=============================================================================
