------------------------- MODULE SessionOutputProofs -------------------------
(* What TLAPS proves of SessionOutput, for all sets of log threads and of     *)
(* systems and every length of a listing: the type invariant, and the three   *)
(* properties of what the client sees.                                        *)
EXTENDS SessionOutput, TLAPS

-----------------------------------------------------------------------------
(* The inductive invariant                                                    *)

SwitchCommands == {"enableJson", "disableJson"}

\* An answer is no longer than it was to be; between two commands nothing is owed.
AnswerLengthOK ==
    /\ toWrite + written <= 3 + MaxSystems
    /\ command = "none" => toWrite = 0

\* A switch has set the session's mode and, once its answer is due, the monitor's.
SwitchOK ==
    /\ command \in SwitchCommands => /\ jsonMode <=> command = "enableJson"
                                     /\ toWrite + written <= 1
    /\ (monitorJson <=> jsonMode) \/ (Switching /\ toWrite = 0)

\* The client knows the mode, unless it is just being changed.
AnnouncedOK == Switching \/ announced = Format(jsonMode)

\* A thread that wrote in the other mode has nothing left of that mode.
StaleOK == \A t \in Others : /\ stale[t] <= 1
                             /\ stale[t] = 1 => Switching \/ building[t] \in {"none", announced}

Stopping(s) == command = "stopMonitoring" /\ subject = s

\* The registrations are those the client was told of, or is about to be told of.
MonitoringOK ==
    \A s \in Systems \ unsure :
        /\ s \in registered => Expected(s)
        /\ s \in toldOn /\ life # "gone" => s \in registered \/ Stopping(s)
        /\ command = "startMonitoring" /\ subject = s =>
              (s \in registered \/ life = "gone") /\ (toWrite = 0 => s \in toldOn)
        /\ Stopping(s) => s \notin registered /\ (toWrite = 0 => s \notin toldOn)

\* A system whose System object is about to be replaced is none the client is sure of.
SubjectOK == /\ command \in {"startMonitoring", "stopMonitoring", "discoverSystem"} => subject \in Systems
             /\ command = "discoverSystem" => subject \in unsure

\* A thread that delivered a log message too many has no other of that system.
LateOK == \A s \in Systems \ unsure : \A t \in LogThreads :
             /\ late[<<t, s>>] <= 1
             /\ late[<<t, s>>] = 1 => ~Expected(s) /\ (building[t] = "none" \/ source[t] # s)

\* In JSON mode an answer is one message, between whose parts nothing comes.
WholeOK == jsonMode /\ command # "none" => toWrite + written <= 1 /\ ~split

IInv == /\ TypeOK
        /\ AnswerLengthOK /\ SwitchOK /\ AnnouncedOK /\ StaleOK
        /\ MonitoringOK /\ SubjectOK /\ LateOK /\ WholeOK

USE DEF Others, Formats, Format, SwitchCommands

-----------------------------------------------------------------------------
(* The initial states and the steps of the threads                            *)

LEMMA InitOK == Init => IInv
<1> SUFFICES ASSUME Init PROVE IInv  OBVIOUS
<1> USE MaxSystemsAssumption DEF Init
<1>1. TypeOK
  <2>1. jsonMode \in BOOLEAN /\ monitorJson \in BOOLEAN  BY Zenon
  <2>2. toWrite \in 0..(3 + MaxSystems) /\ written \in 0..(3 + MaxSystems)  OBVIOUS
  <2>3. command \in Commands /\ life \in {"alive", "socketGone", "monitorGone", "gone"}
    BY DEF Commands
  <2>4. building \in [Others -> Formats \cup {"none"}]  OBVIOUS
  <2>5. stale \in [Others -> 0..2] /\ late \in [LogThreads \X Systems -> 0..2]  OBVIOUS
  <2>6. announced \in Formats  OBVIOUS
  <2>7. split \in BOOLEAN /\ broken \in BOOLEAN  OBVIOUS
  <2>8. /\ registered \subseteq Systems /\ toldOn \subseteq Systems /\ unsure \subseteq Systems
        /\ subject \in Systems \cup {NoSystem} /\ source \in [LogThreads -> Systems \cup {NoSystem}]
    OBVIOUS
  <2> QED  BY <2>1, <2>2, <2>3, <2>4, <2>5, <2>6, <2>7, <2>8, Zenon DEF TypeOK
<1>2. AnswerLengthOK /\ WholeOK  BY DEF AnswerLengthOK, WholeOK
<1>3. SwitchOK /\ AnnouncedOK  BY DEF SwitchOK, AnnouncedOK
<1>4. StaleOK /\ MonitoringOK /\ SubjectOK /\ LateOK
  <2>1. \A s \in Systems : \A t \in LogThreads : late[<<t, s>>] = 0
    OBVIOUS
  <2>2. StaleOK /\ MonitoringOK /\ SubjectOK
    BY DEF StaleOK, MonitoringOK, SubjectOK, Expected, Stopping
  <2> HIDE DEF Init
  <2>3. 0 <= 1 /\ 0 # 1
    OBVIOUS
  <2>4. LateOK
    BY <2>1, <2>3, Zenon DEF LateOK
  <2> QED  BY <2>2, <2>4
<1> QED  BY <1>1, <1>2, <1>3, <1>4 DEF IInv

\* TypeOK in two parts, for two provers.
FlagTypes == /\ jsonMode \in BOOLEAN /\ monitorJson \in BOOLEAN
             /\ split \in BOOLEAN /\ broken \in BOOLEAN

DataTypes == /\ command \in Commands /\ subject \in Systems \cup {NoSystem}
             /\ registered \subseteq Systems /\ toldOn \subseteq Systems /\ unsure \subseteq Systems
             /\ toWrite \in 0..(3 + MaxSystems) /\ written \in 0..(3 + MaxSystems)
             /\ building \in [Others -> Formats \cup {"none"}]
             /\ source \in [LogThreads -> Systems \cup {NoSystem}]
             /\ life \in {"alive", "socketGone", "monitorGone", "gone"}
             /\ announced \in Formats
             /\ stale \in [Others -> 0..2] /\ late \in [LogThreads \X Systems -> 0..2]

LEMMA TypesOK == FlagTypes' /\ DataTypes' => TypeOK'
BY Zenon DEF FlagTypes, DataTypes, TypeOK

LEMMA Lengths ==
    ASSUME NEW c \in Commands, NEW json \in BOOLEAN
    PROVE  /\ AnswerLengths(c, json) \subseteq 0..(3 + MaxSystems)
           /\ json => AnswerLengths(c, json) \subseteq {0, 1}
<1>1. CASE json = TRUE
  BY <1>1, MaxSystemsAssumption DEF AnswerLengths, Commands
<1>2. CASE json = FALSE
  BY <1>2, MaxSystemsAssumption DEF AnswerLengths, Commands
<1> QED  BY <1>1, <1>2

\* (Zenon instantiates it where variables are primed.)
LEMMA NothingWritten ==
    \A n \in 0..(3 + MaxSystems) : n + 0 = n /\ n + 0 <= 3 + MaxSystems
BY MaxSystemsAssumption

LEMMA ExecuteOK == ASSUME IInv, NEW c \in Commands, Execute(c) PROVE IInv'
<1>0. command' # "none" /\ split' = FALSE  BY DEF Execute
<1>1. written' = 0  BY DEF Execute
<1>2. toWrite' \in 0..(3 + MaxSystems)  BY Lengths DEF IInv, TypeOK, Execute
<1>3. jsonMode' => toWrite' <= 1
  <2>1. jsonMode' => toWrite' \in {0, 1}  BY Lengths, Zenon DEF IInv, TypeOK, Execute, modeVars
  <2> QED  BY <2>1
<1>4. FlagTypes'  BY DEF IInv, TypeOK, FlagTypes, Execute, modeVars, seenVars
<1>5. DataTypes'  BY <1>2, MaxSystemsAssumption DEF IInv, TypeOK, DataTypes, Execute, modeVars, logVars, seenVars
<1>6. AnswerLengthOK'  BY <1>0, <1>1, <1>2, NothingWritten, Zenon DEF AnswerLengthOK
<1>7. SwitchOK' /\ AnnouncedOK' /\ StaleOK'
  BY DEF IInv, Execute, SwitchOK, AnnouncedOK, StaleOK, Switching, modeVars, logVars, seenVars
<1>8. MonitoringOK' /\ SubjectOK' /\ LateOK'
  BY DEF IInv, Execute, MonitoringOK, SubjectOK, LateOK, Expected, Stopping, modeVars, logVars, seenVars
<1>9. WholeOK'
  <2>1. toWrite' + written' = toWrite'  BY <1>1, <1>2, NothingWritten, Zenon
  <2> QED  BY <2>1, <1>0, <1>3, Zenon DEF WholeOK
<1> QED  BY <1>4, <1>5, <1>6, <1>7, <1>8, <1>9, TypesOK, Zenon DEF IInv

LEMMA SetSessionModeOK == ASSUME IInv, NEW b \in BOOLEAN, SetSessionMode(b) PROVE IInv'
<1> USE MaxSystemsAssumption, ThreadsAssumption DEF IInv, SetSessionMode, logVars, seenVars
<1>1. FlagTypes'  BY DEF TypeOK, FlagTypes
<1>2. DataTypes'  BY DEF TypeOK, DataTypes, Commands, AnswerLengthOK
<1>3. AnswerLengthOK'  BY DEF AnswerLengthOK, TypeOK
<1>4. SwitchOK'  BY DEF SwitchOK, AnswerLengthOK, Switching, TypeOK
<1>5. AnnouncedOK'  BY DEF AnnouncedOK, SwitchOK, AnswerLengthOK, Switching, TypeOK
<1>6. StaleOK'  BY DEF StaleOK, Switching, SwitchOK, AnnouncedOK, AnswerLengthOK, TypeOK
<1>7. MonitoringOK' /\ SubjectOK'
  BY DEF MonitoringOK, SubjectOK, Expected, Stopping, AnswerLengthOK, TypeOK, Commands
<1>8. LateOK'  BY DEF LateOK, MonitoringOK, SubjectOK, Expected, Stopping, TypeOK
<1>9. WholeOK'  BY DEF WholeOK, SwitchOK, AnswerLengthOK, TypeOK
<1> QED  BY <1>1, <1>2, <1>3, <1>4, <1>5, <1>6, <1>7, <1>8, <1>9, TypesOK, Zenon DEF IInv

LEMMA SetMonitorModeOK == ASSUME IInv, NEW b \in BOOLEAN, SetMonitorMode(b) PROVE IInv'
<1> USE MaxSystemsAssumption, ThreadsAssumption DEF IInv, SetMonitorMode, logVars, seenVars
<1>1. FlagTypes'  BY DEF TypeOK, FlagTypes
<1>2. DataTypes'  BY DEF TypeOK, DataTypes, Commands, AnswerLengthOK
<1>3. AnswerLengthOK'  BY DEF AnswerLengthOK, TypeOK
<1>4. SwitchOK'  BY DEF SwitchOK, AnswerLengthOK, Switching, TypeOK
<1>5. AnnouncedOK'  BY DEF AnnouncedOK, SwitchOK, AnswerLengthOK, Switching, TypeOK
<1>6. StaleOK'  BY DEF StaleOK, Switching, SwitchOK, AnnouncedOK, AnswerLengthOK, TypeOK
<1>7. MonitoringOK' /\ SubjectOK'
  BY DEF MonitoringOK, SubjectOK, Expected, Stopping, AnswerLengthOK, TypeOK, Commands
<1>8. LateOK'  BY DEF LateOK, MonitoringOK, SubjectOK, Expected, Stopping, TypeOK
<1>9. WholeOK'  BY DEF WholeOK, SwitchOK, AnswerLengthOK, TypeOK
<1> QED  BY <1>1, <1>2, <1>3, <1>4, <1>5, <1>6, <1>7, <1>8, <1>9, TypesOK, Zenon DEF IInv

\* The five commands that change the registration of a system.
LEMMA RegistrationOK ==
    ASSUME IInv, NEW s \in Systems,
           \/ StartMonitoring(s) \/ StartMonitoringThrows(s) \/ StopMonitoring(s)
           \/ DiscoverSystem(s) \/ ShutdownSystem(s)
    PROVE  IInv'
<1>0. /\ command = "none" /\ life = "alive" /\ subject' = s
      /\ command' \in {"startMonitoring", "stopMonitoring", "discoverSystem", "note", "error"}
      /\ late' = [l \in LogThreads \X Systems |-> IF l[2] = s THEN 0 ELSE late[l]]
      /\ written' = 0 /\ split' = FALSE
      /\ UNCHANGED <<jsonMode, monitorJson, building, source, life, announced, toldOn, stale, broken>>
  BY DEF StartMonitoring, StartMonitoringThrows, StopMonitoring, DiscoverSystem, ShutdownSystem,
         CommandOn, logVars
<1>1. toWrite' \in {1, 2} /\ (jsonMode => toWrite' = 1)
  BY DEF StartMonitoring, StartMonitoringThrows, StopMonitoring, DiscoverSystem, ShutdownSystem,
         CommandOn, AnswerLengths
<1>2. \/ /\ command' = "startMonitoring" /\ toWrite' = 1
         /\ registered' = registered \cup {s} /\ unsure' = unsure \ {s}
      \/ /\ command' = "stopMonitoring" /\ toWrite' = 1
         /\ registered' = registered \ {s} /\ unsure' = unsure \ {s}
      \/ /\ registered' \in {registered, registered \ {s}} /\ unsure' = unsure \cup {s}
         /\ command' # "startMonitoring"
  BY DEF StartMonitoring, StartMonitoringThrows, StopMonitoring, DiscoverSystem, ShutdownSystem,
         CommandOn
<1>3. command' = "discoverSystem" => unsure' = unsure \cup {s}
  BY DEF StartMonitoring, StartMonitoringThrows, StopMonitoring, DiscoverSystem, ShutdownSystem,
         CommandOn
<1>4. FlagTypes'  BY <1>0, Zenon DEF IInv, TypeOK, FlagTypes
<1>5. DataTypes'
  <2>1. toWrite' \in 0..(3 + MaxSystems) /\ written' \in 0..(3 + MaxSystems)
    BY <1>0, <1>1, MaxSystemsAssumption
  <2>2. registered' \subseteq Systems /\ unsure' \subseteq Systems
    BY <1>2 DEF IInv, TypeOK
  <2>3. late' \in [LogThreads \X Systems -> 0..2]
    BY <1>0 DEF IInv, TypeOK
  <2>4. command' \in Commands
    BY <1>0 DEF Commands
  <2> QED  BY <1>0, <2>1, <2>2, <2>3, <2>4, Zenon DEF IInv, TypeOK, DataTypes
<1>6. AnswerLengthOK'  BY <1>0, <1>1, MaxSystemsAssumption DEF AnswerLengthOK
<1>7. SwitchOK' /\ AnnouncedOK' /\ StaleOK'
  BY <1>0 DEF IInv, SwitchOK, AnnouncedOK, StaleOK, Switching
<1>8. MonitoringOK' /\ SubjectOK'
  BY <1>0, <1>1, <1>2, <1>3 DEF IInv, MonitoringOK, SubjectOK, Expected, Stopping
<1>9. LateOK'
  <2>1. \A u \in Systems : \A t \in LogThreads : late'[<<t, u>>] = IF u = s THEN 0 ELSE late[<<t, u>>]
    BY <1>0
  <2> SUFFICES ASSUME NEW u \in Systems \ unsure', NEW t \in LogThreads
               PROVE  /\ late'[<<t, u>>] <= 1
                      /\ late'[<<t, u>>] = 1 => ~Expected(u)' /\ (building'[t] = "none" \/ source'[t] # u)
    BY Zenon DEF LateOK
  <2>2. CASE u = s
    BY <2>1, <2>2
  <2>3. CASE u # s
    <3>1. late'[<<t, u>>] = late[<<t, u>>] /\ u \notin unsure
      BY <1>2, <2>1, <2>3
    <3> QED  BY <1>0, <2>3, <3>1 DEF IInv, LateOK, Expected
  <2> QED  BY <2>2, <2>3
<1>10. WholeOK'  BY <1>0, <1>1 DEF WholeOK
<1> QED  BY <1>4, <1>5, <1>6, <1>7, <1>8, <1>9, <1>10, TypesOK, Zenon DEF IInv

LEMMA WriteAnswerOK == ASSUME IInv, WriteAnswer PROVE IInv'
<1> USE MaxSystemsAssumption, ThreadsAssumption DEF IInv, WriteAnswer, modeVars, logVars
<1>1. FlagTypes'  BY DEF TypeOK, FlagTypes
<1>2. DataTypes'  BY DEF TypeOK, DataTypes, Commands, AnswerLengthOK, SubjectOK
<1>3. AnswerLengthOK'  BY DEF AnswerLengthOK, TypeOK
<1>4. SwitchOK'  BY DEF SwitchOK, AnswerLengthOK, Switching, TypeOK
<1>5. AnnouncedOK'  BY DEF AnnouncedOK, SwitchOK, AnswerLengthOK, Switching, TypeOK
<1>6. StaleOK'  BY DEF StaleOK, Switching, SwitchOK, AnnouncedOK, AnswerLengthOK, TypeOK
<1>7. MonitoringOK' /\ SubjectOK'
  BY DEF MonitoringOK, SubjectOK, Expected, Stopping, AnswerLengthOK, TypeOK, Commands
<1>8. LateOK'  BY DEF LateOK, MonitoringOK, SubjectOK, Expected, Stopping, TypeOK
<1>9. WholeOK'  BY DEF WholeOK, SwitchOK, AnswerLengthOK, TypeOK
<1> QED  BY <1>1, <1>2, <1>3, <1>4, <1>5, <1>6, <1>7, <1>8, <1>9, TypesOK, Zenon DEF IInv

LEMMA ReturnOK == ASSUME IInv, Return PROVE IInv'
<1> USE MaxSystemsAssumption, ThreadsAssumption DEF IInv, Return, Finished, logVars, seenVars
<1>1. FlagTypes'  BY DEF TypeOK, FlagTypes
<1>2. DataTypes'  BY DEF TypeOK, DataTypes, Commands, AnswerLengthOK
<1>3. AnswerLengthOK'  BY DEF AnswerLengthOK, TypeOK
<1>4. SwitchOK'  BY DEF SwitchOK, AnswerLengthOK, Switching, TypeOK
<1>5. AnnouncedOK'  BY DEF AnnouncedOK, SwitchOK, AnswerLengthOK, Switching, TypeOK
<1>6. StaleOK'  BY DEF StaleOK, Switching, SwitchOK, AnnouncedOK, AnswerLengthOK, TypeOK
<1>7. MonitoringOK' /\ SubjectOK'
  BY DEF MonitoringOK, SubjectOK, Expected, Stopping, AnswerLengthOK, TypeOK, Commands
<1>8. LateOK'  BY DEF LateOK, MonitoringOK, SubjectOK, Expected, Stopping, TypeOK
<1>9. WholeOK'  BY DEF WholeOK, SwitchOK, AnswerLengthOK, TypeOK
<1> QED  BY <1>1, <1>2, <1>3, <1>4, <1>5, <1>6, <1>7, <1>8, <1>9, TypesOK, Zenon DEF IInv

LEMMA BuildLogOK ==
    ASSUME IInv, NEW t \in LogThreads, NEW s \in Systems, BuildLog(t, s) PROVE IInv'
<1> USE MaxSystemsAssumption, ThreadsAssumption DEF IInv, BuildLog, modeVars, answerVars, logVars, seenVars
<1>1. FlagTypes'  BY DEF TypeOK, FlagTypes
<1>2. DataTypes'  BY DEF TypeOK, DataTypes, Commands, AnswerLengthOK
<1>3. AnswerLengthOK'  BY DEF AnswerLengthOK, TypeOK
<1>4. SwitchOK'  BY DEF SwitchOK, AnswerLengthOK, Switching, TypeOK
<1>5. AnnouncedOK'  BY DEF AnnouncedOK, SwitchOK, AnswerLengthOK, Switching, TypeOK
<1>6. StaleOK'  BY DEF StaleOK, Switching, SwitchOK, AnnouncedOK, AnswerLengthOK, TypeOK
<1>7. MonitoringOK' /\ SubjectOK'
  BY DEF MonitoringOK, SubjectOK, Expected, Stopping, AnswerLengthOK, TypeOK, Commands
<1>8. LateOK'  BY DEF LateOK, MonitoringOK, SubjectOK, Expected, Stopping, TypeOK
<1>9. WholeOK'  BY DEF WholeOK, SwitchOK, AnswerLengthOK, TypeOK
<1> QED  BY <1>1, <1>2, <1>3, <1>4, <1>5, <1>6, <1>7, <1>8, <1>9, TypesOK, Zenon DEF IInv

LEMMA WriteLogOK == ASSUME IInv, NEW t \in LogThreads, WriteLog(t) PROVE IInv'
<1> USE MaxSystemsAssumption, ThreadsAssumption DEF IInv, WriteLog, Seen, modeVars
<1>1. FlagTypes'  BY DEF TypeOK, FlagTypes
<1>2. DataTypes'  BY DEF TypeOK, DataTypes, Commands, AnswerLengthOK
<1>3. AnswerLengthOK'  BY DEF AnswerLengthOK, TypeOK
<1>4. SwitchOK'  BY DEF SwitchOK, AnswerLengthOK, Switching, TypeOK
<1>5. AnnouncedOK'  BY DEF AnnouncedOK, SwitchOK, AnswerLengthOK, Switching, TypeOK
<1>6. StaleOK'  BY DEF StaleOK, Switching, SwitchOK, AnnouncedOK, AnswerLengthOK, TypeOK
<1>7. MonitoringOK' /\ SubjectOK'
  BY DEF MonitoringOK, SubjectOK, Expected, Stopping, AnswerLengthOK, TypeOK, Commands
<1>8. LateOK'
  <2> SUFFICES ASSUME NEW u \in Systems \ unsure, NEW r \in LogThreads
               PROVE  /\ late'[<<r, u>>] <= 1
                      /\ late'[<<r, u>>] = 1 => ~Expected(u) /\ (building'[r] = "none" \/ source'[r] # u)
    BY DEF LateOK, Expected
  <2>1. late'[<<r, u>>] = IF r = t /\ u = source[t] /\ ~Expected(u) /\ late[<<r, u>>] < 2
                      THEN late[<<r, u>>] + 1 ELSE late[<<r, u>>]
    OBVIOUS
  <2>2. /\ building' = [building EXCEPT ![t] = "none"] /\ source' = [source EXCEPT ![t] = NoSystem]
        /\ building[t] # "none" /\ u # NoSystem
    BY SystemsAssumption
  <2>3. /\ building \in [Others -> Formats \cup {"none"}] /\ source \in [LogThreads -> Systems \cup {NoSystem}]
        /\ late[<<r, u>>] \in 0..2 /\ late[<<r, u>>] <= 1
        /\ late[<<r, u>>] = 1 => ~Expected(u) /\ (building[r] = "none" \/ source[r] # u)
    BY DEF TypeOK, LateOK
  <2> HIDE DEF WriteLog, IInv
  <2> QED  BY <2>1, <2>2, <2>3
<1>9. WholeOK'  BY DEF WholeOK, SwitchOK, AnswerLengthOK, TypeOK
<1> QED  BY <1>1, <1>2, <1>3, <1>4, <1>5, <1>6, <1>7, <1>8, <1>9, TypesOK, Zenon DEF IInv

LEMMA BuildByeOK == ASSUME IInv, BuildBye PROVE IInv'
<1> USE MaxSystemsAssumption, ThreadsAssumption DEF IInv, BuildBye, modeVars, answerVars, logVars, seenVars
<1>1. FlagTypes'  BY DEF TypeOK, FlagTypes
<1>2. DataTypes'  BY DEF TypeOK, DataTypes, Commands, AnswerLengthOK
<1>3. AnswerLengthOK'  BY DEF AnswerLengthOK, TypeOK
<1>4. SwitchOK'  BY DEF SwitchOK, AnswerLengthOK, Switching, TypeOK
<1>5. AnnouncedOK'  BY DEF AnnouncedOK, SwitchOK, AnswerLengthOK, Switching, TypeOK
<1>6. StaleOK'  BY DEF StaleOK, Switching, SwitchOK, AnnouncedOK, AnswerLengthOK, TypeOK
<1>7. MonitoringOK' /\ SubjectOK'
  BY DEF MonitoringOK, SubjectOK, Expected, Stopping, AnswerLengthOK, TypeOK, Commands
<1>8. LateOK'  BY DEF LateOK, MonitoringOK, SubjectOK, Expected, Stopping, TypeOK
<1>9. WholeOK'  BY DEF WholeOK, SwitchOK, AnswerLengthOK, TypeOK
<1> QED  BY <1>1, <1>2, <1>3, <1>4, <1>5, <1>6, <1>7, <1>8, <1>9, TypesOK, Zenon DEF IInv

LEMMA WriteByeOK == ASSUME IInv, WriteBye PROVE IInv'
<1> USE MaxSystemsAssumption, ThreadsAssumption DEF IInv, WriteBye, Seen, modeVars
<1>1. FlagTypes'  BY DEF TypeOK, FlagTypes
<1>2. DataTypes'  BY DEF TypeOK, DataTypes, Commands, AnswerLengthOK
<1>3. AnswerLengthOK'  BY DEF AnswerLengthOK, TypeOK
<1>4. SwitchOK'  BY DEF SwitchOK, AnswerLengthOK, Switching, TypeOK
<1>5. AnnouncedOK'  BY DEF AnnouncedOK, SwitchOK, AnswerLengthOK, Switching, TypeOK
<1>6. StaleOK'  BY DEF StaleOK, Switching, SwitchOK, AnnouncedOK, AnswerLengthOK, TypeOK
<1>7. MonitoringOK' /\ SubjectOK'
  BY DEF MonitoringOK, SubjectOK, Expected, Stopping, AnswerLengthOK, TypeOK, Commands
<1>8. LateOK'  BY DEF LateOK, MonitoringOK, SubjectOK, Expected, Stopping, TypeOK
<1>9. WholeOK'  BY DEF WholeOK, SwitchOK, AnswerLengthOK, TypeOK
<1> QED  BY <1>1, <1>2, <1>3, <1>4, <1>5, <1>6, <1>7, <1>8, <1>9, TypesOK, Zenon DEF IInv

LEMMA DestroyOK == ASSUME IInv, DestroySocket \/ DestroyMonitor \/ DestroySystems PROVE IInv'
<1> USE MaxSystemsAssumption, ThreadsAssumption DEF IInv, DestroySocket, DestroyMonitor, DestroySystems, modeVars, answerVars, logVars, seenVars
<1>1. FlagTypes'  BY DEF TypeOK, FlagTypes
<1>2. DataTypes'  BY DEF TypeOK, DataTypes, Commands, AnswerLengthOK
<1>3. AnswerLengthOK'  BY DEF AnswerLengthOK, TypeOK
<1>4. SwitchOK'  BY DEF SwitchOK, AnswerLengthOK, Switching, TypeOK
<1>5. AnnouncedOK'  BY DEF AnnouncedOK, SwitchOK, AnswerLengthOK, Switching, TypeOK
<1>6. StaleOK'  BY DEF StaleOK, Switching, SwitchOK, AnnouncedOK, AnswerLengthOK, TypeOK
<1>7. MonitoringOK' /\ SubjectOK'
  BY DEF MonitoringOK, SubjectOK, Expected, Stopping, AnswerLengthOK, TypeOK, Commands
<1>8. LateOK'  BY DEF LateOK, MonitoringOK, SubjectOK, Expected, Stopping, TypeOK
<1>9. WholeOK'  BY DEF WholeOK, SwitchOK, AnswerLengthOK, TypeOK
<1> QED  BY <1>1, <1>2, <1>3, <1>4, <1>5, <1>6, <1>7, <1>8, <1>9, TypesOK, Zenon DEF IInv

LEMMA StutterOK == ASSUME IInv, UNCHANGED vars PROVE IInv'
<1> USE DEF IInv, vars, modeVars, answerVars, logVars, seenVars
<1>1. TypeOK' /\ AnswerLengthOK'  BY DEF TypeOK, AnswerLengthOK
<1>2. SwitchOK' /\ AnnouncedOK' /\ StaleOK'
  BY DEF SwitchOK, AnnouncedOK, StaleOK, Switching
<1>3. MonitoringOK' /\ SubjectOK' /\ LateOK' /\ WholeOK'
  BY DEF MonitoringOK, SubjectOK, LateOK, Expected, Stopping, WholeOK
<1> QED  BY <1>1, <1>2, <1>3

-----------------------------------------------------------------------------
(* The theorems                                                               *)

LEMMA NextOK == IInv /\ [Next]_vars => IInv'
BY ExecuteOK, SetSessionModeOK, SetMonitorModeOK, RegistrationOK, WriteAnswerOK, ReturnOK,
   BuildLogOK, WriteLogOK, BuildByeOK, WriteByeOK, DestroyOK, StutterOK, Zenon DEF Next

\* The inductive invariant holds in every state of every run.
THEOREM OutputInvariant == Spec => []IInv
BY InitOK, NextOK, PTL DEF Spec

\* The types: an answer is never longer than a listing of all systems.
THEOREM OutputTypeCorrect == Spec => []TypeOK
<1>1. IInv => TypeOK  BY DEF IInv
<1> QED  BY <1>1, OutputInvariant, PTL

\* enableJson and disableJson: behind their answer every other thread has at most
\* one message in the other mode.
THEOREM FormatFollowsAnswer == Spec => []ModeFollowsAnswer
<1>1. IInv => ModeFollowsAnswer  BY DEF IInv, StaleOK, ModeFollowsAnswer
<1> QED  BY <1>1, OutputInvariant, PTL

\* startMonitoringSystem and stopMonitoringSystem: what the client was told of the
\* monitoring of a system holds, whatever happens to the others, behind calls the
\* library did not refuse.
THEOREM MonitoringIsAsTold == Spec => []MonitoringFollowsAnswer
<1>1. IInv => MonitoringFollowsAnswer
  BY DEF IInv, MonitoringOK, LateOK, Stopping, MonitoringFollowsAnswer
<1> QED  BY <1>1, OutputInvariant, PTL

\* writeNote, writeError and the listings: an answer in JSON is never interrupted by
\* a message of another thread.
THEOREM JsonAnswersAreWhole == Spec => []JsonAnswerIsWhole
<1>1. IInv => JsonAnswerIsWhole  BY DEF IInv, WholeOK, JsonAnswerIsWhole
<1> QED  BY <1>1, OutputInvariant, PTL
=============================================================================
