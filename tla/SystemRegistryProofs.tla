------------------------- MODULE SystemRegistryProofs -------------------------
(* Theorems about SystemRegistry, for every set of participants and systems.  *)
(*                                                                            *)
(* The inductive invariant is the type invariant, EntriesAreTheirKeys and     *)
(* AnswersConcernNamedSystem together.  RegistryOK is what the first two say  *)
(* of a registry; the lemmas show that everything a command does to a         *)
(* registry (a lookup, a discovered system, an erased entry, a changed        *)
(* registration) yields a registry that is RegistryOK again.                  *)
EXTENDS SystemRegistry, TLAPS

Registries == [TypedNames -> SystemObjects \cup {NotConnected}]

EntryOK(n, sys) == /\ sys \in SystemObjects
                   /\ sys.name = SystemName(n)
                   /\ sys.participants \subseteq Members(SystemName(n))

RegistryOK(r) == /\ r \in Registries
                 /\ \A n \in TypedNames : r[n] # NotConnected => EntryOK(n, r[n])

IInv == TypeOK /\ EntriesAreTheirKeys /\ AnswersConcernNamedSystem

\* A typed name stands for the name of a system, which stands for itself.
LEMMA SystemNameOf ==
    ASSUME NEW n \in TypedNames
    PROVE  /\ SystemName(n) \in SystemNames
           /\ SystemName(n) \in TypedNames
           /\ SystemName(SystemName(n)) = SystemName(n)
           /\ n \in NamedSystems => SystemName(n) = n
BY NamesAssumption DEF SystemName, TypedNames, NamedSystems

\* The listed name of a system stands for that system.
LEMMA ListedNameOf ==
    ASSUME NEW s \in SystemNames
    PROVE  /\ ListedName(s) \in TypedNames
           /\ SystemName(ListedName(s)) = s
BY NamesAssumption DEF SystemName, ListedName, TypedNames

\* Type correctness and EntriesAreTheirKeys are RegistryOK of the registry.
LEMMA RegistryOKIsInv ==
    ASSUME registry \in Registries
    PROVE  EntriesAreTheirKeys <=> RegistryOK(registry)
BY EntryAssumption DEF EntriesAreTheirKeys, RegistryOK, EntryOK, Registries, Connected

\* A System object that discovery made for n is an entry for n.
LEMMA NewSystemOK ==
    ASSUME NEW n \in TypedNames,
           NEW found \in SUBSET (Participants \cap Members(SystemName(n)))
    PROVE  /\ EntryOK(n, NewSystem(SystemName(n), found))
           /\ EntryOK(SystemName(n), NewSystem(SystemName(n), found))
           /\ NewSystem(SystemName(n), found) # NotConnected
<1> DEFINE s == SystemName(n)
<1>1. s \in SystemNames /\ SystemName(s) = s
  BY SystemNameOf
<1> HIDE DEF s
<1>2. NewSystem(s, found) \in SystemObjects
  BY <1>1 DEF NewSystem, SystemObjects
<1>3. NewSystem(s, found).name = s /\ NewSystem(s, found).participants = found
  BY DEF NewSystem
<1>4. found \subseteq Members(s)
  BY DEF s
<1>5. NewSystem(s, found) # NotConnected
  BY <1>2, EntryAssumption
<1>6. EntryOK(s, NewSystem(s, found))
  BY <1>1, <1>2, <1>3, <1>4 DEF EntryOK
<1>7. EntryOK(n, NewSystem(s, found))
  BY <1>2, <1>3, <1>4 DEF EntryOK, s
<1> QED
  BY <1>5, <1>6, <1>7 DEF s

\* Storing an entry under its key, or erasing one, keeps a registry correct.
LEMMA StoreOK ==
    ASSUME NEW r, RegistryOK(r), NEW n \in TypedNames,
           NEW sys, sys = NotConnected \/ EntryOK(n, sys)
    PROVE  RegistryOK([r EXCEPT ![n] = sys])
BY DEF RegistryOK, EntryOK, Registries

\* Changing the registration of the monitor keeps a registry correct.
LEMMA MonitorOK ==
    ASSUME NEW r, RegistryOK(r), NEW n \in TypedNames, r[n] # NotConnected,
           NEW b \in BOOLEAN
    PROVE  /\ RegistryOK([r EXCEPT ![n].monitored = b])
           /\ [r EXCEPT ![n].monitored = b][n] # NotConnected
<1>1. EntryOK(n, r[n])
  BY DEF RegistryOK
<1> DEFINE sys == [r[n] EXCEPT !.monitored = b]
<1>2. EntryOK(n, sys)
  BY <1>1 DEF EntryOK, SystemObjects
<1>3. [r EXCEPT ![n].monitored = b] = [r EXCEPT ![n] = sys]
  BY DEF RegistryOK, Registries
<1>4. sys # NotConnected
  BY <1>2, EntryAssumption DEF EntryOK
<1>5. RegistryOK([r EXCEPT ![n] = sys])
  BY <1>2, StoreOK
<1> QED
  BY <1>3, <1>4, <1>5 DEF RegistryOK, Registries

\* What every handler gets from its lookup: a correct registry that has lost no
\* entry, and the entry of the name when it says so.
LEMMA LookupOK ==
    ASSUME TypeOK, EntriesAreTheirKeys, NEW n \in TypedNames, NEW found \in Lookup(n)
    PROVE  /\ RegistryOK(found.registry)
           /\ found.result \in Results
           /\ found.result = "ok" => found.registry[n] # NotConnected
           /\ \A k \in TypedNames : Connected(k) => found.registry[k] # NotConnected
<1> DEFINE Outcome(r) == [registry |-> r,
                          result |-> IF r[n] = NotConnected THEN "notConnected" ELSE "ok"]
           Stored(heard) == [registry EXCEPT ![SystemName(n)] = NewSystem(SystemName(n), heard)]
<1>1. RegistryOK(registry) /\ registry \in Registries
  BY RegistryOKIsInv DEF TypeOK, Registries
<1>2. CASE found = Outcome(registry)
  BY <1>1, <1>2 DEF Results, Connected
<1>3. CASE found = [registry |-> registry, result |-> "exception"]
  BY <1>1, <1>3 DEF Results, Connected
<1>4. ASSUME NEW heard \in SUBSET (up \cap Members(SystemName(n))), found = Outcome(Stored(heard))
      PROVE  /\ RegistryOK(found.registry)
             /\ found.result \in Results
             /\ found.result = "ok" => found.registry[n] # NotConnected
             /\ \A k \in TypedNames : Connected(k) => found.registry[k] # NotConnected
  <2>1. heard \in SUBSET (Participants \cap Members(SystemName(n)))
    BY DEF TypeOK
  <2>2. /\ SystemName(n) \in TypedNames
        /\ EntryOK(SystemName(n), NewSystem(SystemName(n), heard))
        /\ NewSystem(SystemName(n), heard) # NotConnected
    BY <2>1, SystemNameOf, NewSystemOK
  <2>3. RegistryOK(Stored(heard))
    BY <1>1, <2>2, StoreOK
  <2>4. \A k \in TypedNames : Connected(k) => Stored(heard)[k] # NotConnected
    BY <1>1, <2>2 DEF Connected, Registries
  <2>5. found.registry = Stored(heard)
    BY <1>4
  <2>6. /\ found.result \in Results
        /\ found.result = "ok" => found.registry[n] # NotConnected
    BY <1>4 DEF Results
  <2> QED
    BY <2>3, <2>4, <2>5, <2>6
<1> QED
  BY <1>2, <1>3, <1>4 DEF Lookup, Discovered

-----------------------------------------------------------------------------
(* The inductive invariant *)

\* A step whose registry, answer and flags are correct preserves IInv.
LEMMA IInvOfParts ==
    ASSUME up' \subseteq Participants, RegistryOK(registry'), autoDiscovery' \in BOOLEAN,
           lastUsed' \in TypedNames, answer' \in Answers, running' \in BOOLEAN,
           OnOneSystem(answer') /\ answer'.result = "ok" =>
               answer'.shown \subseteq Members(SystemName(answer'.name))
    PROVE  IInv'
<1>1. TypeOK'
  BY DEF TypeOK, RegistryOK, Registries
<1>2. EntriesAreTheirKeys'
  BY EntryAssumption DEF EntriesAreTheirKeys, RegistryOK, EntryOK, Connected
<1>3. AnswersConcernNamedSystem'
  BY DEF AnswersConcernNamedSystem
<1> QED
  BY <1>1, <1>2, <1>3 DEF IInv

\* A lookup leaves a typed name as the last name used.
LEMMA LastUsedOK ==
    ASSUME TypeOK, NEW n \in TypedNames
    PROVE  LastUsedByLookup(n) \in TypedNames
BY DEF LastUsedByLookup, TypeOK

\* A handler that stops at its lookup preserves the invariant.
LEMMA LookupFailsOK ==
    ASSUME IInv, NEW n \in TypedNames, NEW c \in Commands, LookupFails(c, n),
           lastUsed' = LastUsedByLookup(n), UNCHANGED <<autoDiscovery, running>>
    PROVE  IInv'
<1>1. PICK found \in Lookup(n) : /\ found.result # "ok"
                                 /\ registry' = found.registry
                                 /\ answer' = Answer(c, n, found.result, {})
                                 /\ up' = up
  BY DEF LookupFails
<1>2. RegistryOK(found.registry) /\ found.result \in Results
  BY LookupOK DEF IInv
<1>3. answer' \in Answers /\ answer'.result # "ok"
  BY <1>1, <1>2 DEF Answer, Answers
<1> QED
  BY <1>1, <1>2, <1>3, LastUsedOK, IInvOfParts DEF IInv, TypeOK

\* A handler that changes nothing of what its lookup left preserves it, if what
\* it shows for an "ok" are participants of the entry looked up.
LEMMA HandlerOK ==
    ASSUME IInv, NEW n \in TypedNames, NEW c \in Commands,
           NEW found \in Lookup(n), found.result = "ok",
           NEW r \in Results, NEW shown \in SUBSET Participants,
           r = "ok" => shown \subseteq found.registry[n].participants,
           RegistryOK(registry'),
           answer' = Answer(c, n, r, shown), up' \subseteq up,
           lastUsed' = LastUsedByLookup(n), UNCHANGED <<autoDiscovery, running>>
    PROVE  IInv'
<1>1. RegistryOK(found.registry) /\ found.registry[n] # NotConnected
  BY LookupOK DEF IInv
<1>2. found.registry[n].participants \subseteq Members(SystemName(n))
  BY <1>1 DEF RegistryOK, EntryOK
<1>3. answer' \in Answers
  BY DEF Answer, Answers
<1>4. OnOneSystem(answer') /\ answer'.result = "ok" =>
          answer'.shown \subseteq Members(SystemName(answer'.name))
  BY <1>2 DEF Answer
<1> QED
  BY <1>3, <1>4, LastUsedOK, IInvOfParts DEF IInv, TypeOK

LEMMA DiscoverAllSystemsOK == ASSUME IInv, DiscoverAllSystems PROVE IInv'
<1>1. RegistryOK(registry) /\ registry \in Registries
  BY RegistryOKIsInv DEF IInv, TypeOK, Registries
<1>2. ~OnOneSystem(answer') /\ answer' \in Answers
  <2>1. \A found \in SUBSET Participants :
           \A r \in Results : Answer("discoverAllSystems", Unnamed, r, found) \in Answers
    BY NamesAssumption DEF Answer, Answers, Commands, TypedNames
  <2>2. \E found \in SUBSET Participants :
           \E r \in Results : answer' = Answer("discoverAllSystems", Unnamed, r, found)
    BY DEF DiscoverAllSystems, IInv, TypeOK, Results
  <2> QED
    BY <2>1, <2>2 DEF OnOneSystem, Answer
<1>3. CASE UNCHANGED <<registry, lastUsed>>
  BY <1>1, <1>2, <1>3, IInvOfParts DEF DiscoverAllSystems, IInv, TypeOK
<1>4. ASSUME NEW found \in SUBSET up,
             registry' = [n \in TypedNames |->
                            IF ~Connected(n) /\ \E p \in found : ListedName(Home[p]) = n
                            THEN NewSystem(SystemName(n), found \cap Members(SystemName(n)))
                            ELSE registry[n]],
             \/ lastUsed' = lastUsed
             \/ \E p \in found : lastUsed' = ListedName(Home[p])
      PROVE  IInv'
  <2>1. RegistryOK(registry')
    <3>1. ASSUME NEW n \in TypedNames
          PROVE  registry'[n] = NotConnected \/ EntryOK(n, registry'[n])
      <4> DEFINE heard == found \cap Members(SystemName(n))
      <4>1. heard \in SUBSET (Participants \cap Members(SystemName(n)))
        BY DEF IInv, TypeOK
      <4>2. EntryOK(n, NewSystem(SystemName(n), heard))
        BY <4>1, NewSystemOK
      <4>3. registry'[n] = NewSystem(SystemName(n), heard) \/ registry'[n] = registry[n]
        BY <1>4
      <4> QED
        BY <1>1, <4>2, <4>3 DEF RegistryOK
    <3>2. registry' \in Registries
      <4>1. \A n \in TypedNames : registry'[n] \in SystemObjects \cup {NotConnected}
        BY <3>1 DEF EntryOK
      <4> QED
        BY <1>4, <4>1 DEF Registries
    <3> QED
      BY <3>1, <3>2 DEF RegistryOK
  <2>2. {Home[p] : p \in found} \subseteq SystemNames
    BY HomeAssumption DEF IInv, TypeOK
  <2>3. lastUsed' \in TypedNames
    BY <1>4, <2>2, ListedNameOf DEF IInv, TypeOK
  <2> QED
    BY <1>2, <2>1, <2>3, IInvOfParts DEF DiscoverAllSystems, IInv, TypeOK
<1> QED
  BY <1>3, <1>4 DEF DiscoverAllSystems, Listed

LEMMA DiscoverSystemOK ==
    ASSUME IInv, NEW n \in TypedNames, DiscoverSystem(n) PROVE IInv'
<1>1. RegistryOK(registry)
  BY RegistryOKIsInv DEF IInv, TypeOK, Registries
<1>2. CASE answer' = Answer("discoverSystem", n, "exception", {}) /\ UNCHANGED registry
  <2>1. answer' \in Answers /\ answer'.result # "ok"
    BY <1>2 DEF Answer, Answers, Commands, Results
  <2> QED
    BY <1>1, <1>2, <2>1, IInvOfParts DEF DiscoverSystem, IInv, TypeOK
<1>3. ASSUME NEW found \in SUBSET (up \cap Members(SystemName(n))),
             registry' = [registry EXCEPT ![SystemName(n)] = NewSystem(SystemName(n), found)],
             answer' = Answer("discoverSystem", n, "ok", found)
      PROVE  IInv'
  <2>1. found \in SUBSET (Participants \cap Members(SystemName(n)))
    BY DEF IInv, TypeOK
  <2>2. RegistryOK(registry')
    BY <1>1, <1>3, <2>1, SystemNameOf, NewSystemOK, StoreOK
  <2>3. answer' \in Answers /\ answer'.shown \subseteq Members(SystemName(answer'.name))
    BY <1>3, <2>1 DEF Answer, Answers, Commands, Results
  <2> QED
    BY <2>2, <2>3, IInvOfParts DEF DiscoverSystem, IInv, TypeOK
<1> QED
  BY <1>2, <1>3 DEF DiscoverSystem, Discovered

LEMMA GetParticipantsOK ==
    ASSUME IInv, NEW n \in TypedNames, GetParticipants(n) PROVE IInv'
<1>1. CASE LookupFails("getParticipants", n)
  BY <1>1, LookupFailsOK DEF GetParticipants, Commands
<1>2. ASSUME NEW found \in Lookup(n), found.result = "ok", registry' = found.registry,
             answer' = Answer("getParticipants", n, "ok", found.registry[n].participants),
             up' = up
      PROVE  IInv'
  <2>1. RegistryOK(found.registry) /\ found.registry[n] # NotConnected
    BY <1>2, LookupOK DEF IInv
  <2>2. found.registry[n].participants \in SUBSET Participants
    BY <2>1 DEF RegistryOK, EntryOK, SystemObjects
  <2>3. "getParticipants" \in Commands /\ "ok" \in Results
    BY DEF Commands, Results
  <2> QED
    BY <1>2, <2>1, <2>2, <2>3, HandlerOK DEF GetParticipants
<1> QED
  BY <1>1, <1>2 DEF GetParticipants

LEMMA UseSystemOK ==
    ASSUME IInv, NEW n \in TypedNames, UseSystem(n) PROVE IInv'
<1>1. CASE LookupFails("system", n)
  BY <1>1, LookupFailsOK DEF UseSystem, Commands
<1>2. ASSUME NEW found \in Lookup(n), NEW r \in {"ok", "exception"}, found.result = "ok",
             registry' = found.registry, answer' = Answer("system", n, r, {}), up' = up
      PROVE  IInv'
  <2>1. RegistryOK(registry')
    BY <1>2, LookupOK DEF IInv
  <2>2. "system" \in Commands /\ r \in Results /\ {} \in SUBSET Participants
    BY DEF Commands, Results
  <2> QED
    BY <1>2, <2>1, <2>2, HandlerOK DEF UseSystem
<1> QED
  BY <1>1, <1>2 DEF UseSystem

LEMMA UseParticipantOK ==
    ASSUME IInv, NEW n \in TypedNames, NEW p \in Participants, UseParticipant(n, p)
    PROVE  IInv'
<1>1. CASE LookupFails("participant", n)
  BY <1>1, LookupFailsOK DEF UseParticipant, Commands
<1>2. ASSUME NEW found \in Lookup(n), NEW r \in {"ok", "exception", "noParticipant"},
             found.result = "ok", registry' = found.registry,
             Reaches(found.registry[n], p, r),
             answer' = Answer("participant", n, r, {p}), up' = up
      PROVE  IInv'
  <2>1. RegistryOK(registry')
    BY <1>2, LookupOK DEF IInv
  <2>2. "participant" \in Commands /\ r \in Results /\ {p} \in SUBSET Participants
    BY DEF Commands, Results
  <2>3. r = "ok" => {p} \subseteq found.registry[n].participants
    BY <1>2 DEF Reaches
  <2> QED
    BY <1>2, <2>1, <2>2, <2>3, HandlerOK DEF UseParticipant
<1> QED
  BY <1>1, <1>2 DEF UseParticipant

LEMMA SetParticipantStateOK ==
    ASSUME IInv, NEW n \in TypedNames, NEW p \in Participants, SetParticipantState(n, p)
    PROVE  IInv'
<1>1. CASE LookupFails("setParticipantState", n)
  BY <1>1, LookupFailsOK DEF SetParticipantState, Commands
<1>2. ASSUME NEW found \in Lookup(n), NEW r \in {"ok", "exception", "noParticipant"},
             found.result = "ok", registry' = found.registry,
             Reaches(found.registry[n], p, r),
             answer' = Answer("setParticipantState", n, r, {p}), up' \subseteq up
      PROVE  IInv'
  <2>1. RegistryOK(registry')
    BY <1>2, LookupOK DEF IInv
  <2>2. "setParticipantState" \in Commands /\ r \in Results /\ {p} \in SUBSET Participants
    BY DEF Commands, Results
  <2>3. r = "ok" => {p} \subseteq found.registry[n].participants
    BY <1>2 DEF Reaches
  <2> QED
    BY <1>2, <2>1, <2>2, <2>3, HandlerOK DEF SetParticipantState
<1> QED
  BY <1>1, <1>2 DEF SetParticipantState

LEMMA ShutdownParticipantOK ==
    ASSUME IInv, NEW n \in TypedNames, NEW p \in Participants, ShutdownParticipant(n, p)
    PROVE  IInv'
<1>1. CASE LookupFails("shutdownParticipant", n)
  BY <1>1, LookupFailsOK DEF ShutdownParticipant, Commands
<1>2. ASSUME NEW found \in Lookup(n), NEW r \in {"ok", "exception", "noParticipant"},
             found.result = "ok", registry' = found.registry,
             Reaches(found.registry[n], p, r),
             answer' = Answer("shutdownParticipant", n, r, {p}), up' \subseteq up
      PROVE  IInv'
  <2>1. RegistryOK(registry')
    BY <1>2, LookupOK DEF IInv
  <2>2. "shutdownParticipant" \in Commands /\ r \in Results /\ {p} \in SUBSET Participants
    BY DEF Commands, Results
  <2>3. r = "ok" => {p} \subseteq found.registry[n].participants
    BY <1>2 DEF Reaches
  <2> QED
    BY <1>2, <2>1, <2>2, <2>3, HandlerOK DEF ShutdownParticipant
<1> QED
  BY <1>1, <1>2 DEF ShutdownParticipant

\* The erased key is the name of the system, which is a typed name.
LEMMA ShutdownSystemOK ==
    ASSUME IInv, NEW n \in TypedNames, ShutdownSystem(n) PROVE IInv'
<1>1. CASE LookupFails("shutdownSystem", n)
  BY <1>1, LookupFailsOK DEF ShutdownSystem, Commands
<1>2. ASSUME NEW found \in Lookup(n), found.result = "ok"
      PROVE  /\ RegistryOK(found.registry)
             /\ RegistryOK([found.registry EXCEPT ![found.registry[n].name] = NotConnected])
             /\ found.registry[n].participants \in SUBSET Participants
  <2>1. RegistryOK(found.registry) /\ found.registry[n] # NotConnected
    BY <1>2, LookupOK DEF IInv
  <2>2. found.registry[n].name = SystemName(n) /\ SystemName(n) \in TypedNames
    BY <2>1, SystemNameOf DEF RegistryOK, EntryOK
  <2>3. found.registry[n].participants \in SUBSET Participants
    BY <2>1 DEF RegistryOK, EntryOK, SystemObjects
  <2> QED
    BY <2>1, <2>2, <2>3, StoreOK
<1>3. /\ "shutdownSystem" \in Commands /\ "ok" \in Results /\ "exception" \in Results
      /\ {} \in SUBSET Participants
  BY DEF Commands, Results
<1>4. ASSUME NEW found \in Lookup(n), found.result = "ok",
             up' = up \ found.registry[n].participants,
             registry' = [found.registry EXCEPT ![found.registry[n].name] = NotConnected],
             answer' = Answer("shutdownSystem", n, "ok", found.registry[n].participants)
      PROVE  IInv'
  BY <1>2, <1>3, <1>4, HandlerOK DEF ShutdownSystem
<1>5. ASSUME NEW found \in Lookup(n), found.result = "ok", up' \subseteq up,
             registry' = found.registry,
             answer' = Answer("shutdownSystem", n, "exception", {})
      PROVE  IInv'
  <2>1. RegistryOK(registry')
    BY <1>2, <1>5
  <2>2. lastUsed' = LastUsedByLookup(n) /\ UNCHANGED <<autoDiscovery, running>>
    BY DEF ShutdownSystem
  <2>3. "exception" = "ok" => {} \subseteq found.registry[n].participants
    OBVIOUS
  <2> QED
    BY ONLY IInv, n \in TypedNames, <1>3, <1>5, <2>1, <2>2, <2>3, HandlerOK
<1> QED
  BY <1>1, <1>4, <1>5 DEF ShutdownSystem, Erased

LEMMA StartMonitoringSystemOK ==
    ASSUME IInv, NEW n \in TypedNames, StartMonitoringSystem(n) PROVE IInv'
<1>1. CASE LookupFails("startMonitoringSystem", n)
  BY <1>1, LookupFailsOK DEF StartMonitoringSystem, Commands
<1>2. ASSUME NEW found \in Lookup(n), NEW r \in {"ok", "exception"}, NEW b \in BOOLEAN,
             found.result = "ok", registry' = [found.registry EXCEPT ![n].monitored = b],
             answer' = Answer("startMonitoringSystem", n, r, {}), up' = up
      PROVE  IInv'
  <2>1. RegistryOK(found.registry) /\ found.registry[n] # NotConnected
    BY <1>2, LookupOK DEF IInv
  <2>2. RegistryOK(registry')
    BY <1>2, <2>1, MonitorOK
  <2>3. "startMonitoringSystem" \in Commands /\ r \in Results /\ {} \in SUBSET Participants
    BY DEF Commands, Results
  <2> QED
    BY <1>2, <2>2, <2>3, HandlerOK DEF StartMonitoringSystem
<1> QED
  BY <1>1, <1>2 DEF StartMonitoringSystem

LEMMA StopMonitoringSystemOK ==
    ASSUME IInv, NEW n \in TypedNames, StopMonitoringSystem(n) PROVE IInv'
<1>1. CASE LookupFails("stopMonitoringSystem", n)
  BY <1>1, LookupFailsOK DEF StopMonitoringSystem, Commands
<1>2. ASSUME NEW found \in Lookup(n), NEW b \in BOOLEAN, found.result = "ok",
             registry' = [found.registry EXCEPT ![n].monitored = b],
             answer' = Answer("stopMonitoringSystem", n, "ok", {}), up' = up
      PROVE  IInv'
  <2>1. RegistryOK(found.registry) /\ found.registry[n] # NotConnected
    BY <1>2, LookupOK DEF IInv
  <2>2. RegistryOK(registry')
    BY <1>2, <2>1, MonitorOK
  <2>3. "stopMonitoringSystem" \in Commands /\ "ok" \in Results /\ {} \in SUBSET Participants
    BY DEF Commands, Results
  <2> QED
    BY <1>2, <2>2, <2>3, HandlerOK DEF StopMonitoringSystem
<1> QED
  BY <1>1, <1>2 DEF StopMonitoringSystem

LEMMA InitOK == ASSUME Init PROVE IInv
BY NamesAssumption DEF Init, IInv, TypeOK, TypedNames, Answers, Answer, Commands, Results,
     EntriesAreTheirKeys, AnswersConcernNamedSystem, Connected, OnOneSystem

\* Every step of the session or of the participants preserves the invariant.
LEMMA NextOK == ASSUME IInv, [Next]_vars PROVE IInv'
<1>1. RegistryOK(registry)
  BY RegistryOKIsInv DEF IInv, TypeOK, Registries
<1>2. ASSUME NEW p \in Participants, ParticipantAppears(p) \/ ParticipantDisappears(p)
      PROVE  IInv'
  BY <1>1, <1>2, IInvOfParts
     DEF ParticipantAppears, ParticipantDisappears, IInv, TypeOK, AnswersConcernNamedSystem
<1>3. ASSUME NEW enabled \in BOOLEAN, SetAutoDiscovery(enabled)
      PROVE  IInv'
  <2>1. answer' \in Answers /\ ~OnOneSystem(answer')
    BY <1>3, NamesAssumption
       DEF SetAutoDiscovery, Answer, Answers, Commands, Results, TypedNames, OnOneSystem
  <2> QED
    BY <1>1, <1>3, <2>1, IInvOfParts DEF SetAutoDiscovery, IInv, TypeOK
<1>4. ASSUME NEW n \in TypedNames, SystemCommand(n)
      PROVE  IInv'
  BY <1>4, DiscoverSystemOK, GetParticipantsOK, UseSystemOK, UseParticipantOK,
     SetParticipantStateOK, ShutdownParticipantOK, ShutdownSystemOK, StartMonitoringSystemOK, StopMonitoringSystemOK
     DEF SystemCommand
<1>5. CASE Quit
  <2>1. answer' \in Answers /\ ~OnOneSystem(answer')
    BY <1>5, NamesAssumption
       DEF Quit, Answer, Answers, Commands, Results, TypedNames, OnOneSystem
  <2>2. RegistryOK(registry')
    BY <1>5 DEF Quit, RegistryOK, Registries
  <2> QED
    BY <1>5, <2>1, <2>2, IInvOfParts DEF Quit, IInv, TypeOK
<1>6. CASE UNCHANGED vars
  BY <1>6 DEF vars, IInv, TypeOK, EntriesAreTheirKeys, AnswersConcernNamedSystem, Connected
<1> QED
  BY <1>2, <1>3, <1>4, <1>5, <1>6, DiscoverAllSystemsOK DEF Next

\* The inductive invariant holds in every state of every session.
THEOREM RegistryInvariant == Spec => []IInv
BY InitOK, NextOK, PTL DEF Spec

\* The registry, the answers and the flags are of their types whatever commands
\* are given and whatever the participants do.
THEOREM TypeCorrect == Spec => []TypeOK
<1>1. IInv => TypeOK
  BY DEF IInv
<1> QED
  BY <1>1, RegistryInvariant, PTL

\* However an entry came about, it is the System its key stands for and holds
\* only participants of that system.
THEOREM EntriesCorrect == Spec => []EntriesAreTheirKeys
<1>1. IInv => EntriesAreTheirKeys
  BY DEF IInv
<1> QED
  BY <1>1, RegistryInvariant, PTL

\* A successful command never concerned a participant of another system than the
\* one the user named.
THEOREM AnswersCorrect == Spec => []AnswersConcernNamedSystem
<1>1. IInv => AnswersConcernNamedSystem
  BY DEF IInv
<1> QED
  BY <1>1, RegistryInvariant, PTL

-----------------------------------------------------------------------------
(* What a command does to the registry, for the action properties *)

\* A lookup does not touch the entry of a connected system that has a name.
LEMMA LookupKeepsNamed ==
    ASSUME TypeOK, NEW m \in TypedNames, NEW found \in Lookup(m),
           NEW n \in NamedSystems, Connected(n)
    PROVE  found.registry[n] = registry[n]
<1>1. CASE found.registry = registry
  BY <1>1
<1>2. ASSUME NEW sys, found.registry = [registry EXCEPT ![SystemName(m)] = sys], ~Connected(m)
      PROVE  found.registry[n] = registry[n]
  <2>1. SystemName(m) # n
    BY <1>2, NamesAssumption DEF SystemName, NamedSystems, TypedNames
  <2> QED
    BY <1>2, <2>1 DEF TypeOK, TypedNames, NamedSystems
<1> QED
  BY <1>1, <1>2 DEF Lookup, Discovered

\* A command other than a discovery makes the registry what its lookup left, but
\* for the entry it erases or the registration it changes.
LEMMA CommandEffect ==
    ASSUME IInv, NEW n \in TypedNames, SystemCommand(n), ~DiscoverSystem(n)
    PROVE  \E found \in Lookup(n) :
              /\ answer'.name = n
              /\ answer'.result = "notConnected" => found.result = "notConnected"
              /\ \/ registry' = found.registry /\ ~Shutdown(answer')
                 \/ /\ found.result = "ok" /\ Shutdown(answer')
                    /\ registry' = [found.registry EXCEPT ![SystemName(n)] = NotConnected]
                 \/ /\ found.result = "ok"
                    /\ answer'.command \in {"startMonitoringSystem", "stopMonitoringSystem"}
                    /\ \E b \in BOOLEAN : registry' = [found.registry EXCEPT ![n].monitored = b]
<1>1. ASSUME NEW c \in Commands, LookupFails(c, n)
      PROVE  \E found \in Lookup(n) :
              /\ answer'.name = n
              /\ answer'.result = "notConnected" => found.result = "notConnected"
              /\ registry' = found.registry /\ ~Shutdown(answer')
  BY <1>1 DEF LookupFails, Answer, Shutdown
<1>2. CASE GetParticipants(n)
  BY <1>1, <1>2 DEF GetParticipants, Answer, Shutdown, Commands
<1>3. CASE UseSystem(n)
  BY <1>1, <1>3 DEF UseSystem, Answer, Shutdown, Commands
<1>4. CASE \E p \in Participants : \/ UseParticipant(n, p)
                                  \/ SetParticipantState(n, p)
                                  \/ ShutdownParticipant(n, p)
  BY <1>1, <1>4 DEF UseParticipant, SetParticipantState, ShutdownParticipant, Answer, Shutdown, Commands
<1>5. CASE ShutdownSystem(n)
  <2>1. \A found \in Lookup(n) : found.result = "ok" => found.registry[n].name = SystemName(n)
    BY LookupOK DEF IInv, RegistryOK, EntryOK
  <2> QED
    BY <1>1, <1>5, <2>1 DEF ShutdownSystem, Answer, Shutdown, Commands, Erased
<1>6. CASE StartMonitoringSystem(n)
  <2>1. CASE LookupFails("startMonitoringSystem", n)
    BY <1>1, <2>1 DEF Commands
  <2>2. ASSUME NEW found \in Lookup(n), NEW r \in {"ok", "exception"}, NEW b \in BOOLEAN,
               found.result = "ok", registry' = [found.registry EXCEPT ![n].monitored = b],
               answer' = Answer("startMonitoringSystem", n, r, {})
        PROVE  /\ answer'.name = n /\ answer'.result # "notConnected"
               /\ answer'.command = "startMonitoringSystem"
               /\ \E x \in BOOLEAN : registry' = [found.registry EXCEPT ![n].monitored = x]
    <3>1. answer'.name = n /\ answer'.result # "notConnected"
          /\ answer'.command = "startMonitoringSystem"
      BY <2>2 DEF Answer
    <3> QED
      BY <2>2, <3>1
  <2> QED
    BY <1>6, <2>1, <2>2 DEF StartMonitoringSystem
<1>7. CASE StopMonitoringSystem(n)
  <2>1. CASE LookupFails("stopMonitoringSystem", n)
    BY <1>1, <2>1 DEF Commands
  <2>2. ASSUME NEW found \in Lookup(n), NEW b \in BOOLEAN, found.result = "ok",
               registry' = [found.registry EXCEPT ![n].monitored = b],
               answer' = Answer("stopMonitoringSystem", n, "ok", {})
        PROVE  /\ answer'.name = n /\ answer'.result # "notConnected"
               /\ answer'.command = "stopMonitoringSystem"
               /\ \E x \in BOOLEAN : registry' = [found.registry EXCEPT ![n].monitored = x]
    BY <2>2 DEF Answer
  <2> QED
    BY <1>7, <2>1, <2>2 DEF StopMonitoringSystem
<1> QED
  BY <1>2, <1>3, <1>4, <1>5, <1>6, <1>7 DEF SystemCommand

\* discoverSystem and discoverAllSystems forget no system, and do not replace
\* the entry of another one that has a name.
LEMMA DiscoveryEffect ==
    ASSUME IInv, NEW n \in TypedNames, Connected(n)
    PROVE  /\ DiscoverAllSystems => registry'[n] = registry[n]
           /\ \A m \in TypedNames : DiscoverSystem(m) =>
                 /\ registry'[n] # NotConnected
                 /\ n \in NamedSystems /\ m # n => registry'[n] = registry[n]
                 /\ answer'.name = m /\ answer'.command = "discoverSystem"
                 /\ answer'.result # "notConnected"
<1>1. DiscoverAllSystems => registry'[n] = registry[n]
  BY DEF DiscoverAllSystems, Listed
<1>2. ASSUME NEW m \in TypedNames, DiscoverSystem(m)
      PROVE  /\ registry'[n] # NotConnected
             /\ n \in NamedSystems /\ m # n => registry'[n] = registry[n]
             /\ answer'.name = m /\ answer'.command = "discoverSystem"
             /\ answer'.result # "notConnected"
  <2>1. answer'.name = m /\ answer'.command = "discoverSystem" /\ answer'.result # "notConnected"
    BY <1>2 DEF DiscoverSystem, Answer
  <2>2. CASE UNCHANGED registry
    BY <2>1, <2>2 DEF Connected
  <2>3. ASSUME NEW found \in SUBSET (up \cap Members(SystemName(m))),
               registry' = [registry EXCEPT ![SystemName(m)] = NewSystem(SystemName(m), found)]
        PROVE  /\ registry'[n] # NotConnected
               /\ n \in NamedSystems /\ m # n => registry'[n] = registry[n]
    <3>1. NewSystem(SystemName(m), found) # NotConnected
      BY NewSystemOK DEF IInv, TypeOK
    <3>2. n \in NamedSystems /\ m # n => SystemName(m) # n
      BY DEF SystemName, NamedSystems
    <3> QED
      BY <2>3, <3>1, <3>2 DEF IInv, TypeOK, Connected
  <2> QED
    BY <1>2, <2>1, <2>2, <2>3 DEF DiscoverSystem, Discovered
<1> QED
  BY <1>1, <1>2

\* No step but the shutdown of a system, or quit, removes its entry.
THEOREM ForgetsOnlyOnShutdown == Spec => OnlyShutdownForgets
<1> DEFINE Forgets(n) == Connected(n) /\ ~Connected(n)'
           Justified(n) == \/ Shutdown(answer') /\ SystemName(answer'.name) = SystemName(n)
                           \/ ~running'
<1>1. ASSUME IInv, [Next]_vars, NEW n \in TypedNames, Forgets(n)
      PROVE  Justified(n)
  <2>1. registry'[n] = NotConnected /\ registry \in Registries
    BY <1>1 DEF Connected, IInv, TypeOK, Registries
  <2>2. CASE \/ \E p \in Participants : ParticipantAppears(p) \/ ParticipantDisappears(p)
             \/ \E enabled \in BOOLEAN : SetAutoDiscovery(enabled)
             \/ UNCHANGED vars
    BY <1>1, <2>1, <2>2
       DEF ParticipantAppears, ParticipantDisappears, SetAutoDiscovery, vars, Connected
  <2>3. CASE DiscoverAllSystems \/ \E m \in TypedNames : DiscoverSystem(m)
    BY <1>1, <2>1, <2>3, DiscoveryEffect DEF Connected
  <2>4. CASE Quit
    BY <2>4 DEF Quit
  <2>5. ASSUME NEW m \in TypedNames, SystemCommand(m), ~DiscoverSystem(m)
        PROVE  Justified(n)
    <3>1. PICK found \in Lookup(m) :
              /\ answer'.name = m
              /\ \/ registry' = found.registry
                 \/ /\ Shutdown(answer')
                    /\ registry' = [found.registry EXCEPT ![SystemName(m)] = NotConnected]
                 \/ /\ found.result = "ok"
                    /\ \E b \in BOOLEAN : registry' = [found.registry EXCEPT ![m].monitored = b]
      BY <1>1, <2>5, CommandEffect
    <3>2. /\ found.registry[n] # NotConnected /\ RegistryOK(found.registry)
          /\ found.result = "ok" => found.registry[m] # NotConnected
      BY <1>1, LookupOK DEF IInv
    <3>3. CASE registry' = found.registry
      BY <2>1, <3>2, <3>3
    <3>4. CASE /\ Shutdown(answer')
               /\ registry' = [found.registry EXCEPT ![SystemName(m)] = NotConnected]
      <4>1. n = SystemName(m)
        BY <2>1, <3>2, <3>4 DEF RegistryOK, Registries
      <4> QED
        BY <3>1, <3>4, <4>1, SystemNameOf
    <3>5. ASSUME NEW b \in BOOLEAN, found.result = "ok",
                 registry' = [found.registry EXCEPT ![m].monitored = b]
          PROVE  FALSE
      <4>1. RegistryOK(registry') /\ registry'[m] # NotConnected
        BY <3>2, <3>5, MonitorOK
      <4>2. n # m => registry'[n] = found.registry[n]
        BY <3>2, <3>5 DEF RegistryOK, Registries
      <4> QED
        BY <2>1, <3>2, <4>1, <4>2
    <3> QED
      BY <3>1, <3>3, <3>4, <3>5
  <2> QED
    BY <1>1, <2>2, <2>3, <2>4, <2>5 DEF Next
<1>2. IInv /\ [Next]_vars =>
          [\A n \in TypedNames : Connected(n) /\ ~Connected(n)' => Justified(n)]_vars
  BY <1>1
<1> QED
  BY <1>2, RegistryInvariant, PTL DEF Spec, OnlyShutdownForgets

\* With auto discovery on, the lookup of a system that has a name finds it or
\* throws: what discovery stores is what the second lookup reads.
LEMMA LookupDiscovers ==
    ASSUME TypeOK, NEW m \in NamedSystems, NEW found \in Lookup(m), autoDiscovery
    PROVE  found.result # "notConnected"
<1>1. m \in TypedNames /\ SystemName(m) = m
  BY SystemNameOf DEF NamedSystems, TypedNames
<1>2. CASE Connected(m)
  BY <1>2 DEF Lookup, Connected
<1>3. CASE ~Connected(m)
  <2>1. ASSUME NEW heard \in SUBSET (up \cap Members(SystemName(m)))
        PROVE  Discovered(m, heard)[m] # NotConnected
    <3>1. NewSystem(SystemName(m), heard) # NotConnected
      BY <1>1, NewSystemOK DEF TypeOK
    <3> QED
      BY <1>1, <3>1 DEF Discovered, TypeOK
  <2> QED
    BY <1>3, <2>1 DEF Lookup
<1> QED
  BY <1>2, <1>3

\* After the shutdown of a system with a name the registry does not know it.
THEOREM ForgetsAfterShutdown == Spec => ShutdownForgets
<1> DEFINE Done == Shutdown(answer') /\ answer' # answer /\ answer'.name \in NamedSystems
<1>1. ASSUME IInv, [Next]_vars, Done
      PROVE  answer'.name \notin ConnectedSystemsCompletion'
  <2>1. PICK m \in TypedNames : SystemCommand(m) /\ ~DiscoverSystem(m)
    BY <1>1 DEF Next, vars, ParticipantAppears, ParticipantDisappears, DiscoverAllSystems,
                SetAutoDiscovery, Quit, DiscoverSystem, Answer, Shutdown
  <2>2. PICK found \in Lookup(m) :
           /\ answer'.name = m
           /\ registry' = [found.registry EXCEPT ![SystemName(m)] = NotConnected]
    BY <1>1, <2>1, CommandEffect DEF Shutdown
  <2>3. SystemName(m) = m /\ found.registry \in Registries
    BY <1>1, <2>2, SystemNameOf, LookupOK DEF IInv, RegistryOK
  <2>4. registry'[m] = NotConnected
    BY <2>2, <2>3 DEF Registries
  <2> QED
    BY <2>2, <2>4 DEF ConnectedSystemsCompletion, Connected
<1>2. IInv /\ [Next]_vars => [Done => answer'.name \notin ConnectedSystemsCompletion']_vars
  BY <1>1
<1> QED
  BY <1>2, RegistryInvariant, PTL DEF Spec, ShutdownForgets

\* A registration of the monitor ends by a command on that system, or with quit.
THEOREM MonitoringIsKept == Spec => OthersKeepMonitoring
<1> DEFINE Ends(n) == (Connected(n) /\ registry[n].monitored)
                        /\ ~(Connected(n)' /\ registry'[n].monitored)
           Own(n) == /\ answer'.name = n
                     /\ answer'.command \in {"discoverSystem", "shutdownSystem",
                                             "startMonitoringSystem", "stopMonitoringSystem"}
<1>1. ASSUME IInv, [Next]_vars, NEW n \in NamedSystems, Ends(n)
      PROVE  Own(n) \/ ~running'
  <2>1. n \in TypedNames /\ registry'[n] # registry[n]
    BY <1>1 DEF NamedSystems, TypedNames, Connected
  <2>2. CASE \/ \E p \in Participants : ParticipantAppears(p) \/ ParticipantDisappears(p)
             \/ \E enabled \in BOOLEAN : SetAutoDiscovery(enabled)
             \/ UNCHANGED vars
    BY <2>1, <2>2 DEF ParticipantAppears, ParticipantDisappears, SetAutoDiscovery, vars
  <2>3. CASE DiscoverAllSystems \/ \E m \in TypedNames : DiscoverSystem(m)
    BY <1>1, <2>1, <2>3, DiscoveryEffect
  <2>4. CASE Quit
    BY <2>4 DEF Quit
  <2>5. ASSUME NEW m \in TypedNames, SystemCommand(m), ~DiscoverSystem(m)
        PROVE  Own(n)
    <3>1. PICK found \in Lookup(m) :
              /\ answer'.name = m
              /\ \/ registry' = found.registry
                 \/ /\ Shutdown(answer')
                    /\ registry' = [found.registry EXCEPT ![SystemName(m)] = NotConnected]
                 \/ /\ answer'.command \in {"startMonitoringSystem", "stopMonitoringSystem"}
                    /\ \E b \in BOOLEAN : registry' = [found.registry EXCEPT ![m].monitored = b]
      BY <1>1, <2>5, CommandEffect
    <3>2. found.registry[n] = registry[n] /\ found.registry \in Registries
      BY <1>1, LookupKeepsNamed, LookupOK DEF IInv, RegistryOK
    <3>3. CASE registry' = found.registry
      BY <2>1, <3>2, <3>3
    <3>4. CASE /\ Shutdown(answer')
               /\ registry' = [found.registry EXCEPT ![SystemName(m)] = NotConnected]
      <4>1. SystemName(m) = n
        BY <2>1, <3>2, <3>4 DEF Registries
      <4>2. m = n
        BY <4>1 DEF SystemName, NamedSystems
      <4> QED
        BY <3>1, <3>4, <4>2 DEF Shutdown
    <3>5. ASSUME NEW b \in BOOLEAN,
                 answer'.command \in {"startMonitoringSystem", "stopMonitoringSystem"},
                 registry' = [found.registry EXCEPT ![m].monitored = b]
          PROVE  Own(n)
      <4>1. m = n
        BY <2>1, <3>2, <3>5 DEF Registries
      <4> QED
        BY <3>1, <3>5, <4>1
    <3> QED
      BY <3>1, <3>3, <3>4, <3>5
  <2> QED
    BY <1>1, <2>2, <2>3, <2>4, <2>5 DEF Next
<1>2. IInv /\ [Next]_vars => 
       [\A n \in NamedSystems :
          (Connected(n) /\ registry[n].monitored) /\ ~(Connected(n)' /\ registry'[n].monitored) =>
              \/ /\ answer'.name = n
                 /\ answer'.command \in {"discoverSystem", "shutdownSystem",
                                         "startMonitoringSystem", "stopMonitoringSystem"}
              \/ ~running']_vars
  BY <1>1
<1> QED
  BY <1>2, RegistryInvariant, PTL DEF Spec, OthersKeepMonitoring

\* With auto discovery on, no system that has a name is answered to be not connected.
THEOREM DiscoveryConnects == Spec => AutoDiscoveryConnects
<1> DEFINE Refused == answer' # answer /\ answer'.result = "notConnected"
<1>1. ASSUME IInv, [Next]_vars, Refused, answer'.name \in NamedSystems
      PROVE  ~autoDiscovery
  <2>1. PICK m \in TypedNames : SystemCommand(m) /\ ~DiscoverSystem(m)
    BY <1>1 DEF Next, vars, ParticipantAppears, ParticipantDisappears, DiscoverAllSystems,
                SetAutoDiscovery, Quit, DiscoverSystem, Answer
  <2>2. PICK found \in Lookup(m) : answer'.name = m /\ found.result = "notConnected"
    BY <1>1, <2>1, CommandEffect
  <2> QED
    BY <1>1, <2>2, LookupDiscovers DEF IInv
<1>2. IInv /\ [Next]_vars =>
          [Refused => ~autoDiscovery \/ answer'.name \notin NamedSystems]_vars
  BY <1>1
<1> QED
  BY <1>2, RegistryInvariant, PTL DEF Spec, AutoDiscoveryConnects

-----------------------------------------------------------------------------
(* What the session remembers of its last answer *)

\* The answer of a command on one system leaves that name as the last one used.
LastUsedIsAnswered ==
    OnOneSystem(answer) /\ answer.result = "ok" => lastUsed = answer.name

\* A listing by name shows what the registry then holds.
Listings == {"discoverSystem", "getParticipants"}

ListingIsEntry ==
    answer.command \in Listings /\ answer.result = "ok" /\ answer.name \in NamedSystems =>
        Connected(answer.name) /\ answer.shown = registry[answer.name].participants

RInv == LastUsedIsAnswered /\ ListingIsEntry

\* A lookup that succeeds makes its name the last one used.
LEMMA LookupUses ==
    ASSUME NEW n \in TypedNames, NEW found \in Lookup(n), found.result = "ok"
    PROVE  LastUsedByLookup(n) = n
BY DEF Lookup, LastUsedByLookup, Connected

LEMMA RInitOK == Init => RInv
BY DEF Init, RInv, LastUsedIsAnswered, ListingIsEntry, Listings, OnOneSystem, Answer

\* A discovery by name.
LEMMA DiscoverSystemRemembers ==
    ASSUME IInv, NEW n \in TypedNames, DiscoverSystem(n)
    PROVE  RInv'
<1>1. CASE answer' = Answer("discoverSystem", n, "exception", {})
  BY <1>1 DEF RInv, LastUsedIsAnswered, ListingIsEntry, Answer
<1>2. ASSUME NEW found \in SUBSET (up \cap Members(SystemName(n))),
             registry' = Discovered(n, found),
             answer' = Answer("discoverSystem", n, "ok", found)
      PROVE  RInv'
  <2>1. NewSystem(SystemName(n), found) # NotConnected  BY NewSystemOK DEF IInv, TypeOK
  <2>2. n \in NamedSystems => registry'[n] = NewSystem(SystemName(n), found)
    BY <1>2, SystemNameOf DEF IInv, TypeOK, Discovered
  <2>3. answer'.name = n /\ answer'.shown = found /\ lastUsed' = n
    BY <1>2 DEF DiscoverSystem, Answer
  <2> QED
    BY <2>1, <2>2, <2>3 DEF RInv, LastUsedIsAnswered, ListingIsEntry, Connected, NewSystem
<1> QED
  BY <1>1, <1>2 DEF DiscoverSystem

\* Any other command on one system: it lists, or its answer is no listing.
LEMMA CommandRemembers ==
    ASSUME IInv, NEW n \in TypedNames, SystemCommand(n), ~DiscoverSystem(n)
    PROVE  RInv'
<1>1. lastUsed' = LastUsedByLookup(n)
  BY DEF SystemCommand, GetParticipants, UseSystem, UseParticipant, SetParticipantState,
         ShutdownParticipant, ShutdownSystem, StartMonitoringSystem, StopMonitoringSystem
<1>2. answer'.name = n /\ (answer'.result = "ok" => \E found \in Lookup(n) : found.result = "ok")
  <2>1. ASSUME NEW c, LookupFails(c, n) PROVE answer'.name = n /\ answer'.result # "ok"
    BY <2>1 DEF LookupFails, Answer
  <2>2. CASE GetParticipants(n)  BY <2>1, <2>2 DEF GetParticipants, Answer
  <2>3. CASE UseSystem(n)  BY <2>1, <2>3 DEF UseSystem, Answer
  <2>4. CASE \E p \in Participants : UseParticipant(n, p)
    BY <2>1, <2>4 DEF UseParticipant, Answer
  <2>5. CASE \E p \in Participants : SetParticipantState(n, p)
    BY <2>1, <2>5 DEF SetParticipantState, Answer
  <2>6. CASE \E p \in Participants : ShutdownParticipant(n, p)
    BY <2>1, <2>6 DEF ShutdownParticipant, Answer
  <2>7. CASE ShutdownSystem(n)  BY <2>1, <2>7 DEF ShutdownSystem, Answer
  <2>8. CASE StartMonitoringSystem(n)  BY <2>1, <2>8 DEF StartMonitoringSystem, Answer
  <2>9. CASE StopMonitoringSystem(n)  BY <2>1, <2>9 DEF StopMonitoringSystem, Answer
  <2> QED  BY <2>2, <2>3, <2>4, <2>5, <2>6, <2>7, <2>8, <2>9 DEF SystemCommand
<1>3. LastUsedIsAnswered'
  BY <1>1, <1>2, LookupUses DEF LastUsedIsAnswered
<1>4. answer'.command \in Listings /\ answer'.result = "ok" =>
         \E found \in Lookup(n) : /\ found.result = "ok" /\ registry' = found.registry
                                 /\ answer'.shown = found.registry[n].participants
  BY DEF SystemCommand, GetParticipants, UseSystem, UseParticipant, SetParticipantState,
         ShutdownParticipant, ShutdownSystem, StartMonitoringSystem, StopMonitoringSystem,
         LookupFails, Answer, Listings
<1>5. ListingIsEntry'
  <2>1. \A found \in Lookup(n) : found.result = "ok" => found.registry[n] # NotConnected
    BY LookupOK DEF IInv
  <2> QED  BY <1>2, <1>4, <2>1 DEF ListingIsEntry, Connected
<1> QED
  BY <1>3, <1>5 DEF RInv

LEMMA RNextOK == ASSUME IInv, RInv, [Next]_vars PROVE RInv'
<1>1. CASE \/ \E p \in Participants : ParticipantAppears(p) \/ ParticipantDisappears(p)
           \/ UNCHANGED vars
  BY <1>1 DEF ParticipantAppears, ParticipantDisappears, vars, RInv, LastUsedIsAnswered,
              ListingIsEntry, Connected
<1>2. CASE DiscoverAllSystems \/ Quit \/ \E enabled \in BOOLEAN : SetAutoDiscovery(enabled)
  <2>1. answer'.command \in {"discoverAllSystems", "quit", "autoDiscovery"}
    BY <1>2 DEF DiscoverAllSystems, Quit, SetAutoDiscovery, Answer
  <2> QED
    BY <2>1 DEF RInv, LastUsedIsAnswered, ListingIsEntry, Listings, OnOneSystem
<1> QED
  BY <1>1, <1>2, DiscoverSystemRemembers, CommandRemembers DEF Next

THEOREM Remembered == Spec => [](IInv /\ RInv)
<1>1. Init => RInv  BY RInitOK
<1>2. IInv /\ RInv /\ [Next]_vars => RInv'  BY RNextOK
<1> QED  BY <1>1, <1>2, RegistryInvariant, PTL DEF Spec

\* What TAB offers behind a successful command are the participants of its system.
THEOREM CompletionIsOfCommand == Spec => []CompletionFollowsCommand
<1>1. RInv => CompletionFollowsCommand
  BY DEF RInv, LastUsedIsAnswered, CompletionFollowsCommand, ConnectedParticipantsCompletion
<1> QED  BY <1>1, Remembered, PTL

\* A participant that was just listed by name is not refused, nor its system.
THEOREM ListedIsKnown == Spec => ListingIsHonoured
<1> DEFINE Listing == /\ answer.command \in {"discoverSystem", "getParticipants"}
                      /\ answer.result = "ok" /\ answer.name \in NamedSystems
           Asked == /\ answer' # answer
                    /\ answer'.command \in {"participant", "setParticipantState",
                                            "shutdownParticipant"}
                    /\ answer'.name = answer.name
                    /\ answer'.shown \subseteq answer.shown
<1>1. ASSUME IInv, RInv, [Next]_vars, Listing, Asked
      PROVE  answer'.result \in {"ok", "exception"}
  <2>1. PICK n \in TypedNames, p \in Participants :
            UseParticipant(n, p) \/ SetParticipantState(n, p) \/ ShutdownParticipant(n, p)
    BY <1>1 DEF Next, vars, SystemCommand, ParticipantAppears, ParticipantDisappears,
                DiscoverAllSystems, SetAutoDiscovery, Quit, DiscoverSystem, GetParticipants,
                UseSystem, ShutdownSystem, StartMonitoringSystem, StopMonitoringSystem,
                LookupFails, Answer
  <2>2. answer'.name = n
    BY <2>1 DEF UseParticipant, SetParticipantState, ShutdownParticipant, LookupFails, Answer
  <2>3. Connected(n) /\ answer.shown = registry[n].participants
    BY <1>1, <2>2 DEF RInv, ListingIsEntry, Listings
  <2>4. \A found \in Lookup(n) : found.registry = registry /\ found.result = "ok"
    BY <2>3 DEF Lookup, Connected
  <2>5. \E r \in {"ok", "exception", "noParticipant"} :
           Reaches(registry[n], p, r) /\ answer'.result = r /\ answer'.shown = {p}
    BY <2>1, <2>4 DEF UseParticipant, SetParticipantState, ShutdownParticipant, LookupFails, Answer
  <2> QED
    BY <1>1, <2>3, <2>5 DEF Reaches
<1>2. IInv /\ RInv /\ [Next]_vars =>
       [/\ answer.command \in {"discoverSystem", "getParticipants"}
        /\ answer.result = "ok" /\ answer.name \in NamedSystems
        /\ answer' # answer
        /\ answer'.command \in {"participant", "setParticipantState", "shutdownParticipant"}
        /\ answer'.name = answer.name
        /\ answer'.shown \subseteq answer.shown
        => answer'.result \in {"ok", "exception"}]_vars
  BY <1>1
<1> QED  BY <1>2, Remembered, PTL DEF Spec, ListingIsHonoured
=============================================================================
