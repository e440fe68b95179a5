# FEP Control in TLA+

A verification development for `fep_control` (`src/src/fep_control_tool/`), the
command line and websocket tool of the FEP base utilities. A user, or a program
at the other end of a websocket, types commands that discover FEP systems,
change their states and properties, monitor their logs and shut them down.

The modules are translated from the C++ code. TLC checks them on small
instances; TLAPS proves all of their safety properties for every value of the constants: any
participants and systems, any number of connections, of log threads, of lines and of
arguments, any trees of properties and any names. The fep3 library the tool calls, the websocket
library and the operating system are not part of the repository: they are
modelled by what their callers rely on, and marked external in `PROJECT.json`.

## 1. The system

```
 terminal / pipe --lines--> input thread --+
                                           +--> FepControl session --> fep3::System objects --> participants
 websocket client --lines-> session thread-+         |    ^
                                                     |    +-- Monitor <-- log threads of the library
 signal handler --flag--> main thread -- shutdown message -> every session
```

| Component | State it keeps | Operations | What makes it correct |
|---|---|---|---|
| **System registry** of a session (`fep_control.cpp`) | map name -> System object (a snapshot of the participants found), auto discovery, last name used, registration of the monitor | discover one system or all, lookup with auto discovery, shutdown, start and stop monitoring, quit, completion from the map | a name leads to that system and to nobody else; nothing is forgotten but what was shut down; a listing is honoured by the next command |
| **Websocket server** (`fep_control_tool.cpp`, `fep_control_websocket.cpp`) | shutdown flag, list of active connections, one session and one lock per connection | accept, handshake, read, execute, answer, signal, shutdown message, quit | the list is that of the live sessions; one writer per socket; no command lost; clients are told before the process ends |
| **Output of a session** (`fep_control.cpp`, `monitor.cpp`) | the JSON mode, twice; registration of the monitor with each system | answers, log messages, shutdown message, switching the mode, monitoring, destruction | format and monitoring follow what the client was told; a JSON answer stays whole; nothing calls a destroyed object |
| **Start** (`fep_control_tool.cpp`) | options, result | parse, execute one command, choose a mode, exit status | options before the command decide, its words do not; the caller learns how it ended |
| **Command dispatch and help** (`fep_control.cpp`) | table of commands | look up, count arguments, bind, complete | a line gets one answer; handler, table and completion agree on the arguments |
| **Properties of participants** (`fep_control.cpp`) | the tree is in the participant; list of properties used | names, all, get, set, traverse | every property once, at its path, with a value it had; set changes what get would show |
| **Console session** (`fep_control_tool.cpp`, `fep_control_commandline.cpp`) | shutdown flag, lock of the output | read lines, execute, end of input, log messages, signal, shutdown message | a piped batch is executed completely before the process ends |
| **Line parsing and quoting** (`helper.cpp`, `control_tool_common_helper.h`) | none | line to words, name to quoted word | what completion writes is read back as it was meant |
| States and priorities (`fep_control.cpp`) | in the participants | state changes of systems and participants | partial failure is reported |
| RPC pass through, working directory, formats | - (the directory belongs to the process) | pass a call on, change the directory | one answer |
| linenoise (vendored) | history, line editor | - | - |

How they interact: the input thread or a session thread calls the handlers,
which use the registry, the library and `writeOutput`; the library's log threads
call the monitor, which calls `writeOutput` of the same session; the main
thread calls `writeShutdownMessage` of every session. Shared state is the
shutdown flag (atomic), the list of connections (a mutex), the socket of a
session (a mutex), and, without any lock, the JSON mode.

What is hard in it, and hardly tested (the list with its lines is `hazards` in
`PROJECT.json`):

- the registry is a cache: participants come and go and the entry stays;
- the system without a name is `""` to the library and `-` to the user, and the
  code translates in some places and not in others;
- main informs a *copy* of the connections while sessions start, execute and end;
- a write blocks while its peer does not read, with the session's lock held;
- `quit` calls `exit` on whatever thread executes it, while the others go on;
- an exception of the acceptor destroys the `io_context` under the sockets of live sessions;
- what the library throws as the monitor is registered or taken back is swallowed or passed on half way;
- the JSON mode is read by one thread and used later, while another sets it;
- an answer is several messages, and others come in between;
- members are destroyed in an order their callbacks do not know of;
- a tree of properties is read by several remote calls for each node while others change it;
- the table of commands says how many arguments a handler gets, the handler how
  many it reads, and nothing but the programmer keeps them equal;
- handlers throw in the middle of a change.

## 2. The modules

| Module | Models | Composes / refines |
|---|---|---|
| `SystemRegistry` | the registry of one session and the participants around it | |
| `SystemRegistryProofs` | theorems about it | extends `SystemRegistry` |
| `WebsocketServer` | all threads of the websocket mode and its clients | implements `ShutdownNotice` |
| `WebsocketServerProofs` | theorems about it, and that it implements `ShutdownNotice` | extends `WebsocketServer`, `SequenceLemmas` |
| `ShutdownNotice` | what clients are promised about the end of the server | abstract |
| `SessionOutput` | the three kinds of writers of one session, and its destruction | |
| `SessionOutputProofs` | theorems about it | extends `SessionOutput` |
| `CommandDispatch` | the table of commands, what handlers read, and how a line may end | no state of its own |
| `Startup` | `main` and `parseAndExecuteCommandline` | extends `CommandDispatch` |
| `CommandSession` | the lines and the completion of the session that follows | composes `Startup` and `CommandDispatch` |
| `CommandSessionProofs` | theorems about the composition | extends `CommandSession` |
| `ParticipantProperties` | the commands on properties and the tree they read | |
| `ParticipantPropertiesProofs` | theorems about it | extends `ParticipantProperties`, `SequenceLemmas` |
| `CommandLineLoop` | the input thread, main and the log threads of the console mode | |
| `CommandLineLoopProofs` | theorems about it | extends `CommandLineLoop`, `SequenceLemmas` |
| `CommandLineParsing` | `parseLine`, `getNextWord`, `unEscape`, `quoteNameIfNecessary`, the line of the completion | |
| `CommandLineParsingProofs` | theorems about it | extends `CommandLineParsing`, `SequenceLemmas` |
| `Counting` | how many elements of a sequence are in a set | used by the two that count commands |
| `SequenceLemmas` | induction, and what prefixes, `FlattenSeq`, `SetToSeq` and `Count` do to any sequence | used by four of the modules of proofs |
| `MC...` | constants and symmetry for TLC, one per module with model values | extend their module |

Operators that begin with a comment "Slip" are not part of the specifications:
each is a definition of the code changed the way a plausible bug would change
it. `PROJECT.json` pairs each property with the slip that breaks it.

### SystemRegistry

State: `registry` is `_connected_or_discovered_systems`, `autoDiscovery` and
`lastUsed` are the two members beside it. A System object is a record of its
name, the participants discovery found and whether the monitor is registered;
`NotConnected` stands for no entry. `up` is the world: the participants that
run. `answer` is what the last command told the user: the command, the name
typed, how it ended and what it showed. `running` turns false with `quit`.

A session executes one command at a time, so a handler is one action, with its
lookup, every outcome of the library (also the throwing ones, after part of the
work was done), the change of the registry and of `lastUsed`, and the answer.
Between two commands participants appear and disappear. Discovery hears *some*
of those that are up. Correspondence worth pointing out:

- `Lookup` is `getConnectedOrDiscoveredSystem`: a name that is not there is
  discovered when auto discovery is on, stored under its *real* name
  (`Discovered`), and looked for under the *typed* one;
- `Listed` is the loop of `discoverAllSystems`: `emplace`, which keeps an entry
  that is there;
- `Erased` erases by the name *of the System object*;
- `ShutdownSystem` stops some or all participants of the snapshot, and erases
  the entry only if the library did not throw;
- `SetParticipantState` reaches nobody under the name `-`: it makes a second
  System object out of the name as typed;
- `StartMonitoringSystem` takes the old registration back before it makes a new
  one, which may throw; `StopMonitoringSystem` answers the same whether the library took the
  registration back or refused, which the code ignores.

Commands that differ only in the method they call (`start`, `stop`,
`getSystemState`, the timing commands ...) are one action (`UseSystem`), those on a
participant another (`UseParticipant`).

### WebsocketServer

One action per step that another thread can see: taking a lock, writing, reading
the flag, copying or changing the list. The handler itself runs between
`ReadRequest` and `LockForAnswer`; what it does to the registry is
`SystemRegistry`. A connection is a member of `Clients`; a client that comes
back is another member. An exception of `accept` or `read` is `ConnectionLost`; a
write to a client that has gone throws and is swallowed (`Delivered`). An
exception in the acceptor (`AcceptorFails`) ends that thread and may leave a listed
connection without one. It also destroys the `io_context` that is local to the thread
(`fep_control_tool.cpp:131`) and that the sockets of all sessions refer to. Using such a socket is
undefined behaviour: in the model the session goes on as before, or the process dies there
(`UseOfDeadSocket`). `quit` takes two steps: it writes its answer as any command does
(`WriteAnswer`), and then clears its systems and ends the process with every connection
(`Quit`); in between all other threads may act.

`ShutdownNotice` is the promise in terms of what clients see: whoever is
connected when the shutdown is noticed is due a message, and the process does
not end in order while one is due. The refinement mapping computes `due` from
`openAtShutdown`, a history variable, and the messages sent.

### SessionOutput

`jsonMode` and `monitorJson` are the two flags; `building[t]` is the format
thread `t` has read and not written yet, the window in which the flag may
change, and `source[t]` the system whose message it is. The flags are plain `bool`s read and
written without a lock; the model lets a reader get the value before or after the write,
which is what the builds can produce for one byte. The monitor is registered with each system by itself
(`registered`): a command on one of them leaves the others alone. `StartMonitoring` and
`StopMonitoring` are the two handlers as far as they write an answer of success;
`StartMonitoringThrows` is the first one when the library throws, behind an old registration
that was taken back or not. `StopMonitoring` gives its answer also when the
library refused. `DiscoverSystem` and `ShutdownSystem` replace and erase the System object, and the
registration with it.

`announced` and `toldOn` are what the client was last *told*; `stale` and `late` count the
messages that contradict it. `unsure` are the systems of which the answers do not tell
whether the monitor is registered, until the next start or stop that did what it says: a
start threw, a stop was refused, or the System was replaced or erased. The last three
actions destroy the members in the reverse of their declaration.

### CommandDispatch, Startup, CommandSession

`CommandDispatch` holds the table of `getControlCommands`. `Offered(c)` is the list of
completion callbacks of a command, whose length is the number of arguments it takes but
for the `Optional` ones; `Reads(c, n)` is the sequence of uses of the iterator in the
handler, read off the handlers one by one and not off the table, so that comparing the two
means something. `Processed` is `processCommandline`: an unknown command (-2), a
wrong number of arguments (-3), or the handler. What a handler may come to is a set of
*outcomes*: the answers it writes, the status, and whether it returns, throws or
exits. `OnSystem` and `OnParticipant` wrap the lookups: a session that knows no system and
does not discover has only the error. `Sessions` is what of a session this depends on: does it
discover, does it know a system, does it answer as JSON; `After` is what the line does to these.
The format counts because a listing of no system has no line as text.

`Startup` takes arguments one by one; an option, its value and what the code does with
them is one action. `Execute` makes a new session, processes the rest of the arguments in it
and takes its outcome. `FoundExecuteCommand` is the variable `main` tests and nobody
sets.

`CommandSession` goes on where `Startup` ends: each line typed or sent is
`Processed`; what a handler throws ends a console and is an error answer of the server. `Complete`
is TAB behind any number of words.

### ParticipantProperties

The tree of properties is a function from paths of names to values. A path typed is a
sequence of names and slashes, taken apart by `NodeAndLeaf` and put together by
`Joined`, as the code does with its string. A command begins (`List`, `GetProperty`,
`SetProperty`) and then makes its remote calls one by one, each an action of its own:

- for a node that is shown `getProperties` of the node it is in (`FindNode`), `getProperty`
  (`ReadValue`) and `getPropertyType` (`ReadType`, which adds the line), then, as for the
  node a listing starts from, `getProperties` of the node itself (`FindChildren`) and
  `getPropertyNames` (`ReadNames`, which adds a call of `traverseProperties` for each name);
- to set a property `getProperties` (`FindNode`), `getPropertyType` (`ReadType`) and
  `setProperty` (`WriteProperty`).

`pending` are the calls of `traverseProperties` to come, `step` the remote call that is next for the first
of them, `value` what has been read and not been shown. The command ends in an answer (`Shown`, `WriteProperty`,
`NotFound`, `CallFails`). Between any two remote calls `Elsewhere` changes the tree. `lenient` leaves open
whether the library ignores a slash too many. `ever` and `always` are history variables: the
properties, with their values, that were there at some time and at all times since the command
began. `used` is `_used_properties`, with the comparison that keeps it from growing.

### CommandLineLoop, CommandLineParsing

`CommandLineLoop` is the input thread (read, execute, write under the lock; the
end of the input sets the flag), main (poll, lock, write, return, without
joining), and the threads that deliver log messages once a system is monitored (`LockForLog`,
`WriteLog`), which compete for the same lock until the process has ended. `HandlerThrows`
is an exception that no handler catches: it leaves the thread and ends the process. `quit`
answers and exits in two steps, as on the server. `sinceBye` is what has reached the console from
the shutdown message on.

`CommandLineParsing` starts from names, makes the line completion would make of
them and reads it as `parseLine` does, a word at a time. The five characters are
those the code tells apart: a blank, a backslash, the two quotes, and any other.

## 3. What TLC checks

| Run | Asks | Bounds | Result |
|---|---|---|---|
| `registry` | does a name always lead to its own system, whatever sequence of discoveries, auto discoveries, shutdowns, joins and leaves came before? | 2 participants of a named system, 1 of the unnamed | holds |
| `registry_discover_all` | is a participant that `discoverAllSystems` has just listed known? | same | refuted |
| `websocket` | list = live sessions, one writer, no command lost or answered twice, everyone due is told before the end | 2 connections, 2 requests each, `quit` among them, an acceptor that fails | holds |
| `websocket_liveness` | does a shutdown end, is a command answered, does a lost connection leave the list? | 2 connections, one of which may stop reading, 1 request each | holds |
| `output` | do format and monitoring follow the answers, is a JSON answer whole? | 2 log threads and main, 2 systems, listings of up to 2 | holds |
| `output_lifetime` | is no destroyed monitor or socket called? | same | refuted |
| `startup` | do options and the command decide what they should, does the status tell, is every line answered once, do table, handlers and completion agree? | every list of up to 4 arguments; every line and TAB, with up to one argument too many, behind those of up to 2 | holds |
| `execute_json` | does a program exit behind the command it was given? | every list of up to 4 arguments | refuted |
| `properties` | is an answer complete, true and about what was asked for, and does set change what get shows? | trees of up to 3 properties, 2 deep, 2 names, 2 values, paths of up to 4 names and slashes, 2 changes by others during each command | holds |
| `command_line` | is a batch executed completely, is no command lost, and does the process end? | every input of up to 3 lines, pipe and terminal, one signal, any number of log messages | holds |
| `parsing` | are quotable names read back, with and without the word completion asks for? | up to 2 names, up to 3 characters each, 4 together | holds |
| `parsing_names` | is every name? | same | refuted |

Why the bounds are enough. In the registry two participants of one system are
what it takes for an entry to be older than the world (one in it, one not), and
one system of each kind (named, unnamed) what it takes to mix the keys up; all
state is finite, so sequences of any length are covered. Two connections give a
client that is informed and one that is still waiting, executes, connects or
leaves; two requests give one that waits while one is executed. Two log threads
and main give two messages in the same gap; two systems one that is stopped beside one that
is monitored on. Four arguments hold an option, an
execute option, a command and an option behind it; two are enough to reach the console
and the server in both formats, and what a line may come to depends only on the
session's knowledge and format. Three properties are a node with one below and one beside it, or with
two below; two names are one to ask for and one to leave out; four tokens are a path
of two names with any slash too many. Two changes are what it takes for a property to go before its
value is read and to be back before its children are asked for, or for a value to change
and its place to go; the count starts anew with every command. Deeper trees and more changes
are left to the proofs, which have no bound. Four characters hold a
quoted name with a blank, a backslash and a quote, beside another name; the
parser has two characters of memory. No counter needs a bound beyond these: what
is counted is bounded by the requests, the lines or the two that `stale` counts to.

No run checks deadlock: the programs modelled end, and a registry whose
process has quit or a server that has returned has no step to take.

Symmetry is used where only safety properties are checked over a set of
interchangeable clients or threads (`websocket`, `output`), never with a liveness
property. (`ImplementsShutdownNotice` has no liveness part.)

### Fairness

- `WebsocketServer`: weak fairness of main, of the acceptor and of each session
  thread, because the operating system schedules them. Not of clients: they
  owe no request and no handshake. A write to an `Unresponsive` client is
  not fair while the connection is open. Locks get no strong fairness, since a
  `std::mutex` is not fair: main needs the lock of a session once, and the session lets go of it because
  `MaxRequests` bounds what its client sends. A client that sends for ever might keep main
  from its lock for ever; the bound hides that, and `ShutdownEnds` does not speak of it.
- `CommandLineLoop`: weak fairness of main, of execution, of writing a log message that
  has the lock, and of reading when the input is a pipe. Nobody owes a line at a terminal, a log
  message, a signal or an exception. The mutex is not fair here either, and log messages have no
  bound: `ShutdownEnds` and `ProcessEnds` except the runs in which they are written for ever
  (`LogsForever`).
- All other modules have no fairness and only safety properties: nobody owes the
  program a command, and what a handler waits for is the library's.

### What the runs that fail show

Each refutes one sentence of the repository (quoted in `findings`).

- `registry_discover_all`: an entry that exists is kept by `discoverAllSystems`. A
  participant that joined later is listed and refused, and the refusal
  recommends the command that has just been given.
- `output_lifetime`: a session that ends while it monitors destroys its socket,
  then the monitor, then the systems, whose threads may still call the monitor.
- `execute_json`: `found_execute_command` is passed to the parsing, which never sets it. A
  program given `--json --execute ...` executes its command and then goes on to the console,
  where the comment (`fep_control_tool.cpp:280-281`) has it exit. `ModeFollowsOptions`
  leaves this case open.
- `parsing_names`: quotes are put around a name only for a blank, and an
  apostrophe is never escaped, so such a name opens a quoted part of the line.

### Divergences seen without a run of their own

- The help of the discovery commands says they register the logging monitor
  (`fep_control.cpp:1720`, `1725`); no discovery does.
- With auto discovery on, the first command on `-` is answered "not connected": the
  system was stored under the empty name (`fep_control.cpp:46`).
- After the shutdown of `-` the entry that `discoverAllSystems` stored under `-`
  stays (`fep_control.cpp:560` erases by the real name).
- `stopMonitoringSystem` answers "monitoring: disabled" also when the library refused to take
  the registration back (`fep_control.cpp:597-603`), and messages go on to come.
- `startMonitoringSystem` of a monitored system that throws may have ended the old
  registration (`fep_control.cpp:574-582`).
- `discoverSystem` replaces the System object and so silently ends its monitoring
  (`fep_control.cpp:359`).
- `quit` of one websocket client ends the process for all, who are not told
  (`fep_control.cpp:817`). `ShutdownNotice` allows it: its `Quit`.
- `--auto_discovery` is parsed into a variable that nobody reads; the session of the
  command is made with the JSON mode only (`fep_control_tool.cpp:228`), although the usage
  (`fep_control_tool.cpp:242-247`) offers the option before `--execute`. Such a session knows no system and
  discovers none, so every command on a system is refused there. A console or server session
  ignores the option too.
- `--websocket --execute ...` goes on to the server behind its command; the comment on
  `found_execute_command` does not speak of that mode.
- A batch that started the monitoring of a system may have its log messages behind the shutdown message
  (`fep_control_tool.cpp:200-202`).
- The input thread's copy of the session is gone when the input has ended, so the console session is
  destroyed as main returns, in the order that `output_lifetime` is about.
- A websocket client that comes in, or completes its handshake, while main informs is
  served and then dropped without a message (`fep_control_tool.cpp:174`;
  `changelog.md:40` says they are informed). `InformedBeforeReturn`, the weaker
  promise, holds.
- Help on a word that is no command prepares an answer and drops it
  (`fep_control.cpp:1653-1656`); `getParticipantPropertyNames` of a participant without
  configuration writes nothing, and so does a listing of no system as text
  (`fep_control.cpp:246-250`). `AnsweredOnce` names these.
- `setSystemState` returns success after the error answer of its last step
  (`fep_control.cpp:787`). `--execute` cannot meet it: its session knows no system.
- What the library's `setProperty` returns is ignored, and "property set" is answered
  (`fep_control.cpp:1332`), also of a property that has gone since its node was found.
- A property that goes between the calls for its node and for its value, and is back before its
  children are asked for, is shown with an empty value that it never had
  (`fep_control.cpp:1034-1046`). `OnlyTruthIsShown` says when.
- A property at the top level can be set as `/x`, and `getParticipantProperty` never
  shows its value.
- The properties offered for completion never grow: the list is searched for the
  participant (`fep_control.cpp:1286`, `1334`).
- TAB on an empty prompt reads the first of no words (`fep_control_commandline.cpp:56`,
  `linenoise.c:1164`); in the model it ends the program.
- `utilities_overview.md:26` documents `startMonitoring`; the command is
  `startMonitoringSystem`.
- An exception of a handler on the console ends the process and the batch
  (`fep_control_commandline.cpp:109`); on a websocket it is an error answer.

The properties `ShutdownForgets`, `OthersKeepMonitoring`, `AutoDiscoveryConnects`
and `ListingIsHonoured` are restricted to systems that have a name because of the
second and third of these.

## 4. What is proved

### The registry (`SystemRegistryProofs`)

From the three assumptions `SystemRegistry` declares (`NamesAssumption`: the
empty name is a name and `-` is not the name of a system; `HomeAssumption`:
every participant has one system; `EntryAssumption`: no System object is
`NotConnected`), for any participants, finite or not, and any names.

The inductive invariant is

    IInv == TypeOK /\ EntriesAreTheirKeys /\ AnswersConcernNamedSystem

`EntriesAreTheirKeys` alone is not inductive without the types, and
`AnswersConcernNamedSystem` needs it in the step that answers from an entry. The
argument goes over the *registry a command leaves behind*: `RegistryOK(r)` says
that every entry of `r` is a System object of the key's system with
participants of that system, and the lemmas `NewSystemOK`, `StoreOK`, `MonitorOK`
and `LookupOK` show that each thing a handler does to a registry keeps it so.
Every action then has one lemma, and `NextOK` collects them.

| Theorem | Property | Argument |
|---|---|---|
| `RegistryInvariant` | `IInv` | induction |
| `TypeCorrect`, `EntriesCorrect`, `AnswersCorrect` | `TypeOK`, `EntriesAreTheirKeys`, `AnswersConcernNamedSystem` | parts of `IInv` |
| `ForgetsOnlyOnShutdown` | `OnlyShutdownForgets` | a lookup and a discovery lose no entry; `Erased` erases the entry whose name is that of the object, which by `IInv` is that of the key |
| `ForgetsAfterShutdown` | `ShutdownForgets` | for a name of its own the name of the object is the key |
| `MonitoringIsKept` | `OthersKeepMonitoring` | `LookupKeepsNamed`, `CommandEffect`, `DiscoveryEffect`: what each command does to the entries of other names |
| `DiscoveryConnects` | `AutoDiscoveryConnects` | with auto discovery a lookup of such a name finds an entry or throws (`LookupDiscovers`) |
| `CompletionIsOfCommand` | `CompletionFollowsCommand` | `LastUsedIsAnswered`: a command that succeeded left its name as the last one used |
| `ListedIsKnown` | `ListingIsHonoured` | `ListingIsEntry`: what a listing by name showed is what the registry holds, and a lookup that finds an entry changes nothing |

The last two rest on a second invariant, `RInv == LastUsedIsAnswered /\ ListingIsEntry`,
which relates the last answer to the registry and is inductive together with `IInv`.

### The websocket server (`WebsocketServerProofs`)

From `ClientsAssumption` (`Nobody` is neither a connection nor a request) and
`RequestsAssumption`, for
any set of connections and any bound on the requests. The properties are not
inductive: what they need is

- `AcceptorOK`: the connection the acceptor works on exists and has no thread yet,
- `MutexOK`: while the process runs a lock is held by exactly the thread that writes,
- `LinkOK`: an open connection has a thread that serves it, so by
  `ActiveAreSessions` it is in the list that main copies,
- `InformingOK`: who is pending or being informed has not been told,
- `DueOK`: while main informs, everybody who was open at the copy is pending, is being
  informed, was told, or has gone.

With the types and the properties they make `IInv`. `TypeCorrect`,
`ActiveCorrect`, `WritersExclude`, `ByeIsSaidOnce` and `AllInformed` follow, and
`ServerImplementsNotice`: the lemmas `ClientSeen`, `HandshakeSeen`, `SessionSeen` and
`MainSeen` map each step to a step of `ShutdownNotice` or, by `Unseen`, to none.

`CommandsAreAnsweredOnce` (`EveryCommandOnce`) needs one invariant more, `LinesOK`: what waits
and what is executed are requests. It counts the commands that wait with `Count`; the lemmas of
`SequenceLemmas` say what `Tail` and `Append` do to a count, from the cardinality of the set
of places and without an induction over the sequence.

### The output of a session (`SessionOutputProofs`)

For any set of log threads that does not contain main, and any length of listings. A thread
is behind by one message only if it has none of the old format left (`StaleOK`),
which needs that the client knows the mode unless it is just being switched
(`AnnouncedOK`) and that the two copies of the mode agree but for that moment
(`SwitchOK`). `MonitoringOK` relates, for each system that is not `unsure`, the registration to what the
client was told or is about to be told, and `LateOK` says of log messages after the answer to
a stop what `StaleOK` says of the format. `WholeOK` bounds a JSON answer by one message.
`FormatFollowsAnswer`, `MonitoringIsAsTold` and `JsonAnswersAreWhole` follow.

### The console (`CommandLineLoopProofs`)

For input of any length. The invariant adds to `TypeOK` and `NoCommandLost`: the line the
input thread holds (`LineOK`), who has the lock (`MutexOK`), that main stops polling because the
input has ended or for a signal (`EndOK`), and that after the shutdown message of
an orderly end only log messages are written (`ByeOK`). `CommandsAreKept` is the count, kept by
`CommandsOfTail` when a line is read; `BatchesAreComplete` follows from it, since at the
end nothing is left to read and nothing is held.

### The start, the commands and their answers (`CommandSessionProofs`)

For command lines of any length and any number of lines after them. One half is about the
table: `TableOK` and `OfferedOK` go through the commands by the form of their arguments and show that
a handler reads what was accepted, and takes each argument for what was offered;
`EndingsOK` and `OutcomeOK` show what a line may come to, who is silent, who
throws, and that an error is forgiven only by a session that may know a system. The other half
is the invariant of the parsing: the flags are those of the arguments looked at (`SeenOK`), the parsing
stops at the first execute option or at the end (`StoppedOK`), so that `OptionsSeen` holds:
the options that count are the arguments looked at. With `SettledOK`, `ExecutedOK`,
`ResultOK` and `OfferOK` this is inductive, and `ModeIsOptions`, `OneCommandIsExecuted`,
`ExitStatusIsTold`, `LinesAreAnsweredOnce` and `TableAndHandlersAgree` follow.

### Induction over data (`SequenceLemmas`)

The properties of participants and the parsing are about sequences of any length, so their
proofs need induction, and the values of recursive functions. The library states induction for
an operator, which the provers cannot take; here it is stated for a *set*. `LeastNatural` (a
set of naturals that is not empty has a least element, from the theorem of the library that `<`
is well-founded on them) gives `Induction` (a set that has 0 and with every number the next
is `Nat`) and `SequenceInduction` (a set that has `<<>>` and with every sequence the
ones with an element more has them all). `RecursionExists` is what makes recursive
definitions usable: for a start, a step from a number and a value to the next value, and an
`n`, there is a function whose values from 0 to `n` follow each other so. It is
found by `Induction` over the numbers for which one exists; with it the functions
that the definitions CHOOSE are shown to satisfy their equations.

From these come the lemmas on the library's operators: `FlattenSeq` of a sequence and of one
with an element more (`FlattenStepwise`, `FlattenOfAppend`), `SetToSeq` (`SetToSeqProperties`:
each element of a finite set once), prefixes, `Max` and `Min`.

### The properties of a participant (`ParticipantPropertiesProofs`)

From the assumptions of `ParticipantProperties`, for trees of any size and depth, any paths typed,
and any number of changes by others between any two remote calls. First come lemmas about paths:
what `Resolved` does to a path taken apart by `NodeAndLeaf` and put together by `Joined`
(it ends with the name that was joined), and that a clean path stays clean; then the lines:
`PathAt` is the node a line stands for, read from the names and depths of the lines before it, and a
line more does not change it for those before. The invariant `IInv` consists of

- `TypeOK` and `Phases`: what is set in which phase of a command, and that `ever` holds
  the tree as it is, and the tree all of `always`, while one is executed; also that `used`
  never changes, because the participant is looked for in it;
- `PendingPlaced`: every call to come is for a node under the target, as deep under it as
  the call says, that existed during the command; and the *path so far* of the lines at its
  depth leads to the node the call starts from. This is why depths and order of
  the lines suffice to place them, and it needs that the calls are sorted by depth;
- `HeadOK`: how far the first of them is: what remote calls its command can make, that the
  value read and not shown yet was true, and that its line, once added, is the last one;
- `LinesPlaced`: no line skips a depth, and each stands for a node that was wanted, existed
  and had the value shown, or was missing if it is shown without one. The line added last is excused from
  having existed until `FindChildren` finds its node (`Unconfirmed`): the property may have
  gone between `FindNode` and `ReadValue`, and if it does not come back the command is refused;
- `Once`: a node that was there all the time is shown by exactly one line and by
  no call to come, or by no line, and exactly one call leads to it; the call that has shown its
  line leads only to what is below;
- `RefusedWithReason`: the second part of `NothingIsLeftOut`.

`NothingIsLeftOut` by itself says nothing before the answer; `Once` and
`PendingPlaced` are what a step of the traversal keeps. The two steps with the longest
proofs are `ReadType`, which adds the line (`TypeKeeps...`), and `ReadNames`, one call less and
a call for each child (`NamesKeep...`). A child that goes between two remote calls
is not in `always` any more, one that is added never was.

| Theorem | Property | Argument |
|---|---|---|
| `WalkCorrect` | `IInv` | induction |
| `TypeCorrect` | `TypeOK` | part of `IInv` |
| `PropertiesAreNotLeftOut` | `NothingIsLeftOut` | when the answer is given no call is to come, so by `Once` every line is there |
| `AnswersAreTrue` | `OnlyTruthIsShown` | `LinesPlaced` |
| `SetChangesNamed` | `SetChangesThePropertyNamed` | node and leaf of a path resolve, put together, to what the path resolves to |

### The parsing (`CommandLineParsingProofs`)

For any number of names of any length. In this order:

- `EscapedFacts`, by induction over the name: escaping adds backslashes only, a last backslash
  of a name comes as two, and if the name has no double quote directly behind a backslash,
  exactly one backslash stands before every double quote;
- `EscapedIsReadBack`: `unEscape(Escaped(name)) = name` for *every* name. The function that
  says which characters are escaped satisfies its equation by `RecursionExists`;
- `EndsIsDefined`: so does `PlainWordEnd`, which recurs towards the end of the line and
  jumps over quoted parts; the values at the last `k` places no longer change after
  `k` steps;
- `QuotedWordAt` and `PlainWordAt`: where the piece of a quotable name stands in a line with a
  blank or the end behind it, the word found there is that piece without its quotes;
- `LineBegins`: the line of the first `k` names is a prefix of the line of all of them;
- `NextNameStands` and `EndIsReached`: behind the line of `k` names the piece of
  the next one is found, or what was typed behind the last.

With `Progress(k)` (the words are the first `k` names, the position is the one behind the
line of these) the invariant is

    IInv == TypeOK /\ LineIsOfNames /\ (AllQuotable => IF reading THEN \E k : Progress(k)
                                                      ELSE words = Expected)

and `ReadingFollowsTheNames` shows it. `ParsingTypeCorrect` (`TypeOK`; that the reading
stays in the line holds whatever the names are) and `NamesAreReadBack`
(`QuotedNamesAreReadBack`) follow. `parsing_names` shows that the restriction to quotable names
cannot be dropped; since `EscapedIsReadBack` holds for all of them, what goes wrong there is where
a word ends, and not its escapes.

### Only model-checked

The liveness properties (`ShutdownEnds`, `CommandAnswered`, `LostConnectionRemoved`,
`ProcessEnds`): fairness and ENABLED are beyond the prover. Every other property of a
passing run is a theorem. The four sentences that runs refute have no proof of what holds
instead, but where a property of a passing run says it (`ListingIsHonoured` for
`registry_discover_all`, `QuotedNamesAreReadBack` for `parsing_names`).

## 5. What is not modelled

- What the fep3 library does inside: discovery, state machines, RPC, log sinks. A
  call succeeds, throws, or has done part of its work and throws.
- The states and priorities of participants. They are the library's; the commands on them
  are modelled by the participants they reach (`SystemRegistry`) and by how they
  end (`CommandDispatch`). Two sessions that change the same system meet only inside it.
- The requests and responses of `callRPC`, which are passed on as they are.
- The working directory: one call of the file system, whose result nothing in the program
  reads but `getCurrentWorkingDirectory`. It belongs to the process, so one client's
  change moves it for all; this is listed as a hazard without a property.
- Layout of text and JSON, wording, logging, colours. How many messages an answer takes is
  modelled, since that is what others can come between.
- linenoise, which is vendored; the welcome and the prompt but for the lock.
- Memory and descriptors, but for the thread or the socket the acceptor may not get.

## 6. Plan

Done, in this order: the registry and its proofs, the websocket server, its abstract promise
and their proofs, the output, the start, the console, the parsing; the dispatch and its
composition with the start, the properties of participants; the proofs of the output, of the
console, of the start and the dispatch, and of what the registry and the server were only
checked for; the lemmas for induction over sequences, and with them the proofs of the properties
of participants and of the parsing.

What would add to it:

1. An abstract specification of the console, the counterpart of `ShutdownNotice`:
   commands in, answers out, one goodbye; `CommandLineLoop` implements it by its counts.
2. The library's answer to a property that is refused, as part of `ParticipantProperties`: it would
   need a word of the repository on what "property set" promises.
3. The registry of one session beside that of another that shuts the same system down. The
   participants that disappear in `SystemRegistry` are the effect of it on the first; the
   second is not modelled.
