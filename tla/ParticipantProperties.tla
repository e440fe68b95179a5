------------------------ MODULE ParticipantProperties ------------------------
(* The commands on the properties of one participant                          *)
(* (src/src/fep_control_tool/fep_control.cpp: getNodeAndLeafNamefromProperty, *)
(* traverseProperties, getParticipantPropertyNames, getParticipantProperties, *)
(* getParticipantProperty, setParticipantProperty).  The properties are a tree*)
(* in the participant, read and set by remote calls between any two of which  *)
(* others may change it: up to five for a node that is read, three to set a   *)
(* property.  A path is a sequence of names and slashes, which is how the code takes*)
(* it apart and puts it together; the JSON and the text answer show the same  *)
(* lines.                                                                     *)
EXTENDS Naturals, FiniteSets, Sequences, SequencesExt

CONSTANTS Names,       \* of properties, "clock", "main_clock" ...
          Values,      \* of properties
          MaxNodes,    \* bound: how many properties a participant has
          MaxDepth,    \* bound: how deep they nest
          MaxTokens,   \* bound: how many names and slashes the user types
          MaxChanges   \* bound: how often others change the properties during one
                       \* command, and before the next

ASSUME NamesAssumption == "/" \notin Names /\ "" \notin Names
ASSUME BoundsAssumption == /\ MaxNodes \in Nat /\ MaxDepth \in Nat
                           /\ MaxTokens \in Nat /\ MaxChanges \in Nat

VARIABLES tree,      \* the properties: each node but the root, with its value
          lenient,   \* does the library ignore a slash too many?
          command,   \* the command executed last: what, and the path typed
          pending,   \* the calls of traverseProperties still to come, innermost first;
                     \* of setParticipantProperty, its node and leaf
          step,      \* the remote call to be made next for the first of them
          value,     \* that getProperty gave, or that is to be set
          lines,     \* what the calls have shown
          answer,    \* to the command; "none" while it is executed
          used,      \* _used_properties, offered for completion
          changes,   \* counts the changes by others since the command began
          ever,      \* properties with values there were since the command began, as long
                     \* as its answer may show one
          always     \* properties there were all the time since

answerVars == <<command, pending, step, value, lines, answer>>
vars == <<tree, lenient, answerVars, used, changes, ever, always>>

-----------------------------------------------------------------------------
(* The tree and the library                                                   *)

Nodes == BoundedSeq(Names, MaxDepth) \ {<<>>}

IsTree(nodes) == IsFiniteSet(nodes) /\ \A n \in nodes : Len(n) > 1 => Front(n) \in nodes

Trees == UNION {[nodes -> Values] :
                nodes \in {s \in UNION {kSubset(k, Nodes) : k \in 0..MaxNodes} : IsTree(s)}}

InTree(n) == n = <<>> \/ n \in DOMAIN tree

Children(n) == {m \in Names : Append(n, m) \in DOMAIN tree}

\* Text has no two names without a slash in between.
Paths == {p \in BoundedSeq(Names \cup {"/"}, MaxTokens) :
             \A i \in 1..(Len(p) - 1) : p[i] = "/" \/ p[i + 1] = "/"}

\* The node the library finds under a path: the names in it, and no slash too many.
Resolved(p) == FlattenSeq([i \in DOMAIN p |-> IF p[i] = "/" THEN <<>> ELSE <<p[i]>>])
Clean(p) == \A i \in DOMAIN p : (p[i] = "/" <=> i % 2 = 0) /\ (p[i] = "/" => i < Len(p))
Found(p) == InTree(Resolved(p)) /\ (lenient \/ Clean(p))

-----------------------------------------------------------------------------
(* Paths in the code                                                          *)

NoName == ""

Slashes(p) == {i \in DOMAIN p : p[i] = "/"}

\* Slip: the node ends at the first slash, the leaf begins at the last.
SplitAtFirst(p) ==
    IF Slashes(p) = {} THEN [node |-> p, leaf |-> NoName]
    ELSE [node |-> SubSeq(p, 1, Min(Slashes(p)) - 1),
          leaf |-> IF Max(Slashes(p)) < Len(p) THEN Last(p) ELSE NoName]

\* getNodeAndLeafNamefromProperty: a path without a slash is all node.
NodeAndLeaf(p) ==
    IF Slashes(p) = {} THEN [node |-> p, leaf |-> NoName]
    ELSE [node |-> SubSeq(p, 1, Max(Slashes(p)) - 1),
          leaf |-> IF Max(Slashes(p)) < Len(p) THEN Last(p) ELSE NoName]

\* Slip: the slash is put behind any node, the empty one and one that ends in it too.
JoinedAlways(node, name) == IF name = NoName THEN node ELSE node \o <<"/", name>>

\* next_node: a slash behind a node that is not empty and does not end in one.
\* (For an empty node both sides of the comparison are npos.)
Joined(node, name) ==
    IF name = NoName THEN node
    ELSE IF node # <<>> /\ Last(node) # "/" THEN node \o <<"/", name>>
    ELSE Append(node, name)

-----------------------------------------------------------------------------
NoCommand == [what |-> "none", path |-> <<>>]
Commands == {"names", "properties", "get", "set"}

Calls == [node : Seq(Names \cup {"/"}), name : Names \cup {NoName}, depth : Nat]
Lines == [depth : Nat, name : Names, value : Values \cup {NoName}]

\* What is offered from the start.
ClockNames == {"clock", "main_clock", "step_size", "time_factor"}
ClockProperties == << <<"clock", "/", "main_clock">>, <<"clock", "/", "step_size">>,
                      <<"clock", "/", "time_factor">> >>

TypeOK == /\ tree \in Trees
          /\ lenient \in BOOLEAN
          /\ command \in [what : Commands \cup {"none"}, path : Paths]
          /\ pending \in Seq(Calls)
          /\ step \in {"node", "value", "type", "next", "names", "set"}
          /\ value \in Values \cup {NoName}
          /\ lines \in Seq(Lines)
          /\ answer \in {"none", "shown", "set", "error", "notfound"}
          /\ used \in Seq(Seq(Names \cup {"/"} \cup ClockNames))
          /\ changes \in 0..MaxChanges
          /\ ever \subseteq Nodes \X Values
          /\ always \subseteq Nodes

Pairs(t) == {<<n, t[n]>> : n \in DOMAIN t}

Init == /\ tree \in Trees
        /\ lenient \in BOOLEAN
        /\ command = NoCommand /\ answer = "none"
        /\ pending = <<>> /\ step = "node" /\ value = NoName /\ lines = <<>>
        /\ used = ClockProperties
        /\ changes = 0 /\ ever = {} /\ always = {}

-----------------------------------------------------------------------------
(* The commands                                                               *)

Idle == command = NoCommand
Executing == command # NoCommand /\ answer = "none"

CallFor(path) == [node |-> NodeAndLeaf(path).node, name |-> NodeAndLeaf(path).leaf, depth |-> 0]

\* What a call of traverseProperties shows: itself, unless it is the first one and its
\* path has one part only.
ShowsItself(call) == call.depth # 0 \/ (call.node # <<>> /\ call.name # NoName)

Begin(what, path, v) ==
    /\ command' = [what |-> what, path |-> path]
    /\ pending' = <<CallFor(path)>>
    /\ step' = IF what = "set" \/ ShowsItself(CallFor(path)) THEN "node" ELSE "next"
    /\ value' = v
    /\ ever' = Pairs(tree)
    /\ always' = DOMAIN tree
    /\ changes' = 0
    /\ UNCHANGED <<tree, lenient, lines, answer, used>>

\* getParticipantPropertyNames and getParticipantProperties start at the root.
List(what) == Begin(what, <<>>, NoName)
GetProperty(path) == Begin("get", path, NoName)
SetProperty(path, v) == Begin("set", path, v)

\* The remote calls, in their order: getProperties of the node, getProperty and
\* getPropertyType of the property in it; then getProperties of the property itself and
\* its getPropertyNames.  To set a property, setProperty follows the type.
Current == Head(pending)
Calling(s) == pending # <<>> /\ step = s

FindNode ==
    /\ Calling("node") /\ Found(Current.node)
    /\ step' = IF command.what = "set" THEN "type" ELSE "value"
    /\ UNCHANGED <<tree, lenient, command, pending, value, lines, answer, used, changes, ever,
                   always>>

\* Slip: the value is that of the node the property is in.
ValueOfNode(node, name) == IF node \in DOMAIN tree THEN tree[node] ELSE NoName

\* A property that is not there has no value.
Value(node, name) ==
    IF Append(node, name) \in DOMAIN tree THEN tree[Append(node, name)] ELSE NoName

ReadValue ==
    /\ Calling("value")
    /\ value' = Value(Resolved(Current.node), Current.name)
    /\ step' = "type"
    /\ UNCHANGED <<tree, lenient, command, pending, lines, answer, used, changes, ever, always>>

\* With the type, which is left out here, the property is shown; its value is left out of
\* an answer that lists names.
ReadType ==
    /\ Calling("type")
    /\ IF command.what = "set" THEN step' = "set" /\ UNCHANGED <<value, lines>>
       ELSE /\ lines' = Append(lines, [depth |-> Current.depth, name |-> Current.name,
                               value |-> IF command.what = "names" THEN NoName ELSE value])
            /\ value' = NoName
            /\ step' = "next"
    /\ UNCHANGED <<tree, lenient, command, pending, answer, used, changes, ever, always>>

FindChildren ==
    /\ Calling("next") /\ Found(Joined(Current.node, Current.name))
    /\ step' = "names"
    /\ UNCHANGED <<tree, lenient, command, pending, value, lines, answer, used, changes, ever,
                   always>>

\* The loop calls traverseProperties for every child.
ReadNames ==
    /\ Calling("names")
    /\ LET next == Joined(Current.node, Current.name)
           names == SetToSeq(Children(Resolved(next)))
       IN  pending' = [i \in DOMAIN names |->
                          [node |-> next, name |-> names[i], depth |-> Current.depth + 1]]
                      \o Tail(pending)
    /\ step' = "node"
    /\ UNCHANGED <<tree, lenient, command, value, lines, answer, used, changes, ever, always>>

\* The name of the participant, which has no slash.
Participant == <<"participant">>

\* "append to used props, if not used already": but it is the participant that is
\* looked for.
Used(path) == IF Participant \in ToSet(used) THEN Append(used, path) ELSE used

Answer(a) == answer' = a /\ pending' = <<>> /\ step' = "node" /\ value' = NoName

Shown ==
    /\ Executing /\ pending = <<>>
    /\ Answer("shown")
    /\ used' = IF command.what = "get" THEN Used(command.path) ELSE used
    /\ UNCHANGED <<tree, lenient, command, lines, changes, ever, always>>

\* A node is not found: nothing of what was read is shown, nothing is set.
NotFound ==
    /\ \/ Calling("node") /\ ~Found(Current.node)
       \/ Calling("next") /\ ~Found(Joined(Current.node, Current.name))
    /\ Answer("notfound") /\ lines' = <<>>
    /\ UNCHANGED <<tree, lenient, command, used, changes, ever, always>>

\* A call fails for a reason of its own, with the same consequence.
CallFails ==
    /\ pending # <<>>
    /\ Answer("error") /\ lines' = <<>>
    /\ ever' = {} /\ always' = {}
    /\ UNCHANGED <<tree, lenient, command, used, changes>>

PropertyNamed == Append(Resolved(Current.node), Current.name)

\* Slip: a property that is not there is made.
WriteAnyProperty ==
    /\ Calling("set")
    /\ tree' = [n \in DOMAIN tree \cup {PropertyNamed} |->
                   IF n = PropertyNamed THEN value ELSE tree[n]]
    /\ Answer("set") /\ used' = Used(command.path)
    /\ ever' = {} /\ always' = {}
    /\ UNCHANGED <<lenient, command, lines, changes>>

\* The property is set; or the library refuses the value, or does not have the
\* property (any more), which is answered as if it had been set; or it throws, before or
\* after it was set.
WriteProperty ==
    /\ Calling("set")
    /\ \/ PropertyNamed \in DOMAIN tree /\ tree' = [tree EXCEPT ![PropertyNamed] = value]
       \/ tree' = tree
    /\ \/ Answer("set") /\ used' = Used(command.path)
       \/ Answer("error") /\ used' = used
    /\ ever' = {} /\ always' = {}
    /\ UNCHANGED <<lenient, command, lines, changes>>

\* The user has the answer and the prompt is back.
Prompt ==
    /\ answer # "none"
    /\ command' = NoCommand /\ answer' = "none" /\ lines' = <<>>
    /\ ever' = {} /\ always' = {}
    /\ UNCHANGED <<tree, lenient, pending, step, value, used, changes>>

\* Others set a property; the participant takes one away with all below it, or adds one.
Elsewhere ==
    /\ Idle \/ Executing
    /\ changes < MaxChanges
    /\ changes' = changes + 1
    /\ \/ \E n \in DOMAIN tree : \E v \in Values \ {tree[n]} : tree' = [tree EXCEPT ![n] = v]
       \/ \E n \in DOMAIN tree :
             tree' = [m \in {k \in DOMAIN tree : ~IsPrefix(n, k)} |-> tree[m]]
       \/ \E n \in Nodes \ DOMAIN tree, v \in Values :
             /\ InTree(Front(n)) /\ Cardinality(DOMAIN tree) < MaxNodes
             /\ tree' = [m \in DOMAIN tree \cup {n} |-> IF m = n THEN v ELSE tree[m]]
    /\ ever' = IF Idle THEN ever ELSE ever \cup Pairs(tree')
    /\ always' = IF Idle THEN always ELSE always \cap DOMAIN tree'
    /\ UNCHANGED <<lenient, answerVars, used>>

UserCommand == /\ Idle
               /\ \/ \E what \in {"names", "properties"} : List(what)
                  \/ \E path \in Paths : GetProperty(path)
                  \/ \E path \in Paths, v \in Values : SetProperty(path, v)

Next == \/ UserCommand
        \/ FindNode \/ ReadValue \/ ReadType \/ FindChildren \/ ReadNames \/ WriteProperty
        \/ Shown \/ NotFound \/ CallFails
        \/ Prompt \/ Elsewhere

Spec == Init /\ [][Next]_vars

-----------------------------------------------------------------------------
(* Properties *)

\* What the path of the command names, and whether the answer shows that node itself or
\* only what is below it.
Target == Resolved(command.path)
TargetShown == NodeAndLeaf(command.path).node # <<>> /\ NodeAndLeaf(command.path).leaf # NoName

Wanted(n) == IsPrefix(Target, n) /\ (n = Target => TargetShown)

\* The node a line of the answer stands for: the reader takes it from the names and
\* depths of the lines before.
LineNode(i) ==
    LET base  == IF TargetShown THEN Front(Target) ELSE Target
        first == lines[1].depth
    IN  base \o [k \in 1..(lines[i].depth - first + 1) |->
                    lines[Max({j \in 1..i : lines[j].depth = first + k - 1})].name]

Read == answer = "shown" /\ command.what \in {"names", "properties", "get"}

\* However the properties change meanwhile: an answer shows every property that was
\* there all the time once, at its place in the tree, and nothing beside what was
\* asked for; and a command is refused for a node only if the user typed a slash too
\* many, the property asked for was missing, or one below it went.
NothingIsLeftOut ==
    /\ Read =>
          /\ \A n \in always :
                Wanted(n) => Cardinality({i \in DOMAIN lines : LineNode(i) = n}) = 1
          /\ \A i \in DOMAIN lines : Wanted(LineNode(i))
    /\ answer = "notfound" =>
          \/ ~Clean(command.path)
          \/ Target \notin always \cup {<<>>}
          \/ \E pair \in ever : pair[1] \notin always /\ IsPrefix(Target, pair[1])

\* Every line of an answer was true at some time during the command: the property was
\* there at one time and, unless only names are shown, had the value shown at one time;
\* a property without a value was missing at one time.  (It may be shown with the value of
\* one time and the place of another.)
OnlyTruthIsShown ==
    Read => \A i \in DOMAIN lines :
               LET n == LineNode(i)
               IN  /\ \E v \in Values : <<n, v>> \in ever
                   /\ \/ command.what = "names"
                      \/ <<n, lines[i].value>> \in ever
                      \/ lines[i].value = NoName /\ n \notin always

\* setParticipantProperty changes one property or none: the one that the same path
\* names in getParticipantProperty.
SetChangesThePropertyNamed ==
    [][changes' = changes /\ tree' # tree =>
          /\ command'.what = "set"
          /\ DOMAIN tree' = DOMAIN tree
          /\ \A n \in DOMAIN tree : tree'[n] # tree[n] => n = Resolved(command'.path)]_vars
=============================================================================
