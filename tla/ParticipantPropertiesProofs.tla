--------------------- MODULE ParticipantPropertiesProofs ---------------------
(* Proofs about the commands on the properties of a participant.             *)
EXTENDS ParticipantProperties, SequenceLemmas, TLAPS

-----------------------------------------------------------------------------
(* Paths: what the library resolves, what the code takes apart and joins.     *)

Tokens == Names \cup {"/"}

LEMMA ResolvedOfAppend ==
    ASSUME NEW p \in Seq(Tokens), NEW e \in Tokens
    PROVE  /\ Resolved(p) \in Seq(Names)
           /\ Resolved(Append(p, e)) = IF e = "/" THEN Resolved(p) ELSE Append(Resolved(p), e)
<1> DEFINE Pieces(q) == [i \in DOMAIN q |-> IF q[i] = "/" THEN <<>> ELSE <<q[i]>>]
           piece == IF e = "/" THEN <<>> ELSE <<e>>
<1>1. ASSUME NEW q \in Seq(Tokens) PROVE Pieces(q) \in Seq(Seq(Names))
  <2>1. DOMAIN q = 1..Len(q) /\ Len(q) \in Nat /\ \A i \in 1..Len(q) : q[i] \in Tokens  OBVIOUS
  <2>2. \A i \in 1..Len(q) : (IF q[i] = "/" THEN <<>> ELSE <<q[i]>>) \in Seq(Names)
    BY <2>1 DEF Tokens
  <2> QED  BY <2>1, <2>2
<1>2. piece \in Seq(Names)  BY DEF Tokens
<1>3. Pieces(Append(p, e)) = Append(Pieces(p), piece)
  <2> DEFINE q == Append(p, e)
  <2>1. /\ DOMAIN q = 1..(Len(p) + 1) /\ DOMAIN p = 1..Len(p) /\ Len(p) \in Nat
        /\ q[Len(p) + 1] = e /\ \A i \in 1..Len(p) : q[i] = p[i]
    OBVIOUS
  <2>2. Len(Pieces(p)) = Len(p)  BY <2>1
  <2>3. DOMAIN Append(Pieces(p), piece) = 1..(Len(p) + 1)  BY <1>1, <1>2, <2>2
  <2> QED  BY <1>1, <1>2, <2>1, <2>2, <2>3
<1>4. FlattenSeq(Pieces(p)) \in Seq(Names)  BY <1>1, FlattenType
<1>5. FlattenSeq(Append(Pieces(p), piece)) = FlattenSeq(Pieces(p)) \o piece
  <2>1. Pieces(p) \in Seq(Seq(Names))  BY <1>1
  <2> HIDE DEF piece, Pieces
  <2> QED  BY <1>2, <2>1, FlattenOfAppend
<1>6. Resolved(p) = FlattenSeq(Pieces(p)) /\ Resolved(Append(p, e)) = FlattenSeq(Pieces(Append(p, e)))
  BY DEF Resolved
<1> HIDE DEF Pieces
<1>7. e = "/" => Resolved(p) \o <<>> = Resolved(p)  BY <1>4, <1>6
<1>8. e # "/" => Resolved(p) \o <<e>> = Append(Resolved(p), e)  BY <1>4, <1>6 DEF Tokens
<1> QED  BY <1>3, <1>4, <1>5, <1>6, <1>7, <1>8

LEMMA ResolvedOfEmpty == Resolved(<<>>) = <<>>
<1>1. [i \in DOMAIN <<>> |-> IF <<>>[i] = "/" THEN <<>> ELSE << <<>>[i] >>] = <<>>  OBVIOUS
<1> QED  BY <1>1, FlattenOfEmpty DEF Resolved

LEMMA ResolvedType == ASSUME NEW p \in Seq(Tokens) PROVE Resolved(p) \in Seq(Names)
BY ResolvedOfAppend DEF Tokens

\* next_node is the property under the node.
LEMMA GoalOfJoined ==
    ASSUME NEW node \in Seq(Tokens), NEW name \in Names \cup {NoName}
    PROVE  /\ Joined(node, name) \in Seq(Tokens)
           /\ Resolved(Joined(node, name)) = IF name = NoName THEN Resolved(node)
                                             ELSE Append(Resolved(node), name)
<1>1. CASE name = NoName  BY <1>1 DEF Joined
<1>2. CASE name # NoName
  <2>1. name \in Names /\ name # "/" /\ name \in Tokens /\ "/" \in Tokens
    BY <1>2, NamesAssumption DEF Tokens
  <2>2. Append(node, "/") \in Seq(Tokens)  BY <2>1
  <2>3. node \o <<"/", name>> = Append(Append(node, "/"), name)  BY <2>1
  <2>4. Resolved(Append(node, "/")) = Resolved(node)  BY <2>1, ResolvedOfAppend
  <2>5. Resolved(Append(Append(node, "/"), name)) = Append(Resolved(Append(node, "/")), name)
    BY <2>1, <2>2, ResolvedOfAppend
  <2>6. Resolved(Append(node, name)) = Append(Resolved(node), name)  BY <2>1, ResolvedOfAppend
  <2>7. Append(Append(node, "/"), name) \in Seq(Tokens) /\ Append(node, name) \in Seq(Tokens)
    BY <2>1, <2>2
  <2> QED  BY <1>2, <2>3, <2>4, <2>5, <2>6, <2>7 DEF Joined
<1> QED  BY <1>1, <1>2

\* What getNodeAndLeafNamefromProperty does to a path that has a slash.
LEMMA SplitAtLastSlash ==
    ASSUME NEW p \in Paths, Slashes(p) # {}
    PROVE  /\ Max(Slashes(p)) \in 1..Len(p) /\ p[Max(Slashes(p))] = "/"
           /\ NodeAndLeaf(p).node = SubSeq(p, 1, Max(Slashes(p)) - 1)
           /\ \/ Max(Slashes(p)) = Len(p) /\ NodeAndLeaf(p).leaf = NoName
              \/ /\ Len(p) = Max(Slashes(p)) + 1
                 /\ NodeAndLeaf(p).leaf = p[Len(p)] /\ p[Len(p)] \in Names
<1> DEFINE m == Max(Slashes(p))
<1>1. /\ p \in Seq(Tokens) /\ DOMAIN p = 1..Len(p) /\ Len(p) \in Nat
      /\ \A i \in 1..(Len(p) - 1) : p[i] = "/" \/ p[i + 1] = "/"
  <2>1. p \in Seq(Tokens)  BY BoundsAssumption DEF Paths, BoundedSeq, SeqOf, Tokens
  <2> QED  BY <2>1 DEF Paths
<1>2. m \in Slashes(p) /\ \A k \in Slashes(p) : k <= m
  <2>1. Slashes(p) \in SUBSET Nat /\ \A k \in Slashes(p) : k <= Len(p)  BY <1>1 DEF Slashes
  <2> QED  BY <1>1, <2>1, MaxProperties
<1>3. m \in 1..Len(p) /\ p[m] = "/"  BY <1>1, <1>2 DEF Slashes
<1>4. /\ NodeAndLeaf(p).node = SubSeq(p, 1, m - 1)
      /\ NodeAndLeaf(p).leaf = IF m < Len(p) THEN p[Len(p)] ELSE NoName
  BY DEF NodeAndLeaf, Last
<1> HIDE DEF m
<1>5. m \in Int /\ Len(p) \in Int /\ m <= Len(p)  BY <1>1, <1>3
<1>6. CASE m < Len(p)
  <2>1. \A i \in 1..Len(p) : i > m => p[i] # "/"  BY <1>1, <1>2, <1>3 DEF Slashes
  <2>2. ~(m + 1 < Len(p))
    <3> SUFFICES ASSUME m + 1 < Len(p) PROVE FALSE  OBVIOUS
    <3>1. m + 1 \in 1..(Len(p) - 1) /\ m + 1 > m /\ m + 2 > m /\ m + 2 \in 1..Len(p)
          /\ m + 1 \in 1..Len(p) /\ (m + 1) + 1 = m + 2
      BY <1>1, <1>3
    <3>2. p[m + 1] # "/" /\ p[m + 2] # "/"  BY <2>1, <3>1
    <3>3. p[m + 1] = "/" \/ p[(m + 1) + 1] = "/"  BY <1>1, <3>1
    <3> QED  BY <3>1, <3>2, <3>3
  <2>3. Len(p) = m + 1  BY <1>5, <1>6, <2>2
  <2>4. p[Len(p)] # "/" /\ p[Len(p)] \in Tokens  BY <1>1, <1>3, <1>6, <2>1
  <2>5. p[Len(p)] \in Names  BY <2>4 DEF Tokens
  <2> QED  BY <1>3, <1>4, <1>6, <2>3, <2>5 DEF m
<1>7. CASE m = Len(p)
  <2>1. ~(m < Len(p))  BY <1>1, <1>7
  <2> QED  BY <1>3, <1>4, <1>7, <2>1 DEF m
<1>8. m < Len(p) \/ m = Len(p)  BY <1>5
<1> QED  BY <1>6, <1>7, <1>8

LEMMA GoalOfSplit ==
    ASSUME NEW p \in Paths
    PROVE  /\ p \in Seq(Tokens)
           /\ NodeAndLeaf(p).node \in Seq(Tokens) /\ NodeAndLeaf(p).leaf \in Names \cup {NoName}
           /\ Resolved(p) = IF NodeAndLeaf(p).leaf = NoName THEN Resolved(NodeAndLeaf(p).node)
                            ELSE Append(Resolved(NodeAndLeaf(p).node), NodeAndLeaf(p).leaf)
<1>1. p \in Seq(Tokens)  BY BoundsAssumption DEF Paths, BoundedSeq, SeqOf, Tokens
<1>2. CASE Slashes(p) = {}  BY <1>1, <1>2 DEF NodeAndLeaf
<1>3. CASE Slashes(p) # {}
  <2> DEFINE m == Max(Slashes(p))
             q == SubSeq(p, 1, m - 1)
             r == SubSeq(p, 1, m)
  <2>1. /\ m \in 1..Len(p) /\ p[m] = "/" /\ NodeAndLeaf(p).node = q
        /\ \/ m = Len(p) /\ NodeAndLeaf(p).leaf = NoName
           \/ Len(p) = m + 1 /\ NodeAndLeaf(p).leaf = p[Len(p)] /\ p[Len(p)] \in Names
    BY <1>3, SplitAtLastSlash
  <2> HIDE DEF m
  <2>2. q \in Seq(Tokens) /\ r \in Seq(Tokens)  BY <1>1, <2>1
  <2>3. r = Append(q, "/")  BY <1>1, <2>1
  <2>4. Resolved(r) = Resolved(q)  BY <2>2, <2>3, ResolvedOfAppend DEF Tokens
  <2>5. CASE m = Len(p) /\ NodeAndLeaf(p).leaf = NoName
    <3>1. p = r  BY <1>1, <2>5
    <3> QED  BY <1>1, <2>1, <2>2, <2>4, <2>5, <3>1
  <2>6. CASE Len(p) = m + 1 /\ NodeAndLeaf(p).leaf = p[Len(p)] /\ p[Len(p)] \in Names
    <3> DEFINE e == p[Len(p)]
    <3>1. p = Append(r, e)  BY <1>1, <2>1, <2>6
    <3>2. e \in Tokens /\ e # "/" /\ e # NoName  BY <2>6, NamesAssumption DEF Tokens, NoName
    <3> HIDE DEF e
    <3>3. Resolved(p) = Append(Resolved(r), e)
      BY <2>2, <3>1, <3>2, ResolvedOfAppend
    <3> QED  BY <1>1, <2>1, <2>2, <2>4, <2>6, <3>2, <3>3 DEF e
  <2> QED  BY <2>1, <2>5, <2>6
<1> QED  BY <1>2, <1>3

\* A path without a slash too many has none in its node either, and is put together
\* again as it was.
LEMMA CleanSplit ==
    ASSUME NEW p \in Paths, Clean(p)
    PROVE  /\ Clean(NodeAndLeaf(p).node)
           /\ Clean(Joined(NodeAndLeaf(p).node, NodeAndLeaf(p).leaf))
<1>1. CASE Slashes(p) = {}  BY <1>1 DEF NodeAndLeaf, Joined
<1>2. CASE Slashes(p) # {}
  <2> DEFINE m == Max(Slashes(p))
             q == SubSeq(p, 1, m - 1)
             e == p[Len(p)]
  <2>1. p \in Seq(Tokens)  BY GoalOfSplit
  <2>2. /\ m \in 1..Len(p) /\ p[m] = "/" /\ NodeAndLeaf(p).node = q
        /\ \/ m = Len(p) /\ NodeAndLeaf(p).leaf = NoName
           \/ Len(p) = m + 1 /\ NodeAndLeaf(p).leaf = e /\ e \in Names
    BY <1>2, SplitAtLastSlash
  <2> HIDE DEF m
  <2>3. \A i \in 1..Len(p) : (p[i] = "/" <=> i % 2 = 0) /\ (p[i] = "/" => i < Len(p))
    BY <2>1 DEF Clean
  <2>4. Len(p) \in Nat /\ m < Len(p) /\ m % 2 = 0  BY <2>1, <2>2, <2>3
  <2>5. Len(p) = m + 1 /\ NodeAndLeaf(p).leaf = e /\ e \in Names  BY <2>2, <2>4
  <2>6. m - 1 \in 1..Len(p) /\ (m - 1) % 2 # 0  BY <2>2, <2>4
  <2>7. p[m - 1] # "/"  BY <2>3, <2>6
  <2>8. q \in Seq(Tokens) /\ Len(q) = m - 1 /\ \A i \in 1..(m - 1) : q[i] = p[i]
    BY <2>1, <2>2
  <2>9. Clean(q)
    <3>1. DOMAIN q = 1..(m - 1)  BY <2>8
    <3>2. ASSUME NEW i \in 1..(m - 1)
          PROVE  (q[i] = "/" <=> i % 2 = 0) /\ (q[i] = "/" => i < Len(q))
      <4>1. i \in 1..Len(p) /\ q[i] = p[i]  BY <2>2, <2>8
      <4>2. q[i] = "/" <=> i % 2 = 0  BY <2>3, <4>1
      <4>3. q[i] = "/" => i # m - 1  BY <2>7, <4>1
      <4>4. i # m - 1 => i < m - 1  BY <2>4, <2>2
      <4> QED  BY <2>8, <4>2, <4>3, <4>4
    <3> QED  BY <3>1, <3>2 DEF Clean
  <2>10. q # <<>> /\ Last(q) # "/"  BY <2>6, <2>7, <2>8 DEF Last
  <2>11. q \o <<"/", e>> = p  BY <2>1, <2>2, <2>5
  <2>12. e # NoName  BY <2>5, NamesAssumption DEF NoName
  <2>13. Joined(q, e) = p
    <3> HIDE DEF q, e
    <3> QED  BY <2>10, <2>11, <2>12 DEF Joined
  <2> QED  BY <2>2, <2>5, <2>9, <2>13
<1> QED  BY <1>1, <1>2

LEMMA CleanJoined ==
    ASSUME NEW node \in Seq(Tokens), NEW name \in Names, Clean(node)
    PROVE  Clean(Joined(node, name))
<1>1. /\ DOMAIN node = 1..Len(node) /\ Len(node) \in Nat /\ name # "/" /\ name # NoName
      /\ \A i \in 1..Len(node) : (node[i] = "/" <=> i % 2 = 0) /\ (node[i] = "/" => i < Len(node))
  <2>1. DOMAIN node = 1..Len(node) /\ Len(node) \in Nat  OBVIOUS
  <2>2. name # "/" /\ name # NoName  BY NamesAssumption DEF NoName
  <2> QED  BY <2>1, <2>2 DEF Clean
<1>2. CASE node = <<>>
  <2>1. Joined(node, name) = <<name>>  BY <1>1, <1>2 DEF Joined
  <2>2. 1 % 2 # 0  OBVIOUS
  <2> QED  BY <1>1, <2>1, <2>2 DEF Clean
<1>3. CASE node # <<>>
  <2> DEFINE n == Len(node)
             p == node \o <<"/", name>>
  <2>1. n \in 1..Len(node)  BY <1>3
  <2>2. node[n] # "/" /\ n % 2 # 0  BY <1>1, <2>1
  <2>3. Joined(node, name) = p  BY <1>1, <1>3, <2>2 DEF Joined, Last
  <2>4. /\ DOMAIN p = 1..(n + 2) /\ Len(p) = n + 2 /\ p[n + 1] = "/" /\ p[n + 2] = name
        /\ \A i \in 1..n : p[i] = node[i]
    BY <1>1
  <2> HIDE DEF p
  <2>5. (n + 1) % 2 = 0 /\ (n + 2) % 2 # 0  BY <1>1, <2>2
  <2>6. ASSUME NEW i \in 1..(n + 2)
        PROVE  (p[i] = "/" <=> i % 2 = 0) /\ (p[i] = "/" => i < n + 2)
    <3>1. CASE i \in 1..n
      <4>1. p[i] = node[i] /\ i < n + 2  BY <2>4, <3>1, <1>1
      <4>2. node[i] = "/" <=> i % 2 = 0  BY <1>1, <3>1
      <4> QED  BY <4>1, <4>2
    <3>2. CASE i = n + 1  BY <1>1, <2>4, <2>5, <3>2
    <3>3. CASE i = n + 2  BY <1>1, <2>4, <2>5, <3>3
    <3> QED  BY <1>1, <3>1, <3>2, <3>3
  <2> QED  BY <2>3, <2>4, <2>6 DEF Clean
<1> QED  BY <1>2, <1>3

-----------------------------------------------------------------------------
(* Trees                                                                      *)

LEMMA TreeFacts ==
    ASSUME tree \in Trees
    PROVE  /\ tree \in [DOMAIN tree -> Values]
           /\ DOMAIN tree \subseteq Nodes /\ IsTree(DOMAIN tree)
           /\ IsFiniteSet(DOMAIN tree) /\ Cardinality(DOMAIN tree) \in 0..MaxNodes
<1>1. PICK nodes \in {s \in UNION {kSubset(k, Nodes) : k \in 0..MaxNodes} : IsTree(s)} :
         tree \in [nodes -> Values]
  BY DEF Trees
<1>2. DOMAIN tree = nodes  BY <1>1
<1>3. PICK k \in 0..MaxNodes : nodes \in kSubset(k, Nodes)  BY <1>1
<1>4. nodes \subseteq Nodes /\ Cardinality(nodes) = k  BY <1>3 DEF kSubset
<1> QED  BY <1>1, <1>2, <1>4 DEF IsTree

LEMMA IsTreeWithValues ==
    ASSUME NEW nodes \in SUBSET Nodes, NEW t \in [nodes -> Values], IsTree(nodes),
           Cardinality(nodes) <= MaxNodes
    PROVE  t \in Trees
<1>1. Cardinality(nodes) \in 0..MaxNodes  BY FS_CardinalityType, BoundsAssumption DEF IsTree
<1>2. nodes \in kSubset(Cardinality(nodes), Nodes)  BY DEF kSubset
<1> QED  BY <1>1, <1>2 DEF Trees

LEMMA NodeFacts ==
    ASSUME NEW n \in Nodes
    PROVE  n \in Seq(Names) /\ n # <<>> /\ Len(n) \in 1..MaxDepth
BY BoundsAssumption DEF Nodes, BoundedSeq, SeqOf

\* Whatever is above a node of a tree is in it.
LEMMA AboveInTree ==
    ASSUME NEW nodes \in SUBSET Nodes, IsTree(nodes), NEW n \in nodes,
           NEW s \in Seq(Names), s # <<>>, IsPrefix(s, n)
    PROVE  s \in nodes
<1> DEFINE Cut(k) == SubSeq(n, 1, Len(n) - k)
           A == {k \in Nat : k < Len(n) => Cut(k) \in nodes}
<1>1. n \in Seq(Names) /\ Len(n) \in Nat  BY NodeFacts
<1>2. 0 \in A
  <2>1. Len(n) - 0 = Len(n) /\ SubSeq(n, 1, Len(n)) = n  BY <1>1
  <2> QED  BY <2>1
<1>3. ASSUME NEW k \in Nat, k \in A PROVE k + 1 \in A
  <2> SUFFICES ASSUME k + 1 < Len(n) PROVE Cut(k + 1) \in nodes  OBVIOUS
  <2> DEFINE c == Cut(k)
  <2>1. c \in nodes /\ c \in Seq(Names) /\ Len(c) = Len(n) - k /\ Len(c) > 1  BY <1>1, <1>3
  <2>2. SubSeq(c, 1, Len(c) - 1) = Cut(k + 1)  BY <1>1, <2>1
  <2> HIDE DEF c
  <2>3. Front(c) \in nodes  BY <2>1 DEF IsTree
  <2> QED  BY <2>2, <2>3 DEF Front
<1>4. \A k \in Nat : k \in A
  <2> HIDE DEF A
  <2> QED  BY <1>2, <1>3, Induction
<1>5. Len(s) \in Nat /\ Len(s) > 0 /\ Len(s) <= Len(n) /\ \A i \in 1..Len(s) : s[i] = n[i]
  BY <1>1, PrefixElements
<1>6. Len(n) - Len(s) \in A /\ Len(n) - Len(s) < Len(n) /\ Len(n) - (Len(n) - Len(s)) = Len(s)
  BY <1>1, <1>4, <1>5
<1>7. SubSeq(n, 1, Len(s)) \in nodes  BY <1>6
<1>8. SubSeq(n, 1, Len(s)) = s  BY <1>1, <1>5
<1> QED  BY <1>7, <1>8

\* The loop of traverseProperties: every child has its turn, once.
LEMMA ChildrenInOrder ==
    ASSUME tree \in Trees, NEW n \in Seq(Names)
    PROVE  LET names == SetToSeq(Children(n))
           IN  /\ names \in Seq(Names)
               /\ \A i \in 1..Len(names) : Append(n, names[i]) \in DOMAIN tree
               /\ \A i, j \in 1..Len(names) : names[i] = names[j] => i = j
               /\ \A m \in Names : Append(n, m) \in DOMAIN tree =>
                     \E i \in 1..Len(names) : names[i] = m
<1> DEFINE C == Children(n)
           f == [m \in C |-> Append(n, m)]
           names == SetToSeq(C)
<1>1. IsFiniteSet(C)
  <2>1. f \in Injection(C, DOMAIN tree)
    <3>1. \A m \in C : Append(n, m) \in DOMAIN tree /\ m \in Names  BY DEF Children
    <3>2. \A m, k \in Names : Append(n, m) = Append(n, k) => m = k  OBVIOUS
    <3> QED  BY <3>1, <3>2 DEF Injection, IsInjective
  <2>2. IsFiniteSet(DOMAIN tree)  BY TreeFacts
  <2> HIDE DEF C, f
  <2> QED  BY <2>1, <2>2, FS_Injection
<1>2. /\ names \in Seq(C)
      /\ \A i, j \in 1..Len(names) : names[i] = names[j] => i = j
      /\ \A m \in C : \E i \in 1..Len(names) : names[i] = m
  <2> HIDE DEF C
  <2> QED  BY <1>1, SetToSeqProperties
<1>3. \A m \in Names : m \in C <=> Append(n, m) \in DOMAIN tree  BY DEF Children
<1>4. C \subseteq Names  BY DEF Children
<1> HIDE DEF C, names
<1>5. \A i \in 1..Len(names) : names[i] \in C  BY <1>2
<1>6. names \in Seq(Names)  BY <1>2, <1>4
<1> QED  BY <1>2, <1>3, <1>4, <1>5, <1>6 DEF C, names

-----------------------------------------------------------------------------
(* The inductive invariant                                                    *)

\* Where the lines of the answer hang, and how deep the first one is.
Base == IF TargetShown THEN Front(Target) ELSE Target
FirstDepth == IF TargetShown THEN 0 ELSE 1

\* The last of the first i lines that is this deep.
LastAt(ls, i, depth) == Max({j \in 1..i : ls[j].depth = depth})

\* The node at depth d on the way to what line i of ls shows: the last line of every
\* depth above.
PathOf(ls, base, first, i, d) ==
    base \o [k \in 1..(d - first) |-> ls[LastAt(ls, i, first + k - 1)].name]

\* Each of these depths has a line.
Reached(ls, first, i, d) == \A e \in first..(d - 1) : \E j \in 1..i : ls[j].depth = e

PathAt(i, d) == PathOf(lines, Base, FirstDepth, i, d)

\* The node a call is for.
Goal(call) == Resolved(Joined(call.node, call.name))

FirstCall == [node |-> NodeAndLeaf(command.path).node, name |-> NodeAndLeaf(command.path).leaf,
              depth |-> 0]

Phases == /\ Idle => answer = "none" /\ pending = <<>> /\ lines = <<>> /\ ever = {} /\ always = {}
          /\ answer # "none" => ~Idle /\ pending = <<>>
          /\ answer \notin {"none", "shown"} => lines = <<>>
          /\ Executing => Pairs(tree) \subseteq ever /\ always \subseteq DOMAIN tree
          /\ used = ClockProperties

\* The first of the calls to come has shown its line, and goes on to its children; until
\* it has found its own node again, the line may be of one that is not there.
LineShown == /\ pending # <<>> /\ command.what # "set"
             /\ step \in {"next", "names"} /\ ShowsItself(Head(pending))
Unconfirmed(i) == LineShown /\ step = "next" /\ i = Len(lines)

\* The values that may be shown for a node.
ValueTrue(n, v) == <<n, v>> \in ever \/ (v = NoName /\ n \notin always)

\* A call still to come is for a node below what was asked for.  The calls come from the
\* node that the lines shown last lead to, and from those above it.
CallPlaced(call) ==
    /\ IF call.depth = 0
       THEN call = FirstCall /\ Len(pending) = 1 /\ (lines = <<>> \/ LineShown)
       ELSE call.name \in Names /\ \E v \in Values : <<Goal(call), v>> \in ever
    /\ lines = <<>> => call.depth <= FirstDepth
    /\ call.depth >= FirstDepth =>
          /\ Reached(lines, FirstDepth, Len(lines), call.depth)
          /\ Resolved(call.node) = PathAt(Len(lines), call.depth)
    /\ IsPrefix(Target, Goal(call)) /\ Len(Goal(call)) = Len(Target) + call.depth
    /\ Clean(command.path) => Clean(call.node) /\ Clean(Joined(call.node, call.name))

PendingPlaced == /\ \A k \in DOMAIN pending : CallPlaced(pending[k])
                 /\ \A k, l \in DOMAIN pending : k < l => pending[k].depth >= pending[l].depth

\* How far the first of them is.
HeadOK == pending # <<>> =>
    /\ command.what = "set" => /\ step \in {"node", "type", "set"} /\ value \in Values
                               /\ pending = <<FirstCall>> /\ lines = <<>>
    /\ command.what # "set" =>
          /\ step \in {"node", "value", "type", "next", "names"}
          /\ step \in {"node", "value", "type"} => ShowsItself(Head(pending))
          /\ step = "type" => ValueTrue(Goal(Head(pending)), value)
    /\ LineShown => /\ lines # <<>> /\ lines[Len(lines)].depth = Head(pending).depth
                    /\ Reached(lines, FirstDepth, Len(lines), Head(pending).depth + 1)
                    /\ PathAt(Len(lines), Head(pending).depth + 1) = Goal(Head(pending))

LinePlaced(i) == /\ lines[i].depth >= FirstDepth
                 /\ Reached(lines, FirstDepth, i, lines[i].depth + 1)

LineTrue(i) == /\ Wanted(PathAt(i, lines[i].depth + 1))
               /\ Unconfirmed(i) \/ \E v \in Values : <<PathAt(i, lines[i].depth + 1), v>> \in ever
               /\ command.what = "names" \/ ValueTrue(PathAt(i, lines[i].depth + 1), lines[i].value)

LinesPlaced == /\ lines # <<>> => lines[1].depth = FirstDepth
               /\ \A i \in DOMAIN lines : LinePlaced(i) /\ LineTrue(i)

\* A node that was there all the time is either shown, or there is one call that will
\* come to it.
ShownAt(i, n) == PathAt(i, lines[i].depth + 1) = n
LeadsTo(k, n) == /\ IsPrefix(Goal(pending[k]), n)
                 /\ ~(k = 1 /\ LineShown /\ n = Goal(pending[k]))

ShownOnce(n) == /\ \E i \in DOMAIN lines : \A j \in DOMAIN lines : ShownAt(j, n) <=> j = i
                /\ \A k \in DOMAIN pending : ~LeadsTo(k, n)
ToBeShown(n) == /\ \A i \in DOMAIN lines : ~ShownAt(i, n)
                /\ \E k \in DOMAIN pending : \A l \in DOMAIN pending : LeadsTo(l, n) <=> l = k

Once == answer \in {"none", "shown"} =>
           \A n \in always : Wanted(n) => ShownOnce(n) \/ ToBeShown(n)

\* The second part of NothingIsLeftOut.
RefusedWithReason ==
    answer = "notfound" =>
        \/ ~Clean(command.path)
        \/ Target \notin always \cup {<<>>}
        \/ \E pair \in ever : pair[1] \notin always /\ IsPrefix(Target, pair[1])

IInv == /\ TypeOK /\ Phases /\ PendingPlaced /\ HeadOK /\ LinesPlaced /\ Once
        /\ RefusedWithReason

-----------------------------------------------------------------------------
(* Lines and the nodes they stand for                                         *)

LEMMA LastAtFacts ==
    ASSUME NEW ls \in Seq(Lines), NEW i \in 0..Len(ls), NEW e,
           \E j \in 1..i : ls[j].depth = e
    PROVE  LastAt(ls, i, e) \in 1..i /\ ls[LastAt(ls, i, e)].depth = e
<1> DEFINE T == {j \in 1..i : ls[j].depth = e}
<1>1. T \in SUBSET Nat /\ T # {} /\ i \in Nat /\ \A j \in T : j <= i  OBVIOUS
<1>2. Max(T) \in T
  <2> HIDE DEF T
  <2> QED  BY <1>1, MaxProperties
<1> QED  BY <1>2 DEF LastAt

\* A line more changes nothing for those before it.
LEMMA LastAtOfMore ==
    ASSUME NEW ls \in Seq(Lines), NEW line \in Lines, NEW i \in 0..Len(ls), NEW e
    PROVE  /\ LastAt(Append(ls, line), i, e) = LastAt(ls, i, e)
           /\ line.depth # e => LastAt(Append(ls, line), Len(ls) + 1, e) = LastAt(ls, Len(ls), e)
           /\ line.depth = e => LastAt(Append(ls, line), Len(ls) + 1, e) = Len(ls) + 1
<1> DEFINE n == Len(ls)
           more == Append(ls, line)
<1>1. /\ n \in Nat /\ more[n + 1] = line /\ \A j \in 1..n : more[j] = ls[j]
      /\ i \in 0..n
  OBVIOUS
<1> HIDE DEF n, more
<1>2. {j \in 1..i : more[j].depth = e} = {j \in 1..i : ls[j].depth = e}  BY <1>1
<1>3. line.depth # e => {j \in 1..(n + 1) : more[j].depth = e} = {j \in 1..n : ls[j].depth = e}
  BY <1>1
<1>4. ASSUME line.depth = e PROVE Max({j \in 1..(n + 1) : more[j].depth = e}) = n + 1
  <2> DEFINE T == {j \in 1..(n + 1) : more[j].depth = e}
  <2>1. T \in SUBSET Nat /\ n + 1 \in T /\ \A j \in T : j <= n + 1  BY <1>1, <1>4
  <2> HIDE DEF T
  <2> QED  BY <2>1, MaxIs DEF T
<1> QED  BY <1>2, <1>3, <1>4 DEF LastAt, n, more

LEMMA StepsType ==
    ASSUME NEW ls \in Seq(Lines), NEW first \in Nat,
           NEW i \in 0..Len(ls), NEW d \in Nat, Reached(ls, first, i, d)
    PROVE  [k \in 1..(d - first) |-> ls[LastAt(ls, i, first + k - 1)].name] \in Seq(Names)
<1>1. ASSUME NEW k \in 1..(d - first) PROVE ls[LastAt(ls, i, first + k - 1)].name \in Names
  <2> DEFINE e == first + k - 1
  <2>1. e \in first..(d - 1)  OBVIOUS
  <2>2. \E j \in 1..i : ls[j].depth = e  BY <2>1 DEF Reached
  <2> HIDE DEF e
  <2>3. LastAt(ls, i, e) \in 1..i  BY <2>2, LastAtFacts
  <2>4. LastAt(ls, i, e) \in 1..Len(ls)  BY <2>3
  <2>5. ls[LastAt(ls, i, e)] \in Lines  BY <2>4
  <2> QED  BY <2>5 DEF Lines, e
<1>2. CASE d - first \in Nat
  <2>1. [k \in 1..(d - first) |-> ls[LastAt(ls, i, first + k - 1)].name] \in Seq(Names)
    BY <1>1, <1>2
  <2> QED  BY <2>1
<1>3. CASE d - first \notin Nat
  <2>1. 1..(d - first) = {}  BY <1>3
  <2> QED  BY <2>1
<1> QED  BY <1>2, <1>3

LEMMA PathType ==
    ASSUME NEW ls \in Seq(Lines), NEW base \in Seq(Names), NEW first \in Nat,
           NEW i \in 0..Len(ls), NEW d \in Nat, Reached(ls, first, i, d)
    PROVE  PathOf(ls, base, first, i, d) \in Seq(Names)
<1> DEFINE steps == [k \in 1..(d - first) |-> ls[LastAt(ls, i, first + k - 1)].name]
<1>1. steps \in Seq(Names)  BY StepsType
<1>2. base \o steps \in Seq(Names)
  <2> HIDE DEF steps
  <2> QED  BY <1>1
<1> QED  BY <1>2 DEF PathOf

LEMMA PathOfMore ==
    ASSUME NEW ls \in Seq(Lines), NEW line \in Lines, NEW base, NEW first \in Nat,
           NEW i \in 0..Len(ls), NEW d \in Nat, Reached(ls, first, i, d)
    PROVE  /\ Reached(Append(ls, line), first, i, d)
           /\ PathOf(Append(ls, line), base, first, i, d) = PathOf(ls, base, first, i, d)
<1> DEFINE more == Append(ls, line)
<1>1. i \in Nat /\ \A j \in 1..i : more[j] = ls[j]  OBVIOUS
<1>2. Reached(more, first, i, d)
  <2> HIDE DEF more
  <2> QED  BY <1>1 DEF Reached
<1>3. ASSUME NEW k \in 1..(d - first)
      PROVE  more[LastAt(more, i, first + k - 1)] = ls[LastAt(ls, i, first + k - 1)]
  <2> DEFINE e == first + k - 1
  <2>1. e \in first..(d - 1)  OBVIOUS
  <2>2. \E j \in 1..i : ls[j].depth = e  BY <2>1 DEF Reached
  <2> HIDE DEF e
  <2>3. LastAt(ls, i, e) \in 1..i  BY <2>2, LastAtFacts
  <2>4. LastAt(more, i, e) = LastAt(ls, i, e)  BY LastAtOfMore
  <2> QED  BY <1>1, <2>3, <2>4 DEF e
<1> HIDE DEF more
<1>4. [k \in 1..(d - first) |-> more[LastAt(more, i, first + k - 1)].name]
      = [k \in 1..(d - first) |-> ls[LastAt(ls, i, first + k - 1)].name]
  BY <1>3
<1> QED  BY <1>2, <1>4 DEF PathOf, more

\* Nor for the depths above its own.
LEMMA PathBesideLine ==
    ASSUME NEW ls \in Seq(Lines), NEW line \in Lines, NEW base, NEW first \in Nat,
           NEW d \in Nat, d <= line.depth, Reached(ls, first, Len(ls), d)
    PROVE  /\ Reached(Append(ls, line), first, Len(ls) + 1, d)
           /\ PathOf(Append(ls, line), base, first, Len(ls) + 1, d)
              = PathOf(ls, base, first, Len(ls), d)
<1> DEFINE more == Append(ls, line)
           n == Len(ls)
<1>1. n \in Nat /\ n \in 0..Len(ls) /\ \A j \in 1..n : more[j] = ls[j]  OBVIOUS
<1>2. line.depth \in Nat  BY DEF Lines
<1>3. Reached(more, first, n + 1, d)
  <2> HIDE DEF more, n
  <2>1. \A j \in 1..n : j \in 1..(n + 1)  BY <1>1
  <2> QED  BY <1>1, <2>1 DEF Reached, n
<1>4. ASSUME NEW k \in 1..(d - first)
      PROVE  more[LastAt(more, n + 1, first + k - 1)] = ls[LastAt(ls, n, first + k - 1)]
  <2> DEFINE e == first + k - 1
  <2>1. e \in first..(d - 1) /\ line.depth # e  BY <1>2
  <2>2. \E j \in 1..n : ls[j].depth = e  BY <2>1 DEF Reached
  <2> HIDE DEF e
  <2>3. LastAt(ls, n, e) \in 1..n  BY <1>1, <2>2, LastAtFacts
  <2>4. LastAt(more, n + 1, e) = LastAt(ls, n, e)  BY <1>1, <2>1, LastAtOfMore
  <2> QED  BY <1>1, <2>3, <2>4 DEF e
<1> HIDE DEF more, n
<1>5. [k \in 1..(d - first) |-> more[LastAt(more, n + 1, first + k - 1)].name]
      = [k \in 1..(d - first) |-> ls[LastAt(ls, n, first + k - 1)].name]
  BY <1>4
<1> QED  BY <1>3, <1>5 DEF PathOf, more, n

\* A line is one step further.
LEMMA PathToLine ==
    ASSUME NEW ls \in Seq(Lines), NEW line \in Lines, NEW base \in Seq(Names), NEW first \in Nat,
           line.depth >= first, Reached(ls, first, Len(ls), line.depth)
    PROVE  /\ Reached(Append(ls, line), first, Len(ls) + 1, line.depth + 1)
           /\ PathOf(Append(ls, line), base, first, Len(ls) + 1, line.depth + 1)
              = Append(PathOf(ls, base, first, Len(ls), line.depth), line.name)
<1> DEFINE more == Append(ls, line)
           n == Len(ls)
           d == line.depth
<1>1. n \in Nat /\ n \in 0..Len(ls) /\ more[n + 1] = line /\ \A j \in 1..n : more[j] = ls[j]
  OBVIOUS
<1>2. d \in Nat /\ d - first \in Nat /\ line.name \in Names  BY DEF Lines
<1>3. /\ Reached(more, first, n + 1, d)
      /\ PathOf(more, base, first, n + 1, d) = PathOf(ls, base, first, n, d)
  BY <1>2, PathBesideLine
<1>4. Reached(more, first, n + 1, d + 1)
  <2> HIDE DEF more, n
  <2>1. ASSUME NEW e \in first..((d + 1) - 1) PROVE \E j \in 1..(n + 1) : more[j].depth = e
    <3>1. CASE e = d  BY <1>1, <3>1
    <3>2. CASE e # d
      <4>1. e \in first..(d - 1)  BY <1>2, <3>2
      <4> QED  BY <1>3, <4>1 DEF Reached
    <3> QED  BY <3>1, <3>2
  <2> QED  BY <2>1 DEF Reached
<1>5. PathOf(ls, base, first, n, d) \in Seq(Names)  BY <1>1, <1>2, PathType
<1>6. PathOf(more, base, first, n + 1, d + 1)
      = Append(PathOf(more, base, first, n + 1, d), line.name)
  <2> DEFINE f == [k \in 1..(d - first) |-> more[LastAt(more, n + 1, first + k - 1)].name]
             g == [k \in 1..((d + 1) - first) |-> more[LastAt(more, n + 1, first + k - 1)].name]
  <2>1. LastAt(more, n + 1, d) = n + 1  BY <1>1, LastAtOfMore
  <2>2. first + ((d - first) + 1) - 1 = d /\ (d + 1) - first = (d - first) + 1  BY <1>2
  <2>3. more[LastAt(more, n + 1, first + ((d - first) + 1) - 1)].name = line.name
    BY <1>1, <2>1, <2>2
  <2> HIDE DEF more, n, d
  <2>4. f \in Seq(Names)
    <3>1. more \in Seq(Lines) /\ n + 1 \in 0..Len(more)  BY DEF more, n
    <3> QED  BY <1>2, <1>3, <3>1, StepsType
  <2>5. g = Append(f, line.name)  BY <1>2, <2>2, <2>3, <2>4
  <2>6. base \o Append(f, line.name) = Append(base \o f, line.name)
    <3> HIDE DEF f
    <3> QED  BY <1>2, <2>4
  <2> QED  BY <2>5, <2>6 DEF PathOf
<1> QED  BY <1>3, <1>4, <1>6

-----------------------------------------------------------------------------
(* The command being executed                                                 *)

LEMMA SplitOfPath ==
    ASSUME NEW p \in Paths
    PROVE  LET split == NodeAndLeaf(p)
               shown == split.node # <<>> /\ split.leaf # NoName
           IN  /\ Resolved(p) \in Seq(Names)
               /\ Resolved(Joined(split.node, split.leaf)) = Resolved(p)
               /\ shown => /\ split.leaf \in Names
                           /\ Resolved(p) = Append(Resolved(split.node), split.leaf)
                           /\ Front(Resolved(p)) = Resolved(split.node)
<1> DEFINE node == NodeAndLeaf(p).node
           leaf == NodeAndLeaf(p).leaf
<1>1. /\ p \in Seq(Tokens) /\ node \in Seq(Tokens) /\ leaf \in Names \cup {NoName}
      /\ Resolved(p) = IF leaf = NoName THEN Resolved(node) ELSE Append(Resolved(node), leaf)
  BY GoalOfSplit
<1> HIDE DEF node, leaf
<1>2. Resolved(p) \in Seq(Names) /\ Resolved(node) \in Seq(Names)  BY <1>1, ResolvedType
<1>3. Resolved(Joined(node, leaf)) = Resolved(p)  BY <1>1, GoalOfJoined
<1>4. ASSUME leaf # NoName PROVE Front(Resolved(p)) = Resolved(node)
  <2>1. leaf \in Names  BY <1>1, <1>4
  <2>2. \A s \in Seq(Names) : SubSeq(Append(s, leaf), 1, Len(Append(s, leaf)) - 1) = s
    BY <2>1
  <2> QED  BY <1>1, <1>2, <1>4, <2>2 DEF Front
<1> QED  BY <1>1, <1>2, <1>3, <1>4 DEF node, leaf

LEMMA TargetFacts ==
    ASSUME command.path \in Paths
    PROVE  /\ Target \in Seq(Names) /\ Base \in Seq(Names)
           /\ FirstDepth \in {0, 1} /\ (FirstDepth = 0 <=> TargetShown)
           /\ Goal(FirstCall) = Target
           /\ ~TargetShown => Base = Target
           /\ TargetShown => Base = Resolved(FirstCall.node) /\ FirstCall.name \in Names
<1>1. Resolved(NodeAndLeaf(command.path).node) \in Seq(Names)  BY GoalOfSplit, ResolvedType
<1> QED  BY <1>1, SplitOfPath DEF Target, TargetShown, Base, FirstDepth, Goal, FirstCall

\* As long as a command is executed, what it asks for is the same.
LEMMA SameCommand ==
    ASSUME command' = command
    PROVE  /\ Target' = Target /\ Base' = Base /\ FirstDepth' = FirstDepth
           /\ (TargetShown <=> TargetShown') /\ FirstCall' = FirstCall
           /\ \A n : Wanted(n) <=> Wanted(n)'
           /\ lines' = lines => \A i, d : PathAt(i, d)' = PathAt(i, d)
<1>1. Target' = Target /\ (TargetShown <=> TargetShown') /\ FirstCall' = FirstCall
  BY DEF Target, TargetShown, FirstCall
<1>2. Base' = Base /\ FirstDepth' = FirstDepth  BY <1>1 DEF Base, FirstDepth
<1>3. \A n : Wanted(n) <=> Wanted(n)'  BY <1>1 DEF Wanted
<1>4. lines' = lines => \A i, d : PathAt(i, d)' = PathAt(i, d)  BY <1>2 DEF PathAt
<1> QED  BY <1>1, <1>2, <1>3, <1>4

\* What the lines stand for stays, and was there when it was there before.
LEMMA LinesStay ==
    ASSUME LinesPlaced, command' = command, lines' = lines, ever \subseteq ever',
           always' \subseteq always, \A i \in DOMAIN lines : Unconfirmed(i) => Unconfirmed(i)'
    PROVE  LinesPlaced'
<1>1. FirstDepth' = FirstDepth /\ \A i, d : PathAt(i, d)' = PathAt(i, d)  BY SameCommand
<1>2. ASSUME NEW i \in DOMAIN lines PROVE LinePlaced(i)' /\ LineTrue(i)'
  <2>1. LinePlaced(i) /\ LineTrue(i)  BY <1>2 DEF LinesPlaced
  <2>2. LinePlaced(i)'  BY <1>1, <2>1 DEF LinePlaced
  <2>3. PathAt(i, lines[i].depth + 1)' = PathAt(i, lines[i].depth + 1)  BY <1>1
  <2>4. Wanted(PathAt(i, lines[i].depth + 1))'
    BY <2>1, <2>3 DEF LineTrue, Wanted, Target, TargetShown
  <2>5. Unconfirmed(i)' \/ \E v \in Values : <<PathAt(i, lines[i].depth + 1)', v>> \in ever'
    <3>1. CASE Unconfirmed(i)  BY <3>1
    <3>2. CASE \E v \in Values : <<PathAt(i, lines[i].depth + 1), v>> \in ever
      BY <2>3, <3>2
    <3> QED  BY <2>1, <3>1, <3>2 DEF LineTrue
  <2>6. \/ command'.what = "names"
        \/ ValueTrue(PathAt(i, lines[i].depth + 1), lines[i].value)'
    BY <2>1, <2>3 DEF LineTrue, ValueTrue
  <2>7. LineTrue(i)'  BY <2>4, <2>5, <2>6 DEF LineTrue
  <2> QED  BY <2>2, <2>7
<1> QED  BY <1>1, <1>2 DEF LinesPlaced

\* So do the calls to come, and what they lead to.
LEMMA CallsStay ==
    ASSUME PendingPlaced, Once, command' = command, pending' = pending, lines' = lines,
           answer' = answer, ever \subseteq ever', always' \subseteq always,
           LineShown' <=> LineShown
    PROVE  PendingPlaced' /\ Once'
<1>1. /\ Target' = Target /\ FirstDepth' = FirstDepth /\ FirstCall' = FirstCall
      /\ (\A n : Wanted(n) <=> Wanted(n)') /\ \A i, d : PathAt(i, d)' = PathAt(i, d)
  BY SameCommand
<1>2. PendingPlaced'
  <2>1. ASSUME NEW c, CallPlaced(c) PROVE CallPlaced(c)'
    <3>1. c.depth # 0 => \E v \in Values : <<Goal(c), v>> \in ever'  BY <2>1 DEF CallPlaced
    <3>2. PathAt(Len(lines), c.depth)' = PathAt(Len(lines), c.depth)  BY <1>1 DEF PathAt
    <3> QED  BY <1>1, <2>1, <3>1, <3>2 DEF CallPlaced
  <2>2. ASSUME NEW k \in DOMAIN pending PROVE CallPlaced(pending[k])'
    <3>1. PICK c : c = pending[k]  OBVIOUS
    <3>2. CallPlaced(c)'  BY <2>1, <3>1 DEF PendingPlaced
    <3>3. c = pending'[k]  BY <3>1
    <3> QED  BY <3>2, <3>3
  <2> QED  BY <2>2 DEF PendingPlaced
<1>3. Once'
  <2> SUFFICES ASSUME answer' \in {"none", "shown"}, NEW n \in always', Wanted(n)'
               PROVE  ShownOnce(n)' \/ ToBeShown(n)'
    BY DEF Once
  <2>1. ShownOnce(n) \/ ToBeShown(n)  BY <1>1 DEF Once
  <2>2. \A i : ShownAt(i, n)' <=> ShownAt(i, n)  BY <1>1 DEF ShownAt
  <2>3. \A k : LeadsTo(k, n)' <=> LeadsTo(k, n)  BY DEF LeadsTo
  <2>4. ShownOnce(n) => ShownOnce(n)'  BY <2>2, <2>3 DEF ShownOnce
  <2>5. ToBeShown(n) => ToBeShown(n)'  BY <2>2, <2>3 DEF ToBeShown
  <2> QED  BY <2>1, <2>4, <2>5
<1> QED  BY <1>2, <1>3

\* And the first of them, as long as it makes no call itself.
LEMMA HeadStays ==
    ASSUME HeadOK, command' = command, pending' = pending, lines' = lines, step' = step,
           value' = value, ever \subseteq ever', always' \subseteq always
    PROVE  HeadOK' /\ (LineShown' <=> LineShown) /\ \A i : Unconfirmed(i)' <=> Unconfirmed(i)
<1>1. FirstDepth' = FirstDepth /\ FirstCall' = FirstCall /\ \A i, d : PathAt(i, d)' = PathAt(i, d)
  BY SameCommand
<1>2. LineShown' <=> LineShown  BY DEF LineShown
<1>3. \A i : Unconfirmed(i)' <=> Unconfirmed(i)  BY <1>2 DEF Unconfirmed
<1>4. ValueTrue(Goal(Head(pending)), value) => ValueTrue(Goal(Head(pending)), value)'
  BY DEF ValueTrue
<1>5. PathAt(Len(lines), Head(pending).depth + 1)' = PathAt(Len(lines), Head(pending).depth + 1)
  BY <1>1 DEF PathAt
<1>6. HeadOK'  BY <1>1, <1>2, <1>4, <1>5 DEF HeadOK
<1> QED  BY <1>2, <1>3, <1>6

LEMMA InitCorrect == Init => IInv
<1> SUFFICES ASSUME Init PROVE IInv  OBVIOUS
<1>1. /\ command = [what |-> "none", path |-> <<>>] /\ pending = <<>> /\ lines = <<>>
      /\ answer = "none" /\ used = ClockProperties /\ ever = {} /\ always = {}
      /\ changes = 0 /\ lenient \in BOOLEAN /\ tree \in Trees
      /\ step = "node" /\ value = NoName
  BY DEF Init, NoCommand
<1>2. <<>> \in Paths  BY BoundsAssumption DEF Paths, BoundedSeq, SeqOf
<1>3. ClockProperties \in Seq(Seq(Names \cup {"/"} \cup ClockNames))
  <2> DEFINE S == Names \cup {"/"} \cup ClockNames
             a == <<"clock", "/", "main_clock">>
             b == <<"clock", "/", "step_size">>
             c == <<"clock", "/", "time_factor">>
  <2>1. ClockProperties \in Seq(Seq(S))
    <3>1. a \in Seq(S) /\ b \in Seq(S) /\ c \in Seq(S)  BY DEF ClockNames
    <3>2. <<a, b, c>> \in Seq(Seq(S))
      <4> HIDE DEF a, b, c, S
      <4> QED  BY <3>1
    <3> QED  BY <3>2 DEF ClockProperties
  <2> QED  BY <2>1
<1>4. TypeOK
  <2>1. command \in [what : Commands \cup {"none"}, path : Paths]  BY <1>1, <1>2
  <2>2. pending \in Seq(Calls) /\ lines \in Seq(Lines)  BY <1>1
  <2>3. changes \in 0..MaxChanges  BY <1>1, BoundsAssumption
  <2> QED  BY <1>1, <1>3, <2>1, <2>2, <2>3 DEF TypeOK
<1>5. Phases  BY <1>1 DEF Phases, Idle, Executing, NoCommand
<1>6. PendingPlaced /\ HeadOK  BY <1>1 DEF PendingPlaced, HeadOK
<1>7. LinesPlaced  BY <1>1 DEF LinesPlaced
<1>8. Once /\ RefusedWithReason  BY <1>1 DEF Once, RefusedWithReason
<1> QED  BY <1>4, <1>5, <1>6, <1>7, <1>8 DEF IInv

\* A command begins: the call for its node will come to all that is wanted.
LEMMA BeginCorrect ==
    ASSUME IInv, Idle, NEW what \in Commands, NEW path \in Paths, NEW v \in Values \cup {NoName},
           what = "set" => v \in Values, Begin(what, path, v)
    PROVE  IInv'
<1> DEFINE call == [node |-> NodeAndLeaf(path).node, name |-> NodeAndLeaf(path).leaf, depth |-> 0]
<1>1. /\ command' = [what |-> what, path |-> path] /\ pending' = <<call>>
      /\ step' = IF what = "set" \/ ShowsItself(call) THEN "node" ELSE "next"
      /\ value' = v /\ changes' = 0
      /\ ever' = Pairs(tree) /\ always' = DOMAIN tree
      /\ tree' = tree /\ lenient' = lenient /\ lines' = lines /\ answer' = answer
      /\ used' = used
  BY DEF Begin, CallFor
<1>2. TypeOK /\ Phases  BY DEF IInv
<1>3. lines = <<>> /\ answer = "none" /\ used = ClockProperties  BY <1>1, <1>2 DEF Phases
<1>4. command'.path = path /\ command'.what = what /\ command'.path \in Paths  BY <1>1
<1>5. call \in Calls /\ call = FirstCall'
  <2>1. NodeAndLeaf(path).node \in Seq(Tokens) /\ NodeAndLeaf(path).leaf \in Names \cup {NoName}
    BY GoalOfSplit
  <2> QED  BY <1>4, <2>1 DEF Calls, FirstCall, Tokens
<1>6. /\ Target' \in Seq(Names) /\ Base' \in Seq(Names)
      /\ FirstDepth' \in {0, 1} /\ (FirstDepth' = 0 <=> TargetShown')
      /\ Goal(call) = Target' /\ (TargetShown' => Base' = Resolved(call.node))
  <2>1. Resolved(NodeAndLeaf(path).node) \in Seq(Names)  BY GoalOfSplit, ResolvedType
  <2> QED  BY <1>4, <2>1, SplitOfPath DEF Target, TargetShown, Base, FirstDepth, Goal
<1>7. Pairs(tree) \subseteq Nodes \X Values /\ DOMAIN tree \subseteq Nodes
  BY <1>2, TreeFacts DEF TypeOK, Pairs
<1> HIDE DEF call
<1>8. DOMAIN pending' = {1} /\ pending'[1] = call /\ Len(pending') = 1  BY <1>1
<1>9. TypeOK'
  <2>1. pending' \in Seq(Calls)  BY <1>1, <1>5
  <2>2. command' \in [what : Commands \cup {"none"}, path : Paths]  BY <1>1
  <2>3. changes' \in 0..MaxChanges  BY <1>1, BoundsAssumption
  <2>4. step' \in {"node", "value", "type", "next", "names", "set"}  BY <1>1
  <2> QED  BY <1>1, <1>2, <1>7, <2>1, <2>2, <2>3, <2>4 DEF TypeOK
<1>10. Phases'
  <2>1. command' # NoCommand  BY <1>4 DEF NoCommand, Commands
  <2> QED  BY <1>1, <1>3, <1>4, <2>1 DEF Phases, Idle, Executing, Pairs
<1>11. CallPlaced(call)'
  <2>1. call.depth = 0  BY DEF call
  <2>2. ASSUME call.depth >= FirstDepth'
        PROVE  /\ Reached(lines', FirstDepth', Len(lines'), call.depth)
               /\ Resolved(call.node) = PathAt(Len(lines), call.depth)'
    <3>1. FirstDepth' = 0 /\ TargetShown'  BY <1>6, <2>1, <2>2
    <3>2. Reached(lines', FirstDepth', Len(lines'), call.depth)  BY <2>1, <3>1 DEF Reached
    <3>3. PathOf(lines', Base', 0, Len(lines'), 0) = Base'
      <4>1. [k \in 1..(0 - 0) |-> lines'[LastAt(lines', Len(lines'), 0 + k - 1)].name] = <<>>
        OBVIOUS
      <4> QED  BY <1>6, <4>1 DEF PathOf
    <3>4. PathAt(Len(lines), call.depth)' = PathOf(lines', Base', FirstDepth', Len(lines'), call.depth)
      BY DEF PathAt
    <3> QED  BY <1>6, <2>1, <3>1, <3>2, <3>3, <3>4
  <2>3. IsPrefix(Target', Goal(call)) /\ Len(Goal(call)) = Len(Target') + call.depth
    BY <1>6, <2>1, PrefixReflexive
  <2>4. Clean(path) => Clean(call.node) /\ Clean(Joined(call.node, call.name))
    BY CleanSplit DEF call
  <2>5. call.depth <= FirstDepth'  BY <1>6, <2>1
  <2> QED  BY <1>1, <1>3, <1>4, <1>5, <1>8, <2>1, <2>2, <2>3, <2>4, <2>5 DEF CallPlaced
<1>12. PendingPlaced'
  <2>1. \A k, l \in {1} : ~(k < l)  OBVIOUS
  <2> QED  BY <1>8, <1>11, <2>1 DEF PendingPlaced
<1>13. LinesPlaced'  BY <1>1, <1>3 DEF LinesPlaced
<1>16. Head(pending') = call  BY <1>1
<1>17. ~LineShown'  BY <1>1, <1>4, <1>16 DEF LineShown
<1>18. HeadOK'
  <2>1. CASE what = "set"  BY <1>1, <1>3, <1>4, <1>5, <1>17, <2>1 DEF HeadOK
  <2>2. CASE what # "set"
    <3>1. step' \in {"node", "next"} /\ (step' = "node" => ShowsItself(call))  BY <1>1, <2>2
    <3> QED  BY <1>4, <1>16, <1>17, <2>2, <3>1 DEF HeadOK
  <2> QED  BY <2>1, <2>2
<1>14. Once'
  <2>1. ASSUME NEW n \in always', Wanted(n)' PROVE ToBeShown(n)'
    <3>1. IsPrefix(Goal(call), n)  BY <1>6, <2>1 DEF Wanted
    <3>2. DOMAIN lines' = {}  BY <1>1, <1>3
    <3> QED  BY <1>8, <1>17, <3>1, <3>2 DEF ToBeShown, LeadsTo
  <2> QED  BY <2>1 DEF Once
<1>15. RefusedWithReason'  BY <1>1, <1>3 DEF RefusedWithReason
<1> QED  BY <1>9, <1>10, <1>12, <1>13, <1>14, <1>15, <1>18 DEF IInv

-----------------------------------------------------------------------------
(* The remote calls of traverseProperties                                     *)

LEMMA CallFacts ==
    ASSUME TypeOK, PendingPlaced, NEW k \in DOMAIN pending
    PROVE  /\ pending[k] \in Calls /\ pending[k].depth \in Nat
           /\ pending[k].node \in Seq(Tokens) /\ Resolved(pending[k].node) \in Seq(Names)
           /\ Goal(pending[k]) \in Seq(Names)
           /\ ShowsItself(pending[k]) <=> pending[k].depth >= FirstDepth
           /\ ShowsItself(pending[k]) =>
                 /\ pending[k].name \in Names
                 /\ Goal(pending[k]) = Append(Resolved(pending[k].node), pending[k].name)
           /\ ~ShowsItself(pending[k]) => /\ pending[k].depth = 0 /\ FirstDepth = 1 /\ ~TargetShown
                                         /\ Goal(pending[k]) = Target
<1> DEFINE call == pending[k]
<1>1. pending \in Seq(Calls) /\ command.path \in Paths  BY DEF TypeOK
<1>2. call \in Calls  BY <1>1
<1>3. CallPlaced(call)  BY DEF PendingPlaced
<1> HIDE DEF call
<1>4. /\ call.depth \in Nat /\ call.node \in Seq(Tokens) /\ call.name \in Names \cup {NoName}
  BY <1>2 DEF Calls, Tokens
<1>5. Resolved(call.node) \in Seq(Names)  BY <1>4, ResolvedType
<1>6. /\ Goal(call) \in Seq(Names)
      /\ call.name # NoName => Goal(call) = Append(Resolved(call.node), call.name)
  BY <1>4, GoalOfJoined, ResolvedType DEF Goal
<1>7. /\ FirstDepth \in {0, 1} /\ (FirstDepth = 0 <=> TargetShown) /\ Goal(FirstCall) = Target
  BY <1>1, TargetFacts
<1>8. CASE call.depth = 0
  <2>1. call = FirstCall  BY <1>3, <1>8 DEF CallPlaced
  <2>2. ShowsItself(call) <=> TargetShown  BY <1>8, <2>1 DEF ShowsItself, TargetShown, FirstCall
  <2>3. ShowsItself(call) => call.name # NoName  BY <1>8 DEF ShowsItself
  <2>4. FirstDepth = 0 => call.depth >= FirstDepth  BY <1>8
  <2>5. FirstDepth = 1 => ~(call.depth >= FirstDepth)  BY <1>8
  <2> QED  BY <1>2, <1>4, <1>5, <1>6, <1>7, <1>8, <2>1, <2>2, <2>3, <2>4, <2>5 DEF call
<1>9. CASE call.depth # 0
  <2>1. ShowsItself(call)  BY <1>9 DEF ShowsItself
  <2>2. call.name \in Names /\ call.name # NoName
    BY <1>3, <1>9, NamesAssumption DEF CallPlaced, NoName
  <2>3. call.depth >= FirstDepth  BY <1>4, <1>7, <1>9
  <2> QED  BY <1>2, <1>4, <1>5, <1>6, <2>1, <2>2, <2>3 DEF call
<1> QED  BY <1>8, <1>9

\* What a remote call is made for.
LEMMA CallingFacts ==
    ASSUME IInv, pending # <<>>
    PROVE  /\ Executing /\ answer = "none" /\ ~Idle
           /\ 1 \in DOMAIN pending /\ Head(pending) = pending[1]
           /\ CallPlaced(Head(pending)) /\ HeadOK /\ TypeOK
<1>1. TypeOK /\ Phases /\ PendingPlaced /\ HeadOK  BY DEF IInv
<1>2. Executing /\ answer = "none" /\ ~Idle  BY <1>1 DEF Phases, Executing, Idle
<1>3. 1 \in DOMAIN pending /\ Head(pending) = pending[1]  BY <1>1 DEF TypeOK
<1> QED  BY <1>1, <1>2, <1>3 DEF PendingPlaced

\* A call that only looks, or reads: how far the walk is stays as it was.
LEMMA LookingCorrect ==
    ASSUME IInv, pending # <<>>, command' = command, tree' = tree, lenient' = lenient,
           answer' = answer, used' = used, changes' = changes, ever' = ever, always' = always,
           pending' = pending, lines' = lines, HeadOK', LineShown' <=> LineShown, LinesPlaced',
           step' \in {"node", "value", "type", "next", "names", "set"},
           value' \in Values \cup {NoName}
    PROVE  IInv'
<1>1. TypeOK /\ Phases /\ PendingPlaced /\ Once  BY DEF IInv
<1>2. TypeOK'  BY <1>1 DEF TypeOK
<1>3. Phases'  BY <1>1 DEF Phases, Idle, Executing, Pairs
<1>4. PendingPlaced' /\ Once'  BY <1>1, CallsStay
<1>5. RefusedWithReason'  BY CallingFacts DEF RefusedWithReason
<1> QED  BY <1>2, <1>3, <1>4, <1>5 DEF IInv

LEMMA FindNodeCorrect == ASSUME IInv, FindNode PROVE IInv'
<1>1. /\ pending # <<>> /\ step = "node" /\ command' = command /\ tree' = tree
      /\ lenient' = lenient /\ answer' = answer /\ used' = used /\ changes' = changes
      /\ ever' = ever /\ always' = always /\ pending' = pending /\ lines' = lines
      /\ value' = value /\ step' = IF command.what = "set" THEN "type" ELSE "value"
  BY DEF FindNode, Calling
<1>2. HeadOK /\ TypeOK /\ LinesPlaced  BY DEF IInv
<1>3. ~LineShown /\ ~LineShown'  BY <1>1 DEF LineShown
<1>4. HeadOK'
  <2>1. FirstCall' = FirstCall  BY <1>1, SameCommand
  <2>2. CASE command.what = "set"  BY <1>1, <1>2, <1>3, <2>1, <2>2 DEF HeadOK
  <2>3. CASE command.what # "set"  BY <1>1, <1>2, <1>3, <2>3 DEF HeadOK
  <2> QED  BY <2>2, <2>3
<1>5. LinesPlaced'  BY <1>1, <1>2, <1>3, LinesStay DEF Unconfirmed
<1>6. step' \in {"node", "value", "type", "next", "names", "set"}  BY <1>1
<1>7. value' \in Values \cup {NoName}  BY <1>1, <1>2 DEF TypeOK
<1> QED  BY <1>1, <1>3, <1>4, <1>5, <1>6, <1>7, LookingCorrect

\* The value read is that of the node there is, or none.
LEMMA ReadValueCorrect == ASSUME IInv, ReadValue PROVE IInv'
<1> DEFINE call == Head(pending)
           g == Goal(call)
<1>1. /\ pending # <<>> /\ step = "value" /\ command' = command /\ tree' = tree
      /\ lenient' = lenient /\ answer' = answer /\ used' = used /\ changes' = changes
      /\ ever' = ever /\ always' = always /\ pending' = pending /\ lines' = lines
      /\ step' = "type" /\ value' = Value(Resolved(call.node), call.name)
  BY DEF ReadValue, Calling, Current
<1>2. HeadOK /\ TypeOK /\ LinesPlaced /\ Phases /\ PendingPlaced  BY DEF IInv
<1>3. ~LineShown /\ ~LineShown'  BY <1>1 DEF LineShown
<1>4. command.what # "set" /\ ShowsItself(call)  BY <1>1, <1>2 DEF HeadOK
<1>5. Executing /\ 1 \in DOMAIN pending /\ call = pending[1]  BY <1>1, CallingFacts
<1>6. g = Append(Resolved(call.node), call.name) /\ g \in Seq(Names)
  BY <1>2, <1>4, <1>5, CallFacts
<1>7. Pairs(tree) \subseteq ever /\ always \subseteq DOMAIN tree  BY <1>2, <1>5 DEF Phases
<1>8. tree \in [DOMAIN tree -> Values]  BY <1>2, TreeFacts DEF TypeOK
<1>9. value' = IF g \in DOMAIN tree THEN tree[g] ELSE NoName  BY <1>1, <1>6 DEF Value
<1> HIDE DEF g, call
<1>10. value' \in Values \cup {NoName}  BY <1>8, <1>9
<1>11. ValueTrue(g, value')
  <2>1. CASE g \in DOMAIN tree
    <3>1. <<g, tree[g]>> \in ever  BY <1>7, <2>1 DEF Pairs
    <3> QED  BY <1>9, <2>1, <3>1 DEF ValueTrue
  <2>2. CASE g \notin DOMAIN tree  BY <1>7, <1>9, <2>2 DEF ValueTrue
  <2> QED  BY <2>1, <2>2
<1>12. HeadOK'
  <2>1. ValueTrue(Goal(Head(pending)), value)'  BY <1>1, <1>11 DEF ValueTrue, g, call
  <2> QED  BY <1>1, <1>3, <1>4, <2>1 DEF HeadOK, call
<1>13. LinesPlaced'  BY <1>1, <1>2, <1>3, LinesStay DEF Unconfirmed
<1> QED  BY <1>1, <1>3, <1>10, <1>12, <1>13, LookingCorrect

\* A property that is to be set: nothing is shown.
LEMMA ReadTypeToSetCorrect ==
    ASSUME IInv, ReadType, command.what = "set"
    PROVE  IInv'
<1>1. /\ pending # <<>> /\ step = "type" /\ command' = command /\ tree' = tree
      /\ lenient' = lenient /\ answer' = answer /\ used' = used /\ changes' = changes
      /\ ever' = ever /\ always' = always /\ pending' = pending /\ lines' = lines
      /\ value' = value /\ step' = "set"
  BY DEF ReadType, Calling
<1>2. HeadOK /\ TypeOK /\ LinesPlaced  BY DEF IInv
<1>3. ~LineShown /\ ~LineShown'  BY <1>1 DEF LineShown
<1>4. FirstCall' = FirstCall  BY <1>1, SameCommand
<1>5. HeadOK'  BY <1>1, <1>2, <1>3, <1>4 DEF HeadOK
<1>6. LinesPlaced'  BY <1>1, <1>2, <1>3, LinesStay DEF Unconfirmed
<1>7. value' \in Values \cup {NoName}  BY <1>1, <1>2 DEF TypeOK
<1> QED  BY <1>1, <1>3, <1>5, <1>6, <1>7, LookingCorrect

\* The node of the call is found again: it is there, so its line was of one that is.
LEMMA FindChildrenCorrect == ASSUME IInv, FindChildren PROVE IInv'
<1> DEFINE call == Head(pending)
           g == Goal(call)
           last == Len(lines)
<1>1. /\ pending # <<>> /\ step = "next" /\ command' = command /\ tree' = tree
      /\ lenient' = lenient /\ answer' = answer /\ used' = used /\ changes' = changes
      /\ ever' = ever /\ always' = always /\ pending' = pending /\ lines' = lines
      /\ value' = value /\ step' = "names" /\ Found(Joined(call.node, call.name))
  BY DEF FindChildren, Calling, Current
<1>2. HeadOK /\ TypeOK /\ LinesPlaced /\ Phases /\ PendingPlaced  BY DEF IInv
<1>3. LineShown' <=> LineShown  BY <1>1 DEF LineShown
<1>4. FirstDepth' = FirstDepth /\ \A i, d : PathAt(i, d)' = PathAt(i, d)  BY <1>1, SameCommand
<1>5. command.what # "set"  BY <1>1, <1>2 DEF HeadOK
<1>6. HeadOK'
  <2>1. LineShown => /\ lines # <<>> /\ lines[last].depth = call.depth
                     /\ Reached(lines, FirstDepth, last, call.depth + 1)
                     /\ PathAt(last, call.depth + 1) = g
    BY <1>1, <1>2 DEF HeadOK
  <2>2. PathAt(last, call.depth + 1)' = PathAt(last, call.depth + 1)  BY <1>1, <1>4 DEF PathAt
  <2> HIDE DEF call, g, last
  <2>3. LineShown' => /\ lines' # <<>> /\ lines'[last].depth = call.depth
                      /\ Reached(lines', FirstDepth', last, call.depth + 1)
                      /\ PathAt(last, call.depth + 1)' = g
    BY <1>1, <1>3, <1>4, <2>1, <2>2 DEF call, last
  <2> QED  BY <1>1, <1>5, <2>3 DEF HeadOK, call, g, last
<1>7. Executing /\ 1 \in DOMAIN pending /\ call = pending[1]  BY <1>1, CallingFacts
<1>8. ASSUME LineShown
      PROVE  \E v \in Values : <<PathAt(last, lines[last].depth + 1), v>> \in ever
  <2>1. ShowsItself(call) /\ PathAt(last, lines[last].depth + 1) = g
    BY <1>1, <1>2, <1>8 DEF HeadOK, LineShown
  <2>2. g = Append(Resolved(call.node), call.name) /\ call.name \in Names
        /\ Resolved(call.node) \in Seq(Names)
    BY <1>2, <1>7, <2>1, CallFacts
  <2>3. g # <<>>  BY <2>2
  <2>4. g \in DOMAIN tree  BY <1>1, <2>3 DEF Found, InTree, Goal
  <2>5. Pairs(tree) \subseteq ever /\ tree \in [DOMAIN tree -> Values]
    BY <1>2, <1>7, TreeFacts DEF Phases, TypeOK
  <2> HIDE DEF g, last
  <2>6. tree[g] \in Values /\ <<g, tree[g]>> \in ever  BY <2>4, <2>5 DEF Pairs
  <2> QED  BY <2>1, <2>6
<1>9. LinesPlaced'
  <2>1. ASSUME NEW i \in DOMAIN lines PROVE LinePlaced(i)' /\ LineTrue(i)'
    <3>1. LinePlaced(i) /\ LineTrue(i)  BY <1>2 DEF LinesPlaced
    <3>2. LinePlaced(i)'  BY <1>1, <1>4, <3>1 DEF LinePlaced
    <3>3. PathAt(i, lines[i].depth + 1)' = PathAt(i, lines[i].depth + 1)  BY <1>1, <1>4
    <3>4. Wanted(PathAt(i, lines[i].depth + 1))'
      BY <1>1, <3>1, <3>3 DEF LineTrue, Wanted, Target, TargetShown
    <3>5. \E v \in Values : <<PathAt(i, lines[i].depth + 1), v>> \in ever
      BY <1>8, <3>1 DEF LineTrue, Unconfirmed
    <3>6. \E v \in Values : <<PathAt(i, lines[i].depth + 1)', v>> \in ever'
      BY <1>1, <3>3, <3>5
    <3>7. \/ command'.what = "names"
          \/ ValueTrue(PathAt(i, lines[i].depth + 1), lines[i].value)'
      BY <1>1, <3>1, <3>3 DEF LineTrue, ValueTrue
    <3>8. LineTrue(i)'  BY <3>4, <3>6, <3>7 DEF LineTrue
    <3> QED  BY <3>2, <3>8
  <2> QED  BY <1>1, <1>2, <1>4, <2>1 DEF LinesPlaced
<1>10. value' \in Values \cup {NoName}  BY <1>1, <1>2 DEF TypeOK
<1> QED  BY <1>1, <1>3, <1>6, <1>9, <1>10, LookingCorrect


-----------------------------------------------------------------------------
(* A property is shown                                                        *)

ShownLine == [depth |-> Head(pending).depth, name |-> Head(pending).name,
              value |-> IF command.what = "names" THEN NoName ELSE value]

LEMMA TypeShows ==
    ASSUME IInv, ReadType, command.what # "set"
    PROVE  /\ Executing /\ command' = command /\ tree' = tree /\ lenient' = lenient
           /\ answer' = answer /\ used' = used /\ changes' = changes /\ ever' = ever
           /\ always' = always /\ pending' = pending /\ value' = NoName
           /\ pending # <<>> /\ 1 \in DOMAIN pending /\ Head(pending) = pending[1]
           /\ step' = "next" /\ lines' = Append(lines, ShownLine) /\ ShownLine \in Lines
           /\ ShowsItself(Head(pending)) /\ ~LineShown /\ LineShown'
           /\ command.what = "names" \/ ValueTrue(Goal(Head(pending)), ShownLine.value)
<1> DEFINE call == Head(pending)
<1>1. /\ pending # <<>> /\ step = "type" /\ command' = command /\ tree' = tree
      /\ lenient' = lenient /\ answer' = answer /\ used' = used /\ changes' = changes
      /\ ever' = ever /\ always' = always /\ pending' = pending
      /\ value' = NoName /\ step' = "next" /\ lines' = Append(lines, ShownLine)
  BY DEF ReadType, Calling, Current, ShownLine
<1>2. HeadOK /\ TypeOK /\ PendingPlaced  BY DEF IInv
<1>3. Executing /\ 1 \in DOMAIN pending /\ call = pending[1]  BY <1>1, CallingFacts
<1>4. ShowsItself(call) /\ ValueTrue(Goal(call), value)  BY <1>1, <1>2 DEF HeadOK
<1>5. ~LineShown  BY <1>1 DEF LineShown
<1>6. LineShown'  BY <1>1, <1>4 DEF LineShown
<1>7. call.depth \in Nat /\ call.name \in Names  BY <1>2, <1>3, <1>4, CallFacts
<1>8. ShownLine.value = IF command.what = "names" THEN NoName ELSE value  BY DEF ShownLine
<1>9. ShownLine \in Lines
  <2>1. value \in Values \cup {NoName}  BY <1>2 DEF TypeOK
  <2>2. ShownLine.value \in Values \cup {NoName}  BY <1>8, <2>1
  <2> QED  BY <1>7, <2>2 DEF ShownLine, Lines
<1>10. command.what = "names" \/ ValueTrue(Goal(call), ShownLine.value)  BY <1>4, <1>8
<1> QED  BY <1>1, <1>3, <1>4, <1>5, <1>6, <1>9, <1>10

\* The node line i of ls stands for.
NodeOf(ls, i) == PathOf(ls, Base, FirstDepth, i, ls[i].depth + 1)

\* The line is for the node of its call, and the lines before stand for what they stood
\* for.
LEMMA LineAdded ==
    ASSUME IInv, ReadType, command.what # "set"
    PROVE  LET n == Len(lines) + 1 IN
           /\ lines \in Seq(Lines) /\ lines' \in Seq(Lines) /\ Len(lines) \in Nat
           /\ Len(lines') = n /\ lines'[n] = ShownLine
           /\ ShownLine.depth = Head(pending).depth
           /\ NodeOf(lines', n) = Goal(Head(pending))
           /\ Reached(lines', FirstDepth, n, ShownLine.depth + 1)
           /\ \A i \in 1..Len(lines) : /\ lines'[i] = lines[i]
                                       /\ NodeOf(lines', i) = NodeOf(lines, i)
                                       /\ Reached(lines', FirstDepth, i, lines[i].depth + 1)
<1> DEFINE call == Head(pending)
           n == Len(lines) + 1
<1>1. /\ lines' = Append(lines, ShownLine) /\ ShownLine \in Lines
      /\ call = pending[1] /\ 1 \in DOMAIN pending /\ ShowsItself(call)
  BY TypeShows
<1>2. TypeOK /\ PendingPlaced /\ LinesPlaced  BY DEF IInv
<1>3. lines \in Seq(Lines) /\ command.path \in Paths  BY <1>2 DEF TypeOK
<1>4. /\ n \in Nat /\ Len(lines) \in Nat /\ lines' \in Seq(Lines) /\ Len(lines') = n
      /\ lines'[n] = ShownLine /\ \A i \in 1..Len(lines) : lines'[i] = lines[i]
      /\ DOMAIN lines = 1..Len(lines)
  BY <1>1, <1>3
<1>5. Base \in Seq(Names) /\ FirstDepth \in Nat  BY <1>3, TargetFacts
<1>6. ShownLine.depth = call.depth /\ ShownLine.name = call.name  BY DEF ShownLine
<1> HIDE DEF n, call
<1>7. /\ call.depth \in Nat /\ call.depth >= FirstDepth
      /\ Goal(call) = Append(Resolved(call.node), call.name)
  BY <1>1, <1>2, CallFacts DEF call
<1>8. CallPlaced(call)  BY <1>1, <1>2 DEF PendingPlaced
<1>9. /\ Reached(lines, FirstDepth, Len(lines), call.depth)
      /\ Resolved(call.node) = PathOf(lines, Base, FirstDepth, Len(lines), call.depth)
  BY <1>7, <1>8 DEF CallPlaced, PathAt
<1>10. /\ Reached(lines', FirstDepth, n, ShownLine.depth + 1)
       /\ PathOf(lines', Base, FirstDepth, n, ShownLine.depth + 1) = Goal(call)
  <2>1. /\ Reached(lines, FirstDepth, Len(lines), ShownLine.depth)
        /\ ShownLine.depth >= FirstDepth
    BY <1>6, <1>7, <1>9
  <2>2. /\ Reached(Append(lines, ShownLine), FirstDepth, Len(lines) + 1, ShownLine.depth + 1)
        /\ PathOf(Append(lines, ShownLine), Base, FirstDepth, Len(lines) + 1, ShownLine.depth + 1)
           = Append(PathOf(lines, Base, FirstDepth, Len(lines), ShownLine.depth), ShownLine.name)
    BY <1>1, <1>3, <1>5, <2>1, PathToLine
  <2> QED  BY <1>1, <1>6, <1>7, <1>9, <2>2 DEF n
<1>11. ASSUME NEW i \in 1..Len(lines)
       PROVE  /\ NodeOf(lines', i) = NodeOf(lines, i)
              /\ Reached(lines', FirstDepth, i, lines[i].depth + 1)
  <2>1. Reached(lines, FirstDepth, i, lines[i].depth + 1)
    BY <1>2, <1>4 DEF LinesPlaced, LinePlaced
  <2>2. lines[i].depth + 1 \in Nat /\ i \in 0..Len(lines)
    <3>1. lines[i] \in Lines  BY <1>3
    <3> QED  BY <1>4, <3>1 DEF Lines
  <2>3. /\ Reached(Append(lines, ShownLine), FirstDepth, i, lines[i].depth + 1)
        /\ PathOf(Append(lines, ShownLine), Base, FirstDepth, i, lines[i].depth + 1)
           = PathOf(lines, Base, FirstDepth, i, lines[i].depth + 1)
    BY <1>1, <1>3, <1>5, <2>1, <2>2, PathOfMore
  <2>4. lines'[i] = lines[i]  BY <1>4
  <2> QED  BY <1>1, <2>3, <2>4 DEF NodeOf
<1>12. NodeOf(lines', n) = Goal(call)  BY <1>4, <1>10 DEF NodeOf
<1> QED  BY <1>3, <1>4, <1>6, <1>10, <1>11, <1>12 DEF n, call

\* The line is one that may be shown; whether its node is there is known with the next
\* call.
LEMMA TypeKeepsLinesPlaced ==
    ASSUME IInv, ReadType, command.what # "set"
    PROVE  LinesPlaced'
<1> DEFINE call == Head(pending)
           n == Len(lines) + 1
<1>1. /\ command' = command /\ ever' = ever /\ always' = always /\ Executing
      /\ call = pending[1] /\ 1 \in DOMAIN pending /\ ShowsItself(call)
      /\ ~LineShown /\ LineShown' /\ step' = "next"
      /\ command.what = "names" \/ ValueTrue(Goal(call), ShownLine.value)
  BY TypeShows
<1>2. TypeOK /\ Phases /\ PendingPlaced /\ LinesPlaced  BY DEF IInv
<1>3. /\ Base' = Base /\ FirstDepth' = FirstDepth /\ \A m : Wanted(m) <=> Wanted(m)'
  BY <1>1, SameCommand
<1>4. /\ lines \in Seq(Lines) /\ lines' \in Seq(Lines) /\ Len(lines) \in Nat
      /\ Len(lines') = n /\ lines'[n] = ShownLine
      /\ ShownLine.depth = call.depth
      /\ NodeOf(lines', n) = Goal(call)
      /\ Reached(lines', FirstDepth, n, ShownLine.depth + 1)
      /\ \A i \in 1..Len(lines) : /\ lines'[i] = lines[i]
                                  /\ NodeOf(lines', i) = NodeOf(lines, i)
                                  /\ Reached(lines', FirstDepth, i, lines[i].depth + 1)
  BY LineAdded
<1> HIDE DEF call, n
<1>5. /\ call.depth \in Nat /\ call.depth >= FirstDepth
      /\ FirstDepth = 0 <=> TargetShown
      /\ FirstDepth \in {0, 1}
  <2>1. command.path \in Paths  BY <1>2 DEF TypeOK
  <2> QED  BY <1>1, <1>2, <2>1, CallFacts, TargetFacts
<1>6. CallPlaced(call)  BY <1>1, <1>2 DEF PendingPlaced
<1>7. DOMAIN lines' = 1..n /\ DOMAIN lines = 1..Len(lines) /\ n = Len(lines) + 1
  BY <1>4 DEF n
<1>8. \A i \in 1..n : PathAt(i, lines[i].depth + 1)' = NodeOf(lines', i)
  BY <1>3 DEF PathAt, NodeOf
<1>9. lines' # <<>> => lines'[1].depth = FirstDepth
  <2>1. CASE lines = <<>>
    <3>1. call.depth <= FirstDepth  BY <1>6, <2>1 DEF CallPlaced
    <3>2. n = 1  BY <2>1 DEF n
    <3>3. call.depth = FirstDepth  BY <1>5, <3>1
    <3> QED  BY <1>4, <3>2, <3>3
  <2>2. CASE lines # <<>>
    <3>1. lines[1].depth = FirstDepth /\ 1 \in 1..Len(lines)  BY <1>2, <1>4, <2>2 DEF LinesPlaced
    <3> QED  BY <1>4, <3>1
  <2> QED  BY <2>1, <2>2
<1>10. ASSUME NEW i \in 1..Len(lines) PROVE LinePlaced(i)' /\ LineTrue(i)'
  <2>1. LinePlaced(i) /\ LineTrue(i)  BY <1>2, <1>7 DEF LinesPlaced
  <2>2. lines'[i] = lines[i] /\ i \in 1..n  BY <1>4, <1>7
  <2>3. LinePlaced(i)'  BY <1>3, <1>4, <2>1, <2>2 DEF LinePlaced
  <2>4. PathAt(i, lines[i].depth + 1)' = PathAt(i, lines[i].depth + 1)
    <3>1. PathAt(i, lines[i].depth + 1) = NodeOf(lines, i)  BY DEF PathAt, NodeOf
    <3> QED  BY <1>4, <1>8, <2>2, <3>1
  <2> DEFINE m == PathAt(i, lines[i].depth + 1)
  <2>5. Wanted(m)'
    <3>1. PICK x : x = m  OBVIOUS
    <3>2. Wanted(x)'  BY <1>3, <2>1, <3>1 DEF LineTrue
    <3>3. x = m'  BY <2>4, <3>1
    <3> HIDE DEF m
    <3> QED  BY <3>2, <3>3 DEF Wanted
  <2>6. \E v \in Values : <<m', v>> \in ever'
    <3>1. \E v \in Values : <<m, v>> \in ever  BY <1>1, <2>1 DEF LineTrue, Unconfirmed
    <3> QED  BY <1>1, <2>4, <3>1
  <2>7. command'.what = "names" \/ ValueTrue(m, lines[i].value)'
    <3>1. command.what = "names" \/ ValueTrue(m, lines[i].value)  BY <2>1 DEF LineTrue
    <3> QED  BY <1>1, <2>2, <2>4, <3>1 DEF ValueTrue
  <2>8. LineTrue(i)'  BY <2>5, <2>6, <2>7 DEF LineTrue
  <2> QED  BY <2>3, <2>8
<1>11. ASSUME NEW i, i = n PROVE LinePlaced(i)' /\ LineTrue(i)'
  <2> DEFINE m == PathAt(i, lines[i].depth + 1)
  <2>1. lines'[i] = ShownLine /\ m' = Goal(call)  BY <1>4, <1>7, <1>8, <1>11
  <2>2. LinePlaced(i)'  BY <1>3, <1>4, <1>5, <1>11, <2>1 DEF LinePlaced
  <2>3. Wanted(Goal(call))
    <3>1. IsPrefix(Target, Goal(call)) /\ Len(Goal(call)) = Len(Target) + call.depth
      BY <1>6 DEF CallPlaced
    <3>2. Len(Target) \in Nat
      <4>1. command.path \in Paths  BY <1>2 DEF TypeOK
      <4>2. Target \in Seq(Names)  BY <4>1, TargetFacts
      <4> QED  BY <4>2
    <3>3. Goal(call) = Target => call.depth = 0  BY <1>5, <3>1, <3>2
    <3>4. Goal(call) = Target => FirstDepth = 0  BY <1>5, <3>3
    <3> QED  BY <1>5, <3>1, <3>4 DEF Wanted
  <2>4. Wanted(m)'
    <3>1. PICK x : x = Goal(call)  OBVIOUS
    <3>2. Wanted(x)'  BY <1>3, <2>3, <3>1
    <3>3. x = m'  BY <2>1, <3>1
    <3> HIDE DEF m
    <3> QED  BY <3>2, <3>3 DEF Wanted
  <2>5. Unconfirmed(i)'  BY <1>1, <1>4, <1>11 DEF Unconfirmed
  <2>6. command'.what = "names" \/ ValueTrue(m, lines[i].value)'
    BY <1>1, <2>1 DEF ValueTrue
  <2>7. LineTrue(i)'  BY <2>4, <2>5, <2>6 DEF LineTrue
  <2> QED  BY <2>2, <2>7
<1>12. \A i \in DOMAIN lines' : i \in 1..Len(lines) \/ i = n  BY <1>4, <1>7
<1>13. \A i \in DOMAIN lines' : LinePlaced(i)' /\ LineTrue(i)'  BY <1>10, <1>11, <1>12
<1> QED  BY <1>3, <1>9, <1>13 DEF LinesPlaced

\* The calls to come are where they were.
LEMMA TypeKeepsPendingPlaced ==
    ASSUME IInv, ReadType, command.what # "set"
    PROVE  PendingPlaced'
<1> DEFINE call == Head(pending)
           m == Len(lines) + 1
<1>1. /\ command' = command /\ ever' = ever /\ LineShown' /\ pending' = pending
      /\ call = pending[1] /\ 1 \in DOMAIN pending
      /\ lines' = Append(lines, ShownLine) /\ ShownLine \in Lines
  BY TypeShows
<1>2. TypeOK /\ PendingPlaced  BY DEF IInv
<1>3. /\ FirstDepth' = FirstDepth /\ Target' = Target /\ FirstCall' = FirstCall /\ Base' = Base
  BY <1>1, SameCommand
<1>4. command.path \in Paths /\ lines \in Seq(Lines)  BY <1>2 DEF TypeOK
<1>5. Base \in Seq(Names) /\ FirstDepth \in Nat  BY <1>4, TargetFacts
<1>6. Len(lines') = m /\ ShownLine.depth = call.depth /\ m # 0  BY LineAdded
<1>7. lines' # <<>>
  <2> HIDE DEF m
  <2> QED  BY <1>6
<1>8. DOMAIN pending = 1..Len(pending) /\ Len(pending) \in Nat  BY <1>2 DEF TypeOK
<1>9. \A d : PathAt(Len(lines), d)' = PathOf(lines', Base, FirstDepth, Len(lines'), d)
  BY <1>3 DEF PathAt
<1> HIDE DEF call, m
<1>10. ASSUME NEW c, NEW k \in DOMAIN pending, c = pending[k]
       PROVE  CallPlaced(c)'
  <2>1. CallPlaced(c)  BY <1>2, <1>10 DEF PendingPlaced
  <2>2. c.depth \in Nat /\ c.depth <= call.depth
    <3>1. c.depth \in Nat /\ call.depth \in Nat  BY <1>1, <1>2, <1>10, CallFacts
    <3>2. CASE k = 1  BY <1>1, <1>10, <3>1, <3>2
    <3>3. CASE k # 1
      <4>1. 1 < k  BY <1>8, <3>3
      <4>2. call.depth >= c.depth  BY <1>1, <1>2, <1>10, <4>1 DEF PendingPlaced
      <4> QED  BY <3>1, <4>2
    <3> QED  BY <3>2, <3>3
  <2>3. ASSUME c.depth >= FirstDepth
        PROVE  /\ Reached(lines', FirstDepth, Len(lines'), c.depth)
               /\ Resolved(c.node) = PathAt(Len(lines), c.depth)'
    <3>1. /\ Reached(lines, FirstDepth, Len(lines), c.depth)
          /\ Resolved(c.node) = PathOf(lines, Base, FirstDepth, Len(lines), c.depth)
      BY <2>1, <2>3 DEF CallPlaced, PathAt
    <3>2. c.depth <= ShownLine.depth  BY <1>6, <2>2
    <3>3. /\ Reached(Append(lines, ShownLine), FirstDepth, Len(lines) + 1, c.depth)
          /\ PathOf(Append(lines, ShownLine), Base, FirstDepth, Len(lines) + 1, c.depth)
             = PathOf(lines, Base, FirstDepth, Len(lines), c.depth)
      BY <1>1, <1>4, <1>5, <2>2, <3>1, <3>2, PathBesideLine
    <3> QED  BY <1>1, <1>6, <1>9, <3>1, <3>3 DEF m
  <2> QED  BY <1>1, <1>3, <1>7, <2>1, <2>3 DEF CallPlaced
<1>11. ASSUME NEW k \in DOMAIN pending PROVE CallPlaced(pending[k])'
  <2>1. PICK c : c = pending[k]  OBVIOUS
  <2>2. c = pending'[k]  BY <1>1, <2>1
  <2> QED  BY <1>10, <2>1, <2>2
<1> QED  BY <1>1, <1>2, <1>11 DEF PendingPlaced

\* The node of the call is shown by the new line, and its call leads to it no more.
LEMMA TypeKeepsOnce ==
    ASSUME IInv, ReadType, command.what # "set"
    PROVE  Once'
<1> DEFINE call == Head(pending)
           g == Goal(call)
           m == Len(lines) + 1
<1>1. /\ command' = command /\ always' = always /\ Executing /\ answer' = answer
      /\ pending' = pending /\ call = pending[1] /\ 1 \in DOMAIN pending
      /\ ~LineShown /\ LineShown'
  BY TypeShows
<1>2. TypeOK /\ PendingPlaced /\ Once  BY DEF IInv
<1>3. SUFFICES ASSUME NEW n \in always, Wanted(n)' PROVE ShownOnce(n)' \/ ToBeShown(n)'
  BY <1>1 DEF Once
<1>4. Wanted(n) /\ (ShownOnce(n) \/ ToBeShown(n))
  <2>1. Wanted(n)  BY <1>1, <1>3, SameCommand
  <2>2. answer = "none"  BY <1>1 DEF Executing
  <2> QED  BY <1>2, <2>1, <2>2 DEF Once
<1>5. \A i \in DOMAIN lines' : ShownAt(i, n)' <=> NodeOf(lines', i) = n
  <2>1. Base' = Base /\ FirstDepth' = FirstDepth  BY <1>1, SameCommand
  <2> QED  BY <2>1 DEF PathAt, NodeOf, ShownAt
<1>6. \A i \in DOMAIN lines : ShownAt(i, n) <=> NodeOf(lines, i) = n
  BY DEF PathAt, NodeOf, ShownAt
<1>7. /\ DOMAIN lines' = DOMAIN lines \cup {m} /\ m \notin DOMAIN lines
      /\ \A i \in DOMAIN lines : ShownAt(i, n)' <=> ShownAt(i, n)
      /\ \A i \in DOMAIN lines' : i = m => (ShownAt(i, n)' <=> n = g)
  <2>1. /\ lines \in Seq(Lines) /\ lines' \in Seq(Lines) /\ Len(lines') = m
        /\ Len(lines) \in Nat /\ NodeOf(lines', m) = g
        /\ \A i \in 1..Len(lines) : NodeOf(lines', i) = NodeOf(lines, i)
    BY LineAdded
  <2>2. DOMAIN lines' = 1..m /\ DOMAIN lines = 1..Len(lines)  BY <2>1
  <2>3. 1..m = 1..Len(lines) \cup {m} /\ m \notin 1..Len(lines)  BY <2>1
  <2> HIDE DEF m, g
  <2> QED  BY <1>5, <1>6, <2>1, <2>2, <2>3
<1>8. /\ LeadsTo(1, n) <=> IsPrefix(g, n)
      /\ LeadsTo(1, n)' <=> IsPrefix(g, n) /\ n # g
      /\ \A k \in DOMAIN pending : k # 1 => (LeadsTo(k, n)' <=> LeadsTo(k, n))
  BY <1>1 DEF LeadsTo
<1>9. n = g => IsPrefix(g, n)
  <2>1. g \in Seq(Names)  BY <1>1, <1>2, CallFacts
  <2> QED  BY <2>1, PrefixReflexive
<1> HIDE DEF call, g, m
<1>10. CASE n = g
  <2>1. LeadsTo(1, n)  BY <1>8, <1>9, <1>10
  <2>2. ToBeShown(n)  BY <1>1, <1>4, <2>1 DEF ShownOnce
  <2>3. /\ \A i \in DOMAIN lines : ~ShownAt(i, n)
        /\ \A k \in DOMAIN pending : k # 1 => ~LeadsTo(k, n)
    BY <1>1, <2>1, <2>2 DEF ToBeShown
  <2>4. m \in DOMAIN lines' /\ \A j \in DOMAIN lines' : ShownAt(j, n)' <=> j = m
    <3>1. m \in DOMAIN lines' /\ \A j \in DOMAIN lines' : j \in DOMAIN lines \/ j = m  BY <1>7
    <3> QED  BY <1>7, <1>10, <2>3, <3>1
  <2>5. \A k \in DOMAIN pending' : ~LeadsTo(k, n)'  BY <1>1, <1>8, <1>10, <2>3
  <2> QED  BY <2>4, <2>5 DEF ShownOnce
<1>11. CASE n # g
  <2>1. \A k \in DOMAIN pending : LeadsTo(k, n)' <=> LeadsTo(k, n)  BY <1>8, <1>11
  <2>2. \A i \in DOMAIN lines' : ShownAt(i, n)' <=> i \in DOMAIN lines /\ ShownAt(i, n)
    <3> TAKE i \in DOMAIN lines'
    <3>1. CASE i \in DOMAIN lines  BY <1>7, <3>1
    <3>2. CASE i \notin DOMAIN lines
      <4>1. i = m  BY <1>7, <3>2
      <4> QED  BY <1>7, <1>11, <3>2, <4>1
    <3> QED  BY <3>1, <3>2
  <2>3. CASE ShownOnce(n)
    <3>1. PICK i \in DOMAIN lines : \A j \in DOMAIN lines : ShownAt(j, n) <=> j = i
      BY <2>3 DEF ShownOnce
    <3>2. i \in DOMAIN lines'  BY <1>7
    <3>3. \A j \in DOMAIN lines' : ShownAt(j, n)' <=> j = i  BY <2>2, <3>1
    <3>4. \A k \in DOMAIN pending' : ~LeadsTo(k, n)'  BY <1>1, <2>1, <2>3 DEF ShownOnce
    <3>5. ShownOnce(n)'  BY <3>2, <3>3, <3>4 DEF ShownOnce
    <3> QED  BY <3>5
  <2>4. CASE ToBeShown(n)
    <3>1. \A i \in DOMAIN lines' : ~ShownAt(i, n)'  BY <2>2, <2>4 DEF ToBeShown
    <3>2. PICK k \in DOMAIN pending : \A l \in DOMAIN pending : LeadsTo(l, n) <=> l = k
      BY <2>4 DEF ToBeShown
    <3>3. k \in DOMAIN pending' /\ \A l \in DOMAIN pending' : LeadsTo(l, n)' <=> l = k
      BY <1>1, <2>1, <3>2
    <3>4. ToBeShown(n)'  BY <3>1, <3>3 DEF ToBeShown
    <3> QED  BY <3>4
  <2> QED  BY <1>4, <2>3, <2>4
<1> QED  BY <1>10, <1>11

LEMMA ReadTypeCorrect == ASSUME IInv, ReadType PROVE IInv'
<1> SUFFICES ASSUME command.what # "set" PROVE IInv'  BY ReadTypeToSetCorrect
<1>1. TypeOK /\ Phases  BY DEF IInv
<1>2. /\ Executing /\ command' = command /\ tree' = tree /\ lenient' = lenient
      /\ answer' = answer /\ used' = used /\ changes' = changes /\ ever' = ever
      /\ always' = always /\ pending' = pending /\ value' = NoName /\ step' = "next"
      /\ pending # <<>> /\ lines' = Append(lines, ShownLine) /\ ShownLine \in Lines
  BY TypeShows
<1>3. TypeOK'
  <2>1. lines' \in Seq(Lines)  BY <1>1, <1>2 DEF TypeOK
  <2> QED  BY <1>1, <1>2, <2>1 DEF TypeOK
<1>4. Phases'
  <2>1. answer = "none" /\ ~Idle  BY <1>2 DEF Executing, Idle
  <2> QED  BY <1>1, <1>2, <2>1 DEF Phases, Idle, Executing, Pairs
<1>5. HeadOK'
  <2> DEFINE n == Len(lines) + 1
             d == Head(pending).depth
  <2>1. /\ Len(lines') = n /\ lines'[n] = ShownLine /\ ShownLine.depth = d /\ n # 0
        /\ NodeOf(lines', n) = Goal(Head(pending))
        /\ Reached(lines', FirstDepth, n, ShownLine.depth + 1)
    BY LineAdded
  <2>2. FirstDepth' = FirstDepth /\ Base' = Base  BY <1>2, SameCommand
  <2>3. lines' # <<>>
    <3> HIDE DEF n
    <3> QED  BY <2>1
  <2> HIDE DEF n, d
  <2>4. PathAt(Len(lines), d + 1)' = PathOf(lines', Base, FirstDepth, Len(lines'), d' + 1)
    BY <2>2 DEF PathAt
  <2>5. d' = d  BY <1>2 DEF d
  <2>6. PathAt(Len(lines), d + 1)' = Goal(Head(pending))  BY <2>1, <2>4, <2>5 DEF NodeOf
  <2>7. Reached(lines', FirstDepth', Len(lines'), d + 1) /\ lines'[Len(lines')].depth = d
    BY <2>1, <2>2
  <2>8. Goal(Head(pending))' = Goal(Head(pending))  BY <1>2
  <2> QED  BY <1>2, <2>3, <2>6, <2>7, <2>8 DEF HeadOK, d
<1>6. RefusedWithReason'
  <2>1. answer' = "none"  BY <1>2 DEF Executing
  <2> QED  BY <2>1 DEF RefusedWithReason
<1> QED  BY <1>3, <1>4, <1>5, <1>6, TypeKeepsPendingPlaced, TypeKeepsLinesPlaced, TypeKeepsOnce
     DEF IInv

-----------------------------------------------------------------------------
(* The children of a node                                                     *)

NextNode   == Joined(Head(pending).node, Head(pending).name)
ChildNames == SetToSeq(Children(Resolved(NextNode)))
ChildCalls == [i \in DOMAIN ChildNames |->
                  [node |-> NextNode, name |-> ChildNames[i], depth |-> Head(pending).depth + 1]]

\* The call has shown its line, unless it shows none: then nothing was shown before.
LEMMA NamesRead ==
    ASSUME IInv, ReadNames
    PROVE  /\ Executing /\ command' = command /\ tree' = tree /\ lenient' = lenient
           /\ answer' = answer /\ used' = used /\ changes' = changes /\ ever' = ever
           /\ always' = always /\ lines' = lines /\ value' = value
           /\ 1 \in DOMAIN pending /\ Head(pending) = pending[1] /\ pending # <<>>
           /\ pending' = ChildCalls \o Tail(pending)
           /\ step = "names" /\ step' = "node" /\ command.what # "set"
           /\ LineShown <=> ShowsItself(Head(pending))
           /\ ~LineShown'
<1>1. /\ command' = command /\ tree' = tree /\ lenient' = lenient
      /\ answer' = answer /\ used' = used /\ changes' = changes /\ ever' = ever
      /\ always' = always /\ lines' = lines /\ value' = value
      /\ pending # <<>> /\ pending' = ChildCalls \o Tail(pending)
      /\ step = "names" /\ step' = "node"
  BY DEF ReadNames, Calling, Current, ChildCalls, ChildNames, NextNode
<1>2. Executing /\ 1 \in DOMAIN pending /\ Head(pending) = pending[1] /\ HeadOK
  BY <1>1, CallingFacts
<1>3. command.what # "set"  BY <1>1, <1>2 DEF HeadOK
<1>4. LineShown <=> ShowsItself(Head(pending))  BY <1>1, <1>3 DEF LineShown
<1>5. ~LineShown'  BY <1>1 DEF LineShown
<1> QED  BY <1>1, <1>2, <1>3, <1>4, <1>5

\* Its loop makes calls for the children of its node, one each.
LEMMA ChildCallsMade ==
    ASSUME IInv, ReadNames
    PROVE  LET g == Goal(Head(pending)) IN
           /\ NextNode \in Seq(Tokens) /\ g \in Seq(Names) /\ g = Resolved(NextNode)
           /\ ChildCalls \in Seq(Calls)
           /\ \A i \in 1..Len(ChildCalls) :
                 /\ ChildCalls[i].node = NextNode /\ ChildCalls[i].name \in Names
                 /\ ChildCalls[i].depth = Head(pending).depth + 1
                 /\ Goal(ChildCalls[i]) = Append(g, ChildCalls[i].name)
                 /\ Goal(ChildCalls[i]) \in DOMAIN tree
           /\ \A i, j \in 1..Len(ChildCalls) : ChildCalls[i].name = ChildCalls[j].name => i = j
           /\ \A m \in Names : Append(g, m) \in DOMAIN tree =>
                 \E i \in 1..Len(ChildCalls) : ChildCalls[i].name = m
<1> DEFINE call == Head(pending)
           g == Goal(call)
<1>1. call = pending[1] /\ 1 \in DOMAIN pending  BY NamesRead
<1>2. TypeOK /\ PendingPlaced  BY DEF IInv
<1>3. call \in Calls /\ call.depth \in Nat /\ g \in Seq(Names)  BY <1>1, <1>2, CallFacts
<1>4. call.node \in Seq(Tokens) /\ call.name \in Names \cup {NoName}
  BY <1>3 DEF Calls, Tokens
<1>5. NextNode \in Seq(Tokens) /\ g = Resolved(NextNode)
  BY <1>4, GoalOfJoined DEF NextNode, Goal
<1> HIDE DEF call, g
<1>6. /\ ChildNames \in Seq(Names)
      /\ \A i \in 1..Len(ChildNames) : Append(g, ChildNames[i]) \in DOMAIN tree
      /\ \A i, j \in 1..Len(ChildNames) : ChildNames[i] = ChildNames[j] => i = j
      /\ \A m \in Names : Append(g, m) \in DOMAIN tree =>
            \E i \in 1..Len(ChildNames) : ChildNames[i] = m
  <2>1. tree \in Trees  BY <1>2 DEF TypeOK
  <2> QED  BY <1>3, <1>5, <2>1, ChildrenInOrder DEF ChildNames
<1>7. DOMAIN ChildNames = 1..Len(ChildNames) /\ Len(ChildNames) \in Nat  BY <1>6
<1>8. ASSUME NEW i \in 1..Len(ChildNames)
      PROVE  [node |-> NextNode, name |-> ChildNames[i], depth |-> call.depth + 1] \in Calls
  <2>1. ChildNames[i] \in Names  BY <1>6
  <2> QED  BY <1>3, <1>5, <2>1 DEF Calls, Tokens
<1>9. ChildCalls = [i \in 1..Len(ChildNames) |->
                      [node |-> NextNode, name |-> ChildNames[i], depth |-> call.depth + 1]]
  BY <1>7 DEF ChildCalls, call
<1>10. ChildCalls \in Seq(Calls) /\ Len(ChildCalls) = Len(ChildNames)  BY <1>7, <1>8, <1>9
<1>11. ASSUME NEW i \in 1..Len(ChildNames)
       PROVE  /\ ChildCalls[i].node = NextNode /\ ChildCalls[i].name = ChildNames[i]
              /\ ChildCalls[i].depth = call.depth + 1 /\ ChildNames[i] \in Names
              /\ Goal(ChildCalls[i]) = Append(g, ChildNames[i])
  <2>4. ChildNames[i] \in Names  BY <1>6
  <2>1. ChildNames[i] \in Names /\ ChildNames[i] # NoName
    BY <2>4, NamesAssumption DEF NoName
  <2>2. ChildCalls[i] = [node |-> NextNode, name |-> ChildNames[i], depth |-> call.depth + 1]
    BY <1>9
  <2>3. Resolved(Joined(NextNode, ChildNames[i])) = Append(g, ChildNames[i])
    BY <1>5, <2>1, GoalOfJoined
  <2> QED  BY <2>1, <2>2, <2>3 DEF Goal
<1>12. ASSUME NEW i \in 1..Len(ChildCalls)
       PROVE  /\ ChildCalls[i].node = NextNode /\ ChildCalls[i].name \in Names
              /\ ChildCalls[i].depth = call.depth + 1
              /\ Goal(ChildCalls[i]) = Append(g, ChildCalls[i].name)
              /\ Goal(ChildCalls[i]) \in DOMAIN tree
  <2>1. i \in 1..Len(ChildNames)  BY <1>10
  <2>2. Append(g, ChildNames[i]) \in DOMAIN tree  BY <1>6, <2>1
  <2> QED  BY <1>11, <2>1, <2>2
<1>13. \A i, j \in 1..Len(ChildCalls) : ChildCalls[i].name = ChildCalls[j].name => i = j
  <2> TAKE i, j \in 1..Len(ChildCalls)
  <2>1. i \in 1..Len(ChildNames) /\ j \in 1..Len(ChildNames)  BY <1>10
  <2>2. ChildCalls[i].name = ChildNames[i] /\ ChildCalls[j].name = ChildNames[j]  BY <1>11, <2>1
  <2> QED  BY <1>6, <2>1, <2>2
<1>14. ASSUME NEW m \in Names, Append(g, m) \in DOMAIN tree
       PROVE  \E i \in 1..Len(ChildCalls) : ChildCalls[i].name = m
  <2>1. PICK i \in 1..Len(ChildNames) : ChildNames[i] = m  BY <1>6, <1>14
  <2> QED  BY <1>10, <1>11, <2>1
<1> QED  BY <1>3, <1>5, <1>10, <1>12, <1>13, <1>14 DEF g, call

\* A call to come is one of these, or was to come before.
LEMMA CallsAfterNames ==
    ASSUME IInv, ReadNames, NEW k \in DOMAIN pending'
    PROVE  LET n == Len(ChildCalls) IN
           /\ n \in Nat /\ k \in Nat
           /\ \/ k \in 1..n /\ pending'[k] = ChildCalls[k]
              \/ /\ k > n /\ k - n + 1 \in DOMAIN pending /\ k - n + 1 > 1
                 /\ pending'[k] = pending[k - n + 1]
<1> DEFINE n == Len(ChildCalls)
           rest == Tail(pending)
<1>1. pending' = ChildCalls \o rest /\ pending # <<>>  BY NamesRead
<1>2. pending \in Seq(Calls)  BY DEF IInv, TypeOK
<1>3. ChildCalls \in Seq(Calls)  BY ChildCallsMade
<1>4. /\ rest \in Seq(Calls) /\ DOMAIN pending = 1..(Len(rest) + 1) /\ Len(rest) \in Nat
      /\ \A i \in 1..Len(rest) : rest[i] = pending[i + 1]
  BY <1>1, <1>2
<1> HIDE DEF rest
<1>5. /\ DOMAIN pending' = 1..(n + Len(rest)) /\ n \in Nat
      /\ \A i \in 1..(n + Len(rest)) :
            pending'[i] = IF i <= n THEN ChildCalls[i] ELSE rest[i - n]
  BY <1>1, <1>3, <1>4
<1> HIDE DEF n
<1>6. k \in 1..(n + Len(rest)) /\ k \in Nat  BY <1>5
<1>7. CASE k <= n  BY <1>5, <1>6, <1>7 DEF n
<1>8. CASE k > n
  <2>1. k - n \in 1..Len(rest) /\ ~(k <= n)  BY <1>4, <1>5, <1>6, <1>8
  <2>2. pending'[k] = rest[k - n]  BY <1>5, <1>6, <2>1
  <2>3. rest[k - n] = pending[k - n + 1]  BY <1>4, <2>1
  <2>4. k - n + 1 \in DOMAIN pending /\ k - n + 1 > 1  BY <1>4, <2>1
  <2> QED  BY <1>5, <1>6, <1>8, <2>2, <2>3, <2>4 DEF n
<1> QED  BY <1>5, <1>6, <1>7, <1>8

\* Every child has its call, and every other call is still to come.
LEMMA NothingLost ==
    ASSUME IInv, ReadNames
    PROVE  LET n == Len(ChildCalls) IN
           /\ n \in Nat
           /\ \A i \in 1..n : i \in DOMAIN pending' /\ pending'[i] = ChildCalls[i]
           /\ \A k \in DOMAIN pending :
                 k > 1 => k + n - 1 \in DOMAIN pending' /\ pending'[k + n - 1] = pending[k]
<1> DEFINE n == Len(ChildCalls)
           rest == Tail(pending)
<1>1. pending' = ChildCalls \o rest /\ pending # <<>>  BY NamesRead
<1>2. pending \in Seq(Calls)  BY DEF IInv, TypeOK
<1>3. ChildCalls \in Seq(Calls)  BY ChildCallsMade
<1>4. /\ rest \in Seq(Calls) /\ DOMAIN pending = 1..(Len(rest) + 1) /\ Len(rest) \in Nat
      /\ \A i \in 1..Len(rest) : rest[i] = pending[i + 1]
  BY <1>1, <1>2
<1> HIDE DEF rest
<1>5. /\ DOMAIN pending' = 1..(n + Len(rest)) /\ n \in Nat
      /\ \A i \in 1..(n + Len(rest)) :
            pending'[i] = IF i <= n THEN ChildCalls[i] ELSE rest[i - n]
  BY <1>1, <1>3, <1>4
<1> HIDE DEF n
<1>6. ASSUME NEW i \in 1..n PROVE i \in DOMAIN pending' /\ pending'[i] = ChildCalls[i]
  <2>1. i \in 1..(n + Len(rest)) /\ i <= n  BY <1>4, <1>5
  <2> QED  BY <1>5, <2>1
<1>7. ASSUME NEW k \in DOMAIN pending, k > 1
      PROVE  k + n - 1 \in DOMAIN pending' /\ pending'[k + n - 1] = pending[k]
  <2> DEFINE j == k + n - 1
  <2>1. j \in 1..(n + Len(rest)) /\ ~(j <= n) /\ j - n \in 1..Len(rest) /\ (j - n) + 1 = k
    BY <1>4, <1>5, <1>7
  <2> HIDE DEF j
  <2>2. j \in DOMAIN pending' /\ pending'[j] = rest[j - n]  BY <1>5, <2>1
  <2>3. rest[j - n] = pending[k]  BY <1>4, <2>1
  <2> QED  BY <2>2, <2>3 DEF j
<1> QED  BY <1>5, <1>6, <1>7 DEF n

\* The first call may show nothing; it is for the node asked for.
LEMMA NothingShown ==
    ASSUME IInv, ReadNames, ~ShowsItself(Head(pending))
    PROVE  /\ lines = <<>> /\ lines' = <<>> /\ Len(pending) = 1
           /\ Head(pending).depth = 0 /\ FirstDepth = 1 /\ ~TargetShown
           /\ Goal(Head(pending)) = Target
<1>1. lines' = lines /\ Head(pending) = pending[1] /\ 1 \in DOMAIN pending /\ ~LineShown
  BY NamesRead
<1>2. TypeOK /\ PendingPlaced  BY DEF IInv
<1>3. /\ Head(pending).depth = 0 /\ FirstDepth = 1 /\ ~TargetShown
      /\ Goal(Head(pending)) = Target
  BY <1>1, <1>2, CallFacts
<1>4. CallPlaced(Head(pending))  BY <1>1, <1>2 DEF PendingPlaced
<1> QED  BY <1>1, <1>3, <1>4 DEF CallPlaced

\* The calls to come are where they should be: those for the children behind the line
\* shown last, the others where they were.
LEMMA NamesKeepPendingPlaced ==
    ASSUME IInv, ReadNames
    PROVE  PendingPlaced'
<1> DEFINE call == Head(pending)
           g == Goal(call)
           n == Len(ChildCalls)
<1>1. /\ command' = command /\ tree' = tree /\ ever' = ever /\ Executing /\ lines' = lines
      /\ call = pending[1] /\ 1 \in DOMAIN pending
  BY NamesRead
<1>2. TypeOK /\ Phases /\ PendingPlaced /\ LinesPlaced  BY DEF IInv
<1>3. /\ Base' = Base /\ FirstDepth' = FirstDepth /\ Target' = Target /\ FirstCall' = FirstCall
  BY <1>1, SameCommand
<1>4. command.path \in Paths /\ lines \in Seq(Lines)  BY <1>2 DEF TypeOK
<1>5. /\ Target \in Seq(Names) /\ Base \in Seq(Names) /\ FirstDepth \in {0, 1}
      /\ FirstDepth \in Nat /\ ~TargetShown => Base = Target
  BY <1>4, TargetFacts
<1>6. CallPlaced(call)  BY <1>1, <1>2 DEF PendingPlaced
<1>7. /\ call.depth \in Nat /\ g \in Seq(Names)
  BY <1>1, <1>2, CallFacts
<1>8. /\ NextNode \in Seq(Tokens) /\ g = Resolved(NextNode)
      /\ \A i \in 1..n : /\ ChildCalls[i].node = NextNode /\ ChildCalls[i].name \in Names
                         /\ ChildCalls[i].depth = call.depth + 1
                         /\ Goal(ChildCalls[i]) = Append(g, ChildCalls[i].name)
                         /\ Goal(ChildCalls[i]) \in DOMAIN tree
  BY ChildCallsMade
<1>9. \A k \in DOMAIN pending' :
         /\ n \in Nat /\ k \in Nat
         /\ \/ k \in 1..n /\ pending'[k] = ChildCalls[k]
            \/ /\ k > n /\ k - n + 1 \in DOMAIN pending /\ k - n + 1 > 1
               /\ pending'[k] = pending[k - n + 1]
  BY CallsAfterNames
<1>10. DOMAIN pending = 1..Len(pending) /\ Len(pending) \in Nat  BY <1>2 DEF TypeOK
<1> HIDE DEF call, g, n
\* Where the children of the node visited are.
<1>11. /\ Reached(lines', FirstDepth, Len(lines'), call.depth + 1)
       /\ PathOf(lines', Base, FirstDepth, Len(lines'), call.depth + 1) = g
       /\ lines' = <<>> => call.depth + 1 <= FirstDepth
  <2>1. CASE ShowsItself(call)
    <3>1. HeadOK /\ LineShown  BY <2>1, NamesRead DEF IInv, call
    <3>2. /\ lines # <<>> /\ Reached(lines, FirstDepth, Len(lines), call.depth + 1)
          /\ PathAt(Len(lines), call.depth + 1) = g
      BY <1>1, <3>1 DEF HeadOK, call, g
    <3> QED  BY <1>1, <3>2 DEF PathAt
  <2>2. CASE ~ShowsItself(call)
    <3>1. /\ lines' = <<>> /\ call.depth = 0 /\ FirstDepth = 1 /\ ~TargetShown /\ g = Target
      BY <2>2, NothingShown DEF call, g
    <3>2. Reached(lines', 1, Len(lines'), 0 + 1)  BY DEF Reached
    <3>3. PathOf(lines', Base, 1, Len(lines'), 0 + 1) = Base
      <4>1. [k \in 1..((0 + 1) - 1) |-> lines'[LastAt(lines', Len(lines'), 1 + k - 1)].name] = <<>>
        OBVIOUS
      <4> QED  BY <1>5, <4>1 DEF PathOf
    <3>4. Base = g  BY <1>5, <3>1
    <3>5. call.depth + 1 <= FirstDepth  BY <3>1
    <3> QED  BY <3>1, <3>2, <3>3, <3>4, <3>5
  <2> QED  BY <2>1, <2>2
<1>12. \A d : PathAt(Len(lines), d)' = PathOf(lines', Base, FirstDepth, Len(lines'), d)
  BY <1>3 DEF PathAt
<1>13. IsPrefix(Target, g) /\ Len(g) = Len(Target) + call.depth /\ Len(Target) \in Nat
  BY <1>5, <1>6 DEF CallPlaced, g
<1>14. Clean(command.path) => Clean(NextNode)  BY <1>6 DEF CallPlaced, NextNode, call
<1>15. ASSUME NEW c, NEW k \in 1..n, c = ChildCalls[k]
       PROVE  CallPlaced(c)'
  <2>1. /\ c.node = NextNode /\ c.name \in Names /\ c.depth = call.depth + 1
        /\ Goal(c) = Append(g, c.name) /\ Goal(c) \in DOMAIN tree
    BY <1>8, <1>15
  <2>2. \E v \in Values : <<Goal(c), v>> \in ever'
    <3>1. tree \in [DOMAIN tree -> Values]  BY <1>2, TreeFacts DEF TypeOK
    <3>2. Pairs(tree) \subseteq ever  BY <1>1, <1>2 DEF Phases
    <3>3. tree[Goal(c)] \in Values /\ <<Goal(c), tree[Goal(c)]>> \in ever
      BY <2>1, <3>1, <3>2 DEF Pairs
    <3> QED  BY <1>1, <3>3
  <2>3. c.depth # 0 /\ c.depth \in Nat  BY <1>7, <2>1
  <2>4. lines' = <<>> => c.depth <= FirstDepth'  BY <1>3, <1>11, <2>1
  <2>5. /\ Reached(lines', FirstDepth', Len(lines'), c.depth)
        /\ Resolved(c.node) = PathAt(Len(lines), c.depth)'
    BY <1>3, <1>8, <1>11, <1>12, <2>1
  <2>6. IsPrefix(Target, Goal(c)) /\ Len(Goal(c)) = Len(Target) + c.depth
    <3> DEFINE h == Append(g, c.name)
    <3>1. h \in Seq(Names) /\ IsPrefix(g, h)  BY <1>7, <2>1, PrefixOfAppend
    <3>2. Len(h) = Len(g) + 1  BY <1>7, <2>1
    <3> HIDE DEF h
    <3>3. IsPrefix(Target, h)  BY <1>5, <1>7, <1>13, <3>1, PrefixTransitive
    <3>4. Len(h) = Len(Target) + c.depth  BY <1>7, <1>13, <2>1, <3>2
    <3> QED  BY <2>1, <3>3, <3>4 DEF h
  <2>7. Clean(command.path) => Clean(c.node) /\ Clean(Joined(c.node, c.name))
    BY <1>8, <1>14, <2>1, CleanJoined
  <2> QED  BY <1>1, <1>3, <2>1, <2>2, <2>3, <2>4, <2>5, <2>6, <2>7 DEF CallPlaced
<1>16. ASSUME NEW c, NEW k \in DOMAIN pending, k > 1, c = pending[k]
       PROVE  CallPlaced(c)' /\ c.depth <= call.depth /\ c.depth \in Nat
  <2>1. CallPlaced(c)  BY <1>2, <1>16 DEF PendingPlaced
  <2>2. Len(pending) # 1  BY <1>10, <1>16
  <2>3. c.depth # 0 /\ call.depth # 0  BY <1>6, <2>1, <2>2 DEF CallPlaced
  <2>4. c.depth <= call.depth /\ c.depth \in Nat
    <3>1. call.depth >= c.depth  BY <1>1, <1>2, <1>16 DEF PendingPlaced
    <3>2. c.depth \in Nat  BY <1>2, <1>16, CallFacts
    <3> QED  BY <1>7, <3>1, <3>2
  <2>5. PathAt(Len(lines), c.depth)' = PathAt(Len(lines), c.depth)
    BY <1>1, <1>3 DEF PathAt
  <2>6. CallPlaced(c)'  BY <1>1, <1>3, <2>1, <2>3, <2>5 DEF CallPlaced
  <2> QED  BY <2>4, <2>6
<1>17. ASSUME NEW k \in DOMAIN pending' PROVE CallPlaced(pending[k])'
  <2>1. PICK c : c = pending'[k]  OBVIOUS
  <2>2. CallPlaced(c)'
    <3>1. CASE k \in 1..n /\ c = ChildCalls[k]  BY <1>15, <3>1
    <3>2. CASE k > n /\ k - n + 1 \in DOMAIN pending /\ k - n + 1 > 1 /\ c = pending[k - n + 1]
      <4> DEFINE j == k - n + 1
      <4>1. j \in DOMAIN pending /\ j > 1 /\ c = pending[j]  BY <3>2
      <4> HIDE DEF j
      <4> QED  BY <1>16, <4>1
    <3> QED  BY <1>9, <2>1, <3>1, <3>2
  <2> QED  BY <2>1, <2>2
<1>18. ASSUME NEW k \in DOMAIN pending', NEW l \in DOMAIN pending', k < l
       PROVE  pending'[k].depth >= pending'[l].depth
  <2>1. n \in Nat /\ k \in Nat /\ l \in Nat  BY <1>9
  <2> DEFINE i == k - n + 1
             j == l - n + 1
  <2>2. \/ k \in 1..n /\ pending'[k] = ChildCalls[k]
        \/ k > n /\ i \in DOMAIN pending /\ i > 1 /\ pending'[k] = pending[i]
    BY <1>9
  <2>3. \/ l \in 1..n /\ pending'[l] = ChildCalls[l]
        \/ l > n /\ j \in DOMAIN pending /\ j > 1 /\ pending'[l] = pending[j]
    BY <1>9
  <2>4. i < j  BY <1>18, <2>1
  <2> HIDE DEF i, j
  <2>5. CASE l \in 1..n /\ pending'[l] = ChildCalls[l]
    <3>1. k \in 1..n
      <4>1. k > n => k \notin 1..n /\ ~(k < l)  BY <2>1, <2>5
      <4> QED  BY <1>18, <2>2, <4>1
    <3>2. ~(k > n)  BY <2>1, <3>1
    <3>3. pending'[k] = ChildCalls[k]  BY <2>2, <3>2
    <3>4. ChildCalls[k].depth = call.depth + 1 /\ ChildCalls[l].depth = call.depth + 1
      BY <1>8, <2>5, <3>1
    <3> QED  BY <1>7, <2>5, <3>3, <3>4
  <2>6. CASE l > n /\ j \in DOMAIN pending /\ j > 1 /\ pending'[l] = pending[j]
    <3>1. pending[j].depth <= call.depth /\ pending[j].depth \in Nat  BY <1>16, <2>6
    <3>2. CASE k \in 1..n /\ pending'[k] = ChildCalls[k]
      <4>1. ChildCalls[k].depth = call.depth + 1  BY <1>8, <3>2
      <4>2. call.depth + 1 >= pending[j].depth  BY <1>7, <3>1
      <4> QED  BY <2>6, <3>2, <4>1, <4>2
    <3>3. CASE i \in DOMAIN pending /\ pending'[k] = pending[i]
      <4>1. pending[i].depth >= pending[j].depth  BY <1>2, <2>4, <2>6, <3>3 DEF PendingPlaced
      <4> QED  BY <2>6, <3>3, <4>1
    <3> QED  BY <2>2, <3>2, <3>3
  <2> QED  BY <2>3, <2>5, <2>6
<1> QED  BY <1>17, <1>18 DEF PendingPlaced

\* What leads where then: the calls for the children only to what the call led to.
LEMMA LeadsAfterNames ==
    ASSUME IInv, ReadNames, NEW n \in Seq(Names)
    PROVE  LET g == Goal(Head(pending)) IN
           /\ LeadsTo(1, n) <=> IsPrefix(g, n) /\ ~(LineShown /\ n = g)
           /\ \A i \in 1..Len(ChildCalls) :
                 LeadsTo(i, n)' <=> /\ LeadsTo(1, n) /\ Len(g) < Len(n)
                                    /\ n[Len(g) + 1] = ChildCalls[i].name
           /\ \A k \in DOMAIN pending, j \in DOMAIN pending' :
                 k > 1 /\ j = k + Len(ChildCalls) - 1 => (LeadsTo(j, n)' <=> LeadsTo(k, n))
<1> DEFINE g == Goal(Head(pending))
<1>1. Head(pending) = pending[1] /\ command' = command /\ ~LineShown'  BY NamesRead
<1>2. /\ g \in Seq(Names)
      /\ \A i \in 1..Len(ChildCalls) : /\ ChildCalls[i].name \in Names
                                       /\ Goal(ChildCalls[i]) = Append(g, ChildCalls[i].name)
  BY ChildCallsMade
<1>3. \A i \in 1..Len(ChildCalls) : i \in DOMAIN pending' /\ pending'[i] = ChildCalls[i]
  BY NothingLost
<1>4. LeadsTo(1, n) <=> IsPrefix(g, n) /\ ~(LineShown /\ n = g)  BY <1>1 DEF LeadsTo
<1> HIDE DEF g
<1>5. ASSUME NEW i \in 1..Len(ChildCalls)
      PROVE  LeadsTo(i, n)' <=> /\ LeadsTo(1, n) /\ Len(g) < Len(n)
                                /\ n[Len(g) + 1] = ChildCalls[i].name
  <2>1. LeadsTo(i, n)' <=> IsPrefix(Append(g, ChildCalls[i].name), n)
    BY <1>1, <1>2, <1>3 DEF LeadsTo
  <2>2. IsPrefix(Append(g, ChildCalls[i].name), n)
        <=> IsPrefix(g, n) /\ Len(g) < Len(n) /\ n[Len(g) + 1] = ChildCalls[i].name
    BY <1>2, AppendIsPrefix
  <2>3. Len(g) < Len(n) => n # g  BY <1>2
  <2> QED  BY <1>4, <2>1, <2>2, <2>3
<1>6. ASSUME NEW k \in DOMAIN pending, NEW j \in DOMAIN pending',
             k > 1, j = k + Len(ChildCalls) - 1
      PROVE  LeadsTo(j, n)' <=> LeadsTo(k, n)
  <2>1. pending'[j] = pending[k]  BY <1>6, NothingLost
  <2>2. k # 1  BY <1>6
  <2> QED  BY <1>1, <2>1, <2>2 DEF LeadsTo
<1> QED  BY <1>4, <1>5, <1>6 DEF g

\* So nothing is lost, and nothing will be shown twice.
LEMMA NamesKeepOnce ==
    ASSUME IInv, ReadNames
    PROVE  Once'
<1> DEFINE call == Head(pending)
           g == Goal(call)
           len == Len(ChildCalls)
<1>1. /\ command' = command /\ tree' = tree /\ always' = always /\ Executing /\ answer' = answer
      /\ lines' = lines /\ call = pending[1] /\ 1 \in DOMAIN pending
  BY NamesRead
<1>2. TypeOK /\ Phases /\ PendingPlaced /\ Once  BY DEF IInv
<1>3. SUFFICES ASSUME NEW n \in always, Wanted(n)' PROVE ShownOnce(n)' \/ ToBeShown(n)'
  BY <1>1 DEF Once
<1>4. Wanted(n) /\ (ShownOnce(n) \/ ToBeShown(n))
  <2>1. Wanted(n)  BY <1>1, <1>3, SameCommand
  <2>2. answer = "none"  BY <1>1 DEF Executing
  <2> QED  BY <1>2, <2>1, <2>2 DEF Once
<1>5. /\ n \in DOMAIN tree /\ n \in Seq(Names) /\ n # <<>> /\ DOMAIN tree \in SUBSET Nodes
      /\ IsTree(DOMAIN tree)
  <2>1. DOMAIN tree \in SUBSET Nodes /\ IsTree(DOMAIN tree)  BY <1>2, TreeFacts DEF TypeOK
  <2>2. n \in DOMAIN tree  BY <1>1, <1>2 DEF Phases
  <2>3. n \in Nodes  BY <2>1, <2>2
  <2> QED  BY <2>1, <2>2, <2>3, NodeFacts
<1>6. /\ g \in Seq(Names)
      /\ \A i, j \in 1..len : ChildCalls[i].name = ChildCalls[j].name => i = j
      /\ \A x \in Names : Append(g, x) \in DOMAIN tree =>
            \E i \in 1..len : ChildCalls[i].name = x
  BY ChildCallsMade
<1>7. /\ len \in Nat
      /\ \A i \in 1..len : i \in DOMAIN pending'
      /\ \A k \in DOMAIN pending : k > 1 => k + len - 1 \in DOMAIN pending'
  BY NothingLost
<1>8. \A k \in DOMAIN pending' : \/ k \in 1..len
                                 \/ \E j \in DOMAIN pending : j > 1 /\ k = j + len - 1
  <2> TAKE k \in DOMAIN pending'
  <2>1. k \in Nat /\ len \in Nat
        /\ (k \in 1..len \/ (k - len + 1 \in DOMAIN pending /\ k - len + 1 > 1))
    BY CallsAfterNames
  <2> DEFINE j == k - len + 1
  <2>2. k = j + len - 1  BY <2>1
  <2>3. k \in 1..len \/ (j \in DOMAIN pending /\ j > 1)  BY <2>1
  <2> HIDE DEF j
  <2> QED  BY <2>2, <2>3
<1>9. \A i : ShownAt(i, n)' <=> ShownAt(i, n)
  <2>1. \A i, d : PathAt(i, d)' = PathAt(i, d)  BY <1>1, SameCommand
  <2> QED  BY <1>1, <2>1 DEF ShownAt
<1>10. /\ \A i \in 1..len :
             LeadsTo(i, n)' <=> LeadsTo(1, n) /\ Len(g) < Len(n)
                                /\ n[Len(g) + 1] = ChildCalls[i].name
       /\ \A k \in DOMAIN pending, j \in DOMAIN pending' :
             k > 1 /\ j = k + len - 1 => (LeadsTo(j, n)' <=> LeadsTo(k, n))
       /\ LeadsTo(1, n) <=> IsPrefix(g, n) /\ ~(LineShown /\ n = g)
  BY <1>5, LeadsAfterNames
<1>13. DOMAIN pending \subseteq Nat  BY <1>2 DEF TypeOK
<1> HIDE DEF call, g, len
\* It was shown before: no call leads to it, so none that is new does.
<1>14. CASE ShownOnce(n)
  <2>1. \A k \in DOMAIN pending : ~LeadsTo(k, n)  BY <1>14 DEF ShownOnce
  <2>2. \A k \in DOMAIN pending' : ~LeadsTo(k, n)'
    <3> TAKE k \in DOMAIN pending'
    <3>1. CASE k \in 1..len  BY <1>1, <1>10, <2>1, <3>1
    <3>2. CASE \E j \in DOMAIN pending : j > 1 /\ k = j + len - 1  BY <1>10, <2>1, <3>2
    <3> QED  BY <1>8, <3>1, <3>2
  <2>3. \E i \in DOMAIN lines' : \A j \in DOMAIN lines' : ShownAt(j, n)' <=> j = i
    BY <1>1, <1>9, <1>14 DEF ShownOnce
  <2>4. ShownOnce(n)'  BY <2>2, <2>3 DEF ShownOnce
  <2> QED  BY <2>4
<1>15. CASE ToBeShown(n)
  <2>1. PICK k \in DOMAIN pending : \A l \in DOMAIN pending : LeadsTo(l, n) <=> l = k
    BY <1>15 DEF ToBeShown
  <2>2. \A i \in DOMAIN lines' : ~ShownAt(i, n)'  BY <1>1, <1>9, <1>15 DEF ToBeShown
  <2>3. \A j \in DOMAIN pending : j > 1 => (LeadsTo(j, n) <=> j = k)  BY <2>1
  \* A node that the call itself shows, it has shown.
  <2>5. ~(k = 1 /\ n = g)
    <3> SUFFICES ASSUME k = 1, n = g PROVE FALSE  OBVIOUS
    <3>1. ~LineShown  BY <1>10, <2>1
    <3>2. ~ShowsItself(call)  BY <3>1, NamesRead DEF call
    <3>3. ~TargetShown /\ n = Target  BY <3>2, NothingShown DEF call, g
    <3> QED  BY <1>4, <3>3 DEF Wanted
  <2>6. CASE k = 1 /\ n # g
    <3> DEFINE x == n[Len(g) + 1]
               h == Append(g, x)
    <3>1. IsPrefix(g, n) /\ Len(g) < Len(n) /\ Len(g) \in Nat /\ Len(n) \in Nat
      <4>1. IsPrefix(g, n)  BY <1>1, <1>10, <2>1, <2>6
      <4>2. Len(g) <= Len(n) /\ (Len(g) = Len(n) => g = n)  BY <1>5, <1>6, <4>1, PrefixLength
      <4>3. Len(g) \in Nat /\ Len(n) \in Nat  BY <1>5, <1>6
      <4>4. Len(g) # Len(n)  BY <2>6, <4>2
      <4> QED  BY <4>1, <4>2, <4>3, <4>4
    <3>2. x \in Names  BY <1>5, <3>1
    <3> HIDE DEF x
    <3>3. h \in DOMAIN tree
      <4>1. h \in Seq(Names) /\ h # <<>>
        <5>1. h \in Seq(Names) /\ Len(h) = Len(g) + 1 /\ Len(g) \in Nat  BY <1>6, <3>2
        <5> HIDE DEF h
        <5> QED  BY <5>1
      <4>2. IsPrefix(h, n)
        <5>1. n[Len(g) + 1] = x  BY DEF x
        <5> QED  BY <1>5, <1>6, <3>1, <3>2, <5>1, AppendIsPrefix
      <4> HIDE DEF h
      <4> QED  BY <1>5, <4>1, <4>2, AboveInTree
    <3>4. PICK i \in 1..len : ChildCalls[i].name = x  BY <1>6, <3>2, <3>3
    <3>5. i \in DOMAIN pending'  BY <1>7
    <3>6. \A l \in DOMAIN pending' : LeadsTo(l, n)' <=> l = i
      <4> TAKE l \in DOMAIN pending'
      <4>1. CASE l \in 1..len
        <5>1. LeadsTo(1, n)  BY <1>1, <2>1, <2>6
        <5>2. LeadsTo(l, n)' <=> x = ChildCalls[l].name  BY <1>10, <3>1, <4>1, <5>1 DEF x
        <5>3. x = ChildCalls[l].name <=> l = i  BY <1>6, <3>4, <4>1
        <5> QED  BY <5>2, <5>3
      <4>2. CASE l \notin 1..len
        <5>1. PICK j \in DOMAIN pending : j > 1 /\ l = j + len - 1  BY <1>8, <4>2
        <5>2. j # k  BY <1>13, <2>6, <5>1
        <5>3. ~LeadsTo(l, n)'  BY <1>10, <2>3, <5>1, <5>2
        <5> QED  BY <4>2, <5>3
      <4> QED  BY <4>1, <4>2
    <3>7. ToBeShown(n)'  BY <2>2, <3>5, <3>6 DEF ToBeShown
    <3> QED  BY <3>7
  <2>7. CASE k # 1
    <3> DEFINE i == k + len - 1
    <3>1. ~LeadsTo(1, n)  BY <1>1, <2>1, <2>7
    <3>2. k > 1
      <4>1. DOMAIN pending = 1..Len(pending)  BY <1>2 DEF TypeOK
      <4> QED  BY <2>7, <4>1
    <3>3. i \in DOMAIN pending' /\ i \notin 1..len  BY <1>7, <1>13, <3>2
    <3>4. \A l \in DOMAIN pending' : LeadsTo(l, n)' <=> l = i
      <4> TAKE l \in DOMAIN pending'
      <4>1. CASE l \in 1..len
        <5>1. ~LeadsTo(l, n)'  BY <1>10, <3>1, <4>1
        <5>2. l # i  BY <3>3, <4>1
        <5> QED  BY <5>1, <5>2
      <4>2. CASE l \notin 1..len
        <5>1. PICK j \in DOMAIN pending : j > 1 /\ l = j + len - 1  BY <1>8, <4>2
        <5>2. LeadsTo(l, n)' <=> j = k  BY <1>10, <2>3, <5>1
        <5>3. j = k <=> l = i  BY <1>7, <1>13, <5>1
        <5> QED  BY <5>2, <5>3
      <4> QED  BY <4>1, <4>2
    <3> HIDE DEF i
    <3>5. ToBeShown(n)'  BY <2>2, <3>3, <3>4 DEF ToBeShown
    <3> QED  BY <3>5
  <2> QED  BY <2>5, <2>6, <2>7
<1> QED  BY <1>4, <1>14, <1>15

LEMMA ReadNamesCorrect == ASSUME IInv, ReadNames PROVE IInv'
<1>1. TypeOK /\ Phases /\ LinesPlaced /\ PendingPlaced  BY DEF IInv
<1>2. /\ Executing /\ command' = command /\ tree' = tree /\ lenient' = lenient
      /\ answer' = answer /\ used' = used /\ changes' = changes /\ ever' = ever
      /\ always' = always /\ lines' = lines /\ value' = value /\ step' = "node"
      /\ pending # <<>> /\ pending' = ChildCalls \o Tail(pending)
      /\ 1 \in DOMAIN pending /\ Head(pending) = pending[1]
      /\ step = "names" /\ command.what # "set" /\ ~LineShown'
  BY NamesRead
<1>3. TypeOK'
  <2>1. pending' \in Seq(Calls)
    <3>1. pending \in Seq(Calls)  BY <1>1 DEF TypeOK
    <3>2. Tail(pending) \in Seq(Calls)  BY <1>2, <3>1
    <3>3. ChildCalls \in Seq(Calls)  BY ChildCallsMade
    <3> QED  BY <1>2, <3>2, <3>3
  <2> QED  BY <1>1, <1>2, <2>1 DEF TypeOK
<1>4. Phases'
  <2>1. answer = "none" /\ ~Idle  BY <1>2 DEF Executing, Idle
  <2> QED  BY <1>1, <1>2, <2>1 DEF Phases, Idle, Executing, Pairs
<1>5. LinesPlaced'  BY <1>1, <1>2, LinesStay DEF Unconfirmed
<1>6. HeadOK'
  <2> SUFFICES ASSUME pending' # <<>> PROVE ShowsItself(Head(pending'))
    BY <1>2 DEF HeadOK
  <2>1. pending' \in Seq(Calls)  BY <1>3 DEF TypeOK
  <2>2. 1 \in DOMAIN pending' /\ Head(pending') = pending'[1]  BY <2>1
  <2>3. Head(pending').depth # 0
    <3> DEFINE n == Len(ChildCalls)
    <3>1. CASE 1 \in 1..n /\ pending'[1] = ChildCalls[1]
      <4>1. ChildCalls[1].depth = Head(pending).depth + 1  BY <3>1, ChildCallsMade
      <4>2. Head(pending).depth \in Nat  BY <1>1, <1>2, CallFacts
      <4> QED  BY <2>2, <3>1, <4>1, <4>2
    <3>2. ASSUME NEW j \in DOMAIN pending, j > 1, pending'[1] = pending[j]
          PROVE  pending[j].depth # 0
      <4>1. CallPlaced(pending[j])  BY <1>1 DEF PendingPlaced
      <4>2. Len(pending) # 1  BY <1>1, <3>2 DEF TypeOK
      <4> QED  BY <4>1, <4>2 DEF CallPlaced
    <3>3. \/ 1 \in 1..n /\ pending'[1] = ChildCalls[1]
          \/ /\ 1 - n + 1 \in DOMAIN pending /\ 1 - n + 1 > 1
             /\ pending'[1] = pending[1 - n + 1]
      BY <2>2, CallsAfterNames
    <3> QED  BY <2>2, <3>1, <3>2, <3>3
  <2> QED  BY <2>3 DEF ShowsItself
<1>7. RefusedWithReason'
  <2>1. answer' = "none"  BY <1>2 DEF Executing
  <2> QED  BY <2>1 DEF RefusedWithReason
<1> QED  BY <1>3, <1>4, <1>5, <1>6, <1>7, NamesKeepPendingPlaced, NamesKeepOnce DEF IInv

-----------------------------------------------------------------------------
(* The other steps                                                            *)

\* Nothing is offered for completion but the clocks.
LEMMA UsedStays ==
    ASSUME used = ClockProperties, NEW path
    PROVE  Used(path) = used
<1>1. ToSet(used) = { <<"clock", "/", "main_clock">>, <<"clock", "/", "step_size">>,
                      <<"clock", "/", "time_factor">> }
  BY DEF ClockProperties, ToSet
<1>2. \A x, y, z : <<"participant">> # <<x, y, z>>  OBVIOUS
<1>3. Participant \notin ToSet(used)  BY <1>1, <1>2 DEF Participant
<1> QED  BY <1>3 DEF Used

\* The command is answered.
LEMMA AnswerCorrect ==
    ASSUME IInv, command' = command, tree' \in Trees, lenient' = lenient, changes' = changes,
           used' = used, pending' = <<>>, step' = "node", value' = NoName,
           answer' \in {"shown", "set", "error", "notfound"}, Executing,
           \/ ever' = ever /\ always' = always
           \/ ever' = {} /\ always' = {} /\ answer' \in {"set", "error"},
           lines' = <<>> \/ (lines' = lines /\ answer' = "shown"),
           answer' = "shown" => lines' = lines /\ pending = <<>>,
           RefusedWithReason'
    PROVE  IInv'
<1>1. TypeOK /\ Phases /\ LinesPlaced /\ Once  BY DEF IInv
<1>2. TypeOK'
  <2>1. lines \in Seq(Lines)  BY <1>1 DEF TypeOK
  <2>2. <<>> \in Seq(Lines) /\ <<>> \in Seq(Calls)  OBVIOUS
  <2>3. lines' \in Seq(Lines)  BY <2>1, <2>2
  <2>4. pending' \in Seq(Calls)  BY <2>2
  <2>5. ever' \subseteq Nodes \X Values /\ always' \subseteq Nodes  BY <1>1 DEF TypeOK
  <2> QED  BY <1>1, <2>3, <2>4, <2>5 DEF TypeOK
<1>3. Phases'
  <2>1. ~Idle'  BY DEF Executing, Idle
  <2>2. ~Executing'  BY DEF Executing
  <2>3. answer' \notin {"none", "shown"} => lines' = <<>>  OBVIOUS
  <2> QED  BY <1>1, <2>1, <2>2, <2>3 DEF Phases
<1>4. PendingPlaced' /\ HeadOK'
  <2>1. DOMAIN pending' = {}  OBVIOUS
  <2> QED  BY <2>1 DEF PendingPlaced, HeadOK
<1>5. /\ Base' = Base /\ FirstDepth' = FirstDepth /\ (\A n : Wanted(n) <=> Wanted(n)')
      /\ lines' = lines => \A i, d : PathAt(i, d)' = PathAt(i, d)
  BY SameCommand
<1>6. LinesPlaced'
  <2>1. CASE lines' = <<>>
    <3>1. DOMAIN lines' = {}  BY <2>1
    <3> QED  BY <2>1, <3>1 DEF LinesPlaced
  <2>2. CASE lines' = lines /\ answer' = "shown"
    <3>1. pending = <<>> /\ ever' = ever /\ always' = always  BY <2>2
    <3> QED  BY <1>1, <2>2, <3>1, LinesStay DEF Unconfirmed, LineShown
  <2> QED  BY <2>1, <2>2
<1>7. Once'
  <2> SUFFICES ASSUME answer' = "shown", NEW n \in always', Wanted(n)' PROVE ShownOnce(n)'
    BY DEF Once
  <2>1. lines' = lines /\ pending = <<>> /\ answer = "none"  BY DEF Executing
  <2>2. DOMAIN pending = {} /\ n \in always  BY <2>1
  <2>3. ShownOnce(n)  BY <1>1, <1>5, <2>1, <2>2 DEF Once, ToBeShown
  <2>4. \A i : ShownAt(i, n)' <=> ShownAt(i, n)  BY <1>5, <2>1 DEF ShownAt
  <2>5. DOMAIN pending' = {}  OBVIOUS
  <2> QED  BY <2>1, <2>3, <2>4, <2>5 DEF ShownOnce
<1> QED  BY <1>2, <1>3, <1>4, <1>6, <1>7 DEF IInv

LEMMA ShownCorrect == ASSUME IInv, Shown PROVE IInv'
<1>1. /\ Executing /\ pending = <<>> /\ answer' = "shown" /\ command' = command /\ tree' = tree
      /\ lenient' = lenient /\ changes' = changes /\ ever' = ever /\ always' = always
      /\ pending' = <<>> /\ step' = "node" /\ value' = NoName /\ lines' = lines
      /\ used' = IF command.what = "get" THEN Used(command.path) ELSE used
  BY DEF Shown, Answer
<1>2. used' = used  BY <1>1, UsedStays DEF IInv, Phases
<1>3. tree' \in Trees  BY <1>1 DEF IInv, TypeOK
<1>4. RefusedWithReason'  BY <1>1 DEF RefusedWithReason
<1> QED  BY <1>1, <1>2, <1>3, <1>4, AnswerCorrect

\* The library does not have the node of a call: it is the node asked for, or it was there
\* when the call above it listed its children.
LEMMA NotFoundCorrect == ASSUME IInv, NotFound PROVE IInv'
<1> DEFINE call == Head(pending)
           g == Goal(call)
           s == Resolved(call.node)
<1>1. /\ pending # <<>> /\ answer' = "notfound" /\ command' = command /\ tree' = tree
      /\ lenient' = lenient /\ changes' = changes /\ ever' = ever /\ always' = always
      /\ used' = used /\ pending' = <<>> /\ lines' = <<>> /\ step' = "node" /\ value' = NoName
  BY DEF NotFound, Answer, Calling
<1>2. ~Found(call.node) \/ ~Found(Joined(call.node, call.name))
  BY DEF NotFound, Current
<1>3. TypeOK /\ Phases /\ PendingPlaced  BY DEF IInv
<1>4. Executing /\ call = pending[1] /\ 1 \in DOMAIN pending  BY <1>1, CallingFacts
<1>5. /\ s \in Seq(Names) /\ g \in Seq(Names)
      /\ g = IF call.name = NoName THEN s ELSE Append(s, call.name)
      /\ call.name # NoName => call.name \in Names
  <2>1. /\ s \in Seq(Names) /\ g \in Seq(Names) /\ call \in Calls /\ call.node \in Seq(Tokens)
    BY <1>3, <1>4, CallFacts
  <2>2. call.name \in Names \cup {NoName}  BY <2>1 DEF Calls
  <2> QED  BY <2>1, <2>2, GoalOfJoined DEF Goal
<1>6. CallPlaced(call)  BY <1>3, <1>4 DEF PendingPlaced
<1> HIDE DEF call
<1>7. /\ Target' = Target  BY <1>1, SameCommand
<1>8. RefusedWithReason'
  <2> SUFFICES ASSUME Clean(command.path), Target \in always \cup {<<>>}
               PROVE  \E pair \in ever : pair[1] \notin always /\ IsPrefix(Target, pair[1])
    BY <1>1, <1>7 DEF RefusedWithReason
  <2>1. Clean(call.node) /\ Clean(Joined(call.node, call.name))  BY <1>6 DEF CallPlaced
  <2>2. ~InTree(s) \/ ~InTree(g)  BY <1>2, <2>1 DEF Found, Goal
  <2> HIDE DEF g, s
  <2>3. ~InTree(g)
    <3>1. SUFFICES ASSUME call.name # NoName, ~InTree(s), g \in DOMAIN tree PROVE FALSE
      <4>1. g = <<>> => call.name = NoName
        <5>1. call.name # NoName => g = Append(s, call.name)  BY <1>5
        <5> QED  BY <1>5, <5>1
      <4> QED  BY <1>5, <2>2, <4>1 DEF InTree
    <3>2. DOMAIN tree \in SUBSET Nodes /\ IsTree(DOMAIN tree)  BY <1>3, TreeFacts DEF TypeOK
    <3>3. IsPrefix(s, g)
      <4>1. call.name \in Names /\ s \in Seq(Names) /\ g = Append(s, call.name)  BY <1>5, <3>1
      <4>2. IsPrefix(s, Append(s, call.name))  BY <4>1, PrefixOfAppend
      <4> QED  BY <4>1, <4>2
    <3>4. s # <<>> /\ s \notin DOMAIN tree  BY <3>1 DEF InTree
    <3> QED  BY <1>5, <3>1, <3>2, <3>3, <3>4, AboveInTree
  <2>4. g # <<>> /\ g \notin always  BY <1>1, <1>3, <1>4, <2>3 DEF InTree, Phases
  <2>5. call.depth # 0
    <3> SUFFICES ASSUME call.depth = 0 PROVE FALSE  OBVIOUS
    <3>1. call = FirstCall  BY <1>6 DEF CallPlaced
    <3>2. command.path \in Paths  BY <1>3 DEF TypeOK
    <3>3. g = Target  BY <3>1, <3>2, TargetFacts DEF g
    <3> QED  BY <2>4, <3>3
  <2>6. PICK v \in Values : <<g, v>> \in ever  BY <1>6, <2>5 DEF CallPlaced, g
  <2>7. IsPrefix(Target, g)  BY <1>6 DEF CallPlaced, g
  <2>8. <<g, v>>[1] \notin always /\ IsPrefix(Target, <<g, v>>[1])  BY <2>4, <2>7
  <2> QED  BY <2>6, <2>8
<1>9. tree' \in Trees  BY <1>1, <1>3 DEF TypeOK
<1> QED  BY <1>1, <1>4, <1>8, <1>9, AnswerCorrect

LEMMA CallFailsCorrect == ASSUME IInv, CallFails PROVE IInv'
<1>1. /\ pending # <<>> /\ answer' = "error" /\ command' = command /\ tree' = tree
      /\ lenient' = lenient /\ changes' = changes /\ ever' = {} /\ always' = {}
      /\ used' = used /\ pending' = <<>> /\ lines' = <<>> /\ step' = "node" /\ value' = NoName
  BY DEF CallFails, Answer
<1>2. Executing /\ TypeOK  BY <1>1, CallingFacts
<1>3. tree' \in Trees  BY <1>1, <1>2 DEF TypeOK
<1>4. RefusedWithReason'  BY <1>1 DEF RefusedWithReason
<1> QED  BY <1>1, <1>2, <1>3, <1>4, AnswerCorrect

\* A value that changes leaves a tree a tree.
LEMMA ValueChanged ==
    ASSUME tree \in Trees, NEW n \in DOMAIN tree, NEW v \in Values
    PROVE  [tree EXCEPT ![n] = v] \in Trees
<1>1. /\ tree \in [DOMAIN tree -> Values] /\ DOMAIN tree \in SUBSET Nodes /\ IsTree(DOMAIN tree)
      /\ Cardinality(DOMAIN tree) <= MaxNodes
  BY TreeFacts, BoundsAssumption
<1>2. [tree EXCEPT ![n] = v] \in [DOMAIN tree -> Values]  BY <1>1
<1> QED  BY <1>1, <1>2, IsTreeWithValues

LEMMA WritePropertyCorrect == ASSUME IInv, WriteProperty PROVE IInv'
<1>1. /\ pending # <<>> /\ step = "set" /\ command' = command /\ lenient' = lenient
      /\ \/ PropertyNamed \in DOMAIN tree /\ tree' = [tree EXCEPT ![PropertyNamed] = value]
         \/ tree' = tree
      /\ answer' \in {"set", "error"} /\ (used' = used \/ used' = Used(command.path))
      /\ pending' = <<>> /\ step' = "node" /\ value' = NoName /\ lines' = lines
      /\ changes' = changes /\ ever' = {} /\ always' = {}
  BY DEF WriteProperty, Calling, Answer
<1>2. Executing /\ TypeOK /\ HeadOK  BY <1>1, CallingFacts
<1>3. command.what = "set" /\ value \in Values /\ lines = <<>>  BY <1>1, <1>2 DEF HeadOK
<1>4. used' = used  BY <1>1, UsedStays DEF IInv, Phases
<1>5. tree' \in Trees  BY <1>1, <1>2, <1>3, ValueChanged DEF TypeOK
<1>6. RefusedWithReason'  BY <1>1 DEF RefusedWithReason
<1> QED  BY <1>1, <1>2, <1>3, <1>4, <1>5, <1>6, AnswerCorrect

LEMMA PromptCorrect == ASSUME IInv, Prompt PROVE IInv'
<1>1. /\ answer # "none" /\ command' = NoCommand /\ answer' = "none" /\ lines' = <<>>
      /\ ever' = {} /\ always' = {} /\ tree' = tree /\ lenient' = lenient
      /\ pending' = pending /\ used' = used /\ changes' = changes
      /\ step' = step /\ value' = value
  BY DEF Prompt
<1>2. TypeOK /\ Phases  BY DEF IInv
<1>3. pending = <<>> /\ used = ClockProperties  BY <1>1, <1>2 DEF Phases
<1>4. TypeOK'
  <2>1. <<>> \in Paths  BY BoundsAssumption DEF Paths, BoundedSeq, SeqOf
  <2>2. command' \in [what : Commands \cup {"none"}, path : Paths]  BY <1>1, <2>1 DEF NoCommand
  <2> QED  BY <1>1, <1>2, <2>2 DEF TypeOK
<1>5. Phases'  BY <1>1, <1>3 DEF Phases, Idle, Executing
<1>6. DOMAIN pending' = {} /\ DOMAIN lines' = {}  BY <1>1, <1>3
<1>7. PendingPlaced' /\ LinesPlaced' /\ HeadOK'
  BY <1>1, <1>3, <1>6 DEF PendingPlaced, LinesPlaced, HeadOK
<1>8. Once' /\ RefusedWithReason'  BY <1>1 DEF Once, RefusedWithReason
<1> QED  BY <1>4, <1>5, <1>7, <1>8 DEF IInv

LEMMA FrontFacts ==
    ASSUME NEW n \in Seq(Names), n # <<>>
    PROVE  /\ Front(n) \in Seq(Names) /\ IsPrefix(Front(n), n)
           /\ Len(n) > 1 => Front(n) # <<>>
<1>1. Len(n) \in Nat /\ Len(n) > 0  OBVIOUS
<1> DEFINE f == SubSeq(n, 1, Len(n) - 1)
<1>2. f \in Seq(Names) /\ Len(f) = Len(n) - 1 /\ \A i \in 1..Len(f) : f[i] = n[i]
  <2>1. ASSUME NEW k \in 0..Len(n)
        PROVE  /\ SubSeq(n, 1, k) \in Seq(Names) /\ Len(SubSeq(n, 1, k)) = k
               /\ \A i \in 1..k : SubSeq(n, 1, k)[i] = n[i]
    OBVIOUS
  <2>2. Len(n) - 1 \in 0..Len(n)  BY <1>1
  <2> QED  BY <2>1, <2>2
<1> HIDE DEF f
<1>3. IsPrefix(f, n)  BY <1>1, <1>2, PrefixElements
<1>4. Len(n) > 1 => f # <<>>  BY <1>1, <1>2
<1> QED  BY <1>2, <1>3, <1>4 DEF Front, f

\* Others leave a tree behind: a property goes with all below it, and comes where there is
\* one above it.
LEMMA ElsewhereKeepsTree == ASSUME tree \in Trees, Elsewhere PROVE tree' \in Trees
<1>1. /\ tree \in [DOMAIN tree -> Values] /\ DOMAIN tree \in SUBSET Nodes /\ IsTree(DOMAIN tree)
      /\ IsFiniteSet(DOMAIN tree) /\ Cardinality(DOMAIN tree) \in 0..MaxNodes
  BY TreeFacts
<1>2. \A k \in DOMAIN tree : k \in Seq(Names) /\ k # <<>> /\ (Len(k) > 1 => Front(k) \in DOMAIN tree)
  BY <1>1, NodeFacts DEF IsTree
<1>3. CASE \E n \in DOMAIN tree : \E v \in Values \ {tree[n]} : tree' = [tree EXCEPT ![n] = v]
  BY <1>3, ValueChanged
<1>4. CASE \E n \in DOMAIN tree : tree' = [m \in {k \in DOMAIN tree : ~IsPrefix(n, k)} |-> tree[m]]
  <2>1. PICK n \in DOMAIN tree : tree' = [m \in {k \in DOMAIN tree : ~IsPrefix(n, k)} |-> tree[m]]
    BY <1>4
  <2> DEFINE rest == {k \in DOMAIN tree : ~IsPrefix(n, k)}
             t == [m \in rest |-> tree[m]]
  <2>2. rest \in SUBSET Nodes /\ t \in [rest -> Values]  BY <1>1
  <2>3. IsFiniteSet(rest) /\ Cardinality(rest) <= Cardinality(DOMAIN tree)
    <3>1. rest \in SUBSET DOMAIN tree  OBVIOUS
    <3> HIDE DEF rest
    <3> QED  BY <1>1, <3>1, FS_Subset
  <2>4. Cardinality(rest) <= MaxNodes
    <3>1. Cardinality(rest) \in Nat  BY <2>3, FS_CardinalityType
    <3> QED  BY <1>1, <2>3, <3>1, BoundsAssumption
  <2>5. ASSUME NEW k \in rest, Len(k) > 1 PROVE Front(k) \in rest
    <3>1. k \in Seq(Names) /\ n \in Seq(Names) /\ k # <<>> /\ Front(k) \in DOMAIN tree
      BY <1>2, <2>5
    <3>2. Front(k) \in Seq(Names) /\ IsPrefix(Front(k), k)  BY <3>1, FrontFacts
    <3>3. IsPrefix(n, Front(k)) => IsPrefix(n, k)  BY <3>1, <3>2, PrefixTransitive
    <3> QED  BY <3>1, <3>3
  <2>6. IsTree(rest)  BY <2>3, <2>5 DEF IsTree
  <2> HIDE DEF rest
  <2> QED  BY <2>1, <2>2, <2>4, <2>6, IsTreeWithValues DEF rest
<1>5. CASE \E n \in Nodes \ DOMAIN tree, v \in Values :
             /\ InTree(Front(n)) /\ Cardinality(DOMAIN tree) < MaxNodes
             /\ tree' = [m \in DOMAIN tree \cup {n} |-> IF m = n THEN v ELSE tree[m]]
  <2>1. PICK n \in Nodes \ DOMAIN tree, v \in Values :
             /\ InTree(Front(n)) /\ Cardinality(DOMAIN tree) < MaxNodes
             /\ tree' = [m \in DOMAIN tree \cup {n} |-> IF m = n THEN v ELSE tree[m]]
    BY <1>5
  <2> DEFINE more == DOMAIN tree \cup {n}
             t == [m \in more |-> IF m = n THEN v ELSE tree[m]]
  <2>2. more \in SUBSET Nodes /\ t \in [more -> Values]  BY <1>1
  <2>3. IsFiniteSet(more) /\ Cardinality(more) = Cardinality(DOMAIN tree) + 1
    <3>1. n \notin DOMAIN tree  OBVIOUS
    <3> QED  BY <1>1, <3>1, FS_AddElement
  <2>4. Cardinality(more) <= MaxNodes  BY <1>1, <2>1, <2>3, BoundsAssumption
  <2>5. ASSUME NEW k \in more, Len(k) > 1 PROVE Front(k) \in more
    <3>1. CASE k \in DOMAIN tree  BY <1>2, <2>5, <3>1
    <3>2. CASE k = n
      <4>1. n \in Seq(Names) /\ n # <<>>  BY NodeFacts
      <4>2. Front(n) # <<>>  BY <2>5, <3>2, <4>1, FrontFacts
      <4> QED  BY <2>1, <3>2, <4>2 DEF InTree
    <3> QED  BY <3>1, <3>2
  <2>6. IsTree(more)  BY <2>3, <2>5 DEF IsTree
  <2> HIDE DEF more
  <2> QED  BY <2>1, <2>2, <2>4, <2>6, IsTreeWithValues DEF more
<1> QED  BY <1>3, <1>4, <1>5 DEF Elsewhere

\* What there was is remembered, and what is no longer there all the time is let go.
LEMMA ElsewhereCorrect == ASSUME IInv, Elsewhere PROVE IInv'
<1>1. /\ changes' = changes + 1 /\ changes < MaxChanges
      /\ ever' = IF Idle THEN ever ELSE ever \cup Pairs(tree')
      /\ always' = IF Idle THEN always ELSE always \cap DOMAIN tree'
      /\ command' = command /\ pending' = pending /\ lines' = lines /\ answer' = answer
      /\ step' = step /\ value' = value
      /\ lenient' = lenient /\ used' = used /\ (Idle \/ Executing)
  BY DEF Elsewhere, answerVars
<1>2. TypeOK /\ Phases /\ PendingPlaced /\ HeadOK /\ LinesPlaced /\ Once  BY DEF IInv
<1>3. tree' \in Trees  BY <1>2, ElsewhereKeepsTree DEF TypeOK
<1>4. Pairs(tree') \subseteq Nodes \X Values
  <2>1. tree' \in [DOMAIN tree' -> Values] /\ DOMAIN tree' \subseteq Nodes
    <3>1. PICK nodes \in {s \in UNION {kSubset(k, Nodes) : k \in 0..MaxNodes} : IsTree(s)} :
             tree' \in [nodes -> Values]
      BY <1>3 DEF Trees
    <3>2. DOMAIN tree' = nodes  BY <3>1
    <3>3. nodes \subseteq Nodes  BY <3>1 DEF kSubset
    <3> QED  BY <3>1, <3>2, <3>3
  <2> QED  BY <2>1 DEF Pairs
<1>5. ever \subseteq ever' /\ always' \subseteq always  BY <1>1
<1>6. TypeOK'
  <2>1. ever' \subseteq Nodes \X Values  BY <1>1, <1>2, <1>4 DEF TypeOK
  <2>2. always' \subseteq Nodes  BY <1>2, <1>5 DEF TypeOK
  <2>3. changes' \in 0..MaxChanges
    <3>1. changes \in 0..MaxChanges  BY <1>2 DEF TypeOK
    <3> QED  BY <1>1, <3>1, BoundsAssumption
  <2> QED  BY <1>1, <1>2, <1>3, <2>1, <2>2, <2>3 DEF TypeOK
<1>7. (Idle' <=> Idle) /\ (Executing' <=> Executing)  BY <1>1 DEF Idle, Executing
<1>8. Phases'
  <2>1. Idle => ever' = ever /\ always' = always  BY <1>1
  <2>2. Executing => ~Idle  BY DEF Executing, Idle
  <2>3. Executing => Pairs(tree') \subseteq ever' /\ always' \subseteq DOMAIN tree'
    BY <1>1, <2>2
  <2>4. Pairs(tree)' = Pairs(tree')  BY DEF Pairs
  <2>5. /\ Idle => answer = "none" /\ pending = <<>> /\ lines = <<>> /\ ever = {} /\ always = {}
        /\ answer # "none" => ~Idle /\ pending = <<>>
        /\ answer \notin {"none", "shown"} => lines = <<>>
        /\ used = ClockProperties
    BY <1>2 DEF Phases
  <2> QED  BY <1>1, <1>7, <2>1, <2>3, <2>4, <2>5 DEF Phases
<1>12. HeadOK' /\ (LineShown' <=> LineShown) /\ \A i : Unconfirmed(i)' <=> Unconfirmed(i)
  BY <1>1, <1>2, <1>5, HeadStays
<1>9. LinesPlaced'  BY <1>1, <1>2, <1>5, <1>12, LinesStay
<1>10. PendingPlaced' /\ Once'  BY <1>1, <1>2, <1>5, <1>12, CallsStay
<1>11. RefusedWithReason'
  <2>1. answer' = "none"  BY <1>1, <1>2 DEF Phases, Executing
  <2> QED  BY <2>1 DEF RefusedWithReason
<1> QED  BY <1>6, <1>8, <1>9, <1>10, <1>11, <1>12 DEF IInv

LEMMA StutteringCorrect == ASSUME IInv, UNCHANGED vars PROVE IInv'
<1>1. /\ tree' = tree /\ lenient' = lenient /\ command' = command /\ pending' = pending
      /\ lines' = lines /\ answer' = answer /\ used' = used /\ changes' = changes
      /\ ever' = ever /\ always' = always /\ step' = step /\ value' = value
  BY DEF vars, answerVars
<1>2. TypeOK'  BY <1>1 DEF IInv, TypeOK
<1>3. Phases'  BY <1>1 DEF IInv, Phases, Idle, Executing, Pairs
<1>6. HeadOK' /\ (LineShown' <=> LineShown) /\ \A i : Unconfirmed(i)' <=> Unconfirmed(i)
  BY <1>1, HeadStays DEF IInv
<1>4. LinesPlaced' /\ PendingPlaced' /\ Once'  BY <1>1, <1>6, LinesStay, CallsStay DEF IInv
<1>5. RefusedWithReason'
  <2>1. Target' = Target  BY <1>1, SameCommand
  <2> QED  BY <1>1, <2>1 DEF IInv, RefusedWithReason
<1> QED  BY <1>2, <1>3, <1>4, <1>5, <1>6 DEF IInv

-----------------------------------------------------------------------------
(* The theorems                                                               *)

LEMMA NextCorrect == IInv /\ [Next]_vars => IInv'
<1> SUFFICES ASSUME IInv, [Next]_vars PROVE IInv'  OBVIOUS
<1>1. CASE UserCommand
  <2>1. Idle  BY <1>1 DEF UserCommand
  <2>2. ASSUME NEW what \in {"names", "properties"}, List(what) PROVE IInv'
    <3>1. <<>> \in Paths  BY BoundsAssumption DEF Paths, BoundedSeq, SeqOf
    <3>2. Begin(what, <<>>, NoName)  BY <2>2 DEF List
    <3>3. what \in Commands /\ what # "set"  BY DEF Commands
    <3> QED  BY <2>1, <3>1, <3>2, <3>3, BeginCorrect
  <2>3. ASSUME NEW path \in Paths, GetProperty(path) PROVE IInv'
    <3>1. Begin("get", path, NoName) /\ "get" \in Commands  BY <2>3 DEF GetProperty, Commands
    <3> QED  BY <2>1, <3>1, BeginCorrect
  <2>4. ASSUME NEW path \in Paths, NEW v \in Values, SetProperty(path, v) PROVE IInv'
    <3>1. Begin("set", path, v) /\ "set" \in Commands  BY <2>4 DEF SetProperty, Commands
    <3> QED  BY <2>1, <3>1, BeginCorrect
  <2> QED  BY <1>1, <2>2, <2>3, <2>4 DEF UserCommand
<1>2. CASE FindNode  BY <1>2, FindNodeCorrect
<1>3. CASE ReadValue  BY <1>3, ReadValueCorrect
<1>4. CASE ReadType  BY <1>4, ReadTypeCorrect
<1>5. CASE FindChildren  BY <1>5, FindChildrenCorrect
<1>6. CASE ReadNames  BY <1>6, ReadNamesCorrect
<1>7. CASE WriteProperty  BY <1>7, WritePropertyCorrect
<1>8. CASE Shown  BY <1>8, ShownCorrect
<1>9. CASE NotFound  BY <1>9, NotFoundCorrect
<1>10. CASE CallFails  BY <1>10, CallFailsCorrect
<1>11. CASE Prompt  BY <1>11, PromptCorrect
<1>12. CASE Elsewhere  BY <1>12, ElsewhereCorrect
<1>13. CASE UNCHANGED vars  BY <1>13, StutteringCorrect
<1> QED
  BY <1>1, <1>2, <1>3, <1>4, <1>5, <1>6, <1>7, <1>8, <1>9, <1>10, <1>11, <1>12, <1>13 DEF Next

\* The invariant of the walk through the tree, for any tree and any path, with changes
\* between any two of the remote calls.
THEOREM WalkCorrect == Spec => []IInv
<1>1. Init => IInv  BY InitCorrect
<1>2. IInv /\ [Next]_vars => IInv'  BY NextCorrect
<1> QED  BY <1>1, <1>2, PTL DEF Spec

\* The answer is made of lines, what was typed is a path, and the properties are a tree.
THEOREM TypeCorrect == Spec => []TypeOK
<1>1. IInv => TypeOK  BY DEF IInv
<1> QED  BY <1>1, WalkCorrect, PTL

\* The reader of an answer finds the node of a line where the walk had it.
LEMMA NodeOfLine ==
    ASSUME IInv, NEW i \in DOMAIN lines
    PROVE  LineNode(i) = PathAt(i, lines[i].depth + 1)
<1>1. TypeOK /\ LinesPlaced  BY DEF IInv
<1>2. lines \in Seq(Lines) /\ command.path \in Paths  BY <1>1 DEF TypeOK
<1>3. lines[1].depth = FirstDepth  BY <1>1, <1>2 DEF LinesPlaced
<1>4. lines[i].depth \in Nat
  <2>1. lines[i] \in Lines  BY <1>2
  <2> QED  BY <2>1 DEF Lines
<1>5. FirstDepth \in Nat  BY <1>2, TargetFacts
<1>6. lines[i].depth - FirstDepth + 1 = (lines[i].depth + 1) - FirstDepth  BY <1>4, <1>5
<1>7. LineNode(i) = Base \o [k \in 1..(lines[i].depth - FirstDepth + 1) |->
                                lines[LastAt(lines, i, FirstDepth + k - 1)].name]
  BY <1>3 DEF LineNode, Base, LastAt
<1> QED  BY <1>6, <1>7 DEF PathAt, PathOf

\* However the properties change while they are read: each that was there all the time is
\* shown once, at its place, nothing else is, and a command is refused for a reason.
THEOREM PropertiesAreNotLeftOut == Spec => []NothingIsLeftOut
<1>1. ASSUME IInv PROVE NothingIsLeftOut
  <2>1. TypeOK /\ Phases /\ LinesPlaced /\ Once /\ RefusedWithReason  BY <1>1 DEF IInv
  <2>2. ASSUME Read, NEW n \in always, Wanted(n)
        PROVE  Cardinality({i \in DOMAIN lines : LineNode(i) = n}) = 1
    <3>1. answer = "shown" /\ pending = <<>>  BY <2>1, <2>2 DEF Read, Phases
    <3>2. ShownOnce(n)  BY <2>1, <2>2, <3>1 DEF Once, ToBeShown
    <3>3. PICK i \in DOMAIN lines : \A j \in DOMAIN lines : ShownAt(j, n) <=> j = i
      BY <3>2 DEF ShownOnce
    <3>4. \A j \in DOMAIN lines : LineNode(j) = n <=> j = i
      BY <1>1, <3>3, NodeOfLine DEF ShownAt
    <3>5. {j \in DOMAIN lines : LineNode(j) = n} = {i}  BY <3>4
    <3>6. Cardinality({i}) = 1  BY FS_Singleton
    <3> QED  BY <3>5, <3>6
  <2>3. ASSUME NEW i \in DOMAIN lines PROVE Wanted(LineNode(i))
    BY <1>1, <2>1, NodeOfLine DEF LinesPlaced, LineTrue
  <2> QED  BY <2>1, <2>2, <2>3 DEF NothingIsLeftOut, RefusedWithReason
<1> QED  BY <1>1, WalkCorrect, PTL

\* Every line was true at some time during the command: its property was there at one
\* time, and had the value shown at one time, or had none because it was missing.
THEOREM AnswersAreTrue == Spec => []OnlyTruthIsShown
<1>1. ASSUME IInv PROVE OnlyTruthIsShown
  <2>1. LinesPlaced /\ Phases  BY <1>1 DEF IInv
  <2> SUFFICES ASSUME Read, NEW i \in DOMAIN lines
               PROVE  /\ \E v \in Values : <<LineNode(i), v>> \in ever
                      /\ \/ command.what = "names"
                         \/ <<LineNode(i), lines[i].value>> \in ever
                         \/ lines[i].value = NoName /\ LineNode(i) \notin always
    BY DEF OnlyTruthIsShown
  <2>2. ~Unconfirmed(i)  BY <2>1 DEF Read, Phases, Unconfirmed, LineShown
  <2>3. LineTrue(i) /\ LineNode(i) = PathAt(i, lines[i].depth + 1)
    BY <1>1, <2>1, NodeOfLine DEF LinesPlaced
  <2> QED  BY <2>2, <2>3 DEF LineTrue, ValueTrue
<1> QED  BY <1>1, WalkCorrect, PTL

\* setParticipantProperty takes the path apart the way getParticipantProperty does.
LEMMA PropertySet ==
    ASSUME IInv, WriteProperty, tree' # tree
    PROVE  /\ command'.what = "set" /\ DOMAIN tree' = DOMAIN tree
           /\ \A n \in DOMAIN tree : tree'[n] # tree[n] => n = Resolved(command'.path)
<1> DEFINE path == command.path
           node == Resolved(NodeAndLeaf(path).node)
           leaf == NodeAndLeaf(path).leaf
           property == Append(node, leaf)
<1>1. /\ pending # <<>> /\ step = "set" /\ command' = command
      /\ PropertyNamed \in DOMAIN tree /\ tree' = [tree EXCEPT ![PropertyNamed] = value]
  BY DEF WriteProperty, Calling
<1>2. HeadOK /\ TypeOK  BY DEF IInv
<1>3. command.what = "set" /\ pending = <<FirstCall>>  BY <1>1, <1>2 DEF HeadOK
<1>4. PropertyNamed = property
  <2>1. Head(pending) = FirstCall  BY <1>3
  <2> QED  BY <2>1 DEF PropertyNamed, Current, FirstCall
<1>5. path \in Paths  BY <1>2 DEF TypeOK
<1>6. /\ NodeAndLeaf(path).node \in Seq(Tokens) /\ leaf \in Names \cup {NoName}
      /\ Resolved(path) = IF leaf = NoName THEN node ELSE property
  BY <1>5, GoalOfSplit
<1>7. node \in Seq(Names)  BY <1>6, ResolvedType
<1>8. property \in Seq(Names)
  <2>1. property \in Nodes  BY <1>1, <1>2, <1>4, TreeFacts DEF TypeOK
  <2> HIDE DEF property
  <2> QED  BY <2>1, NodeFacts
<1>9. leaf # NoName
  <2>1. Len(property) = Len(node) + 1 /\ property[Len(node) + 1] = leaf /\ Len(node) \in Nat
    BY <1>6, <1>7
  <2>2. Len(node) + 1 \in 1..Len(property)  BY <2>1
  <2> HIDE DEF property, node, leaf
  <2>3. leaf \in Names  BY <1>8, <2>1, <2>2
  <2> QED  BY <2>3, NamesAssumption DEF NoName
<1>10. Resolved(path) = property  BY <1>6, <1>9
<1>11. tree \in [DOMAIN tree -> Values]  BY <1>2, TreeFacts DEF TypeOK
<1> HIDE DEF property
<1>12. DOMAIN tree' = DOMAIN tree /\ \A n \in DOMAIN tree : n # property => tree'[n] = tree[n]
  BY <1>1, <1>4, <1>11
<1> QED  BY <1>1, <1>3, <1>10, <1>12

\* Nobody but setParticipantProperty and the others changes the properties, and it changes
\* the one property that the path names.
THEOREM SetChangesNamed == Spec => SetChangesThePropertyNamed
<1>1. ASSUME IInv, [Next]_vars
      PROVE  [changes' = changes /\ tree' # tree =>
                 /\ command'.what = "set"
                 /\ DOMAIN tree' = DOMAIN tree
                 /\ \A n \in DOMAIN tree : tree'[n] # tree[n] => n = Resolved(command'.path)]_vars
  <2> SUFFICES ASSUME Next, changes' = changes, tree' # tree
               PROVE  /\ command'.what = "set"
                      /\ DOMAIN tree' = DOMAIN tree
                      /\ \A n \in DOMAIN tree : tree'[n] # tree[n] => n = Resolved(command'.path)
    BY <1>1
  <2>1. ~Elsewhere
    <3>1. changes \in Nat  BY <1>1, BoundsAssumption DEF IInv, TypeOK
    <3>2. changes' # changes + 1  BY <3>1
    <3> QED  BY <3>2 DEF Elsewhere
  <2>2. ~UserCommand
    <3>1. \A what, path, v : ~Begin(what, path, v)  BY DEF Begin
    <3> QED  BY <3>1 DEF UserCommand, List, GetProperty, SetProperty
  <2>3. ~FindNode /\ ~ReadValue /\ ~ReadType /\ ~FindChildren /\ ~ReadNames
    BY DEF FindNode, ReadValue, ReadType, FindChildren, ReadNames
  <2>4. ~Shown /\ ~NotFound /\ ~CallFails /\ ~Prompt
    BY DEF Shown, NotFound, CallFails, Prompt
  <2>5. WriteProperty  BY <2>1, <2>2, <2>3, <2>4 DEF Next
  <2> QED  BY <1>1, <2>5, PropertySet
<1> QED  BY <1>1, WalkCorrect, PTL DEF Spec, SetChangesThePropertyNamed
=============================================================================
