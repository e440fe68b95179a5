----------------------- MODULE CommandLineParsingProofs -----------------------
(* Proofs about the line completion makes and the words it is read as.       *)
EXTENDS CommandLineParsing, SequenceLemmas, TLAPS

-----------------------------------------------------------------------------
(* Names and what is put on the line for them                                 *)

LEMMA CharacterFacts ==
    /\ "a" \in Characters /\ " " \in Characters /\ "\\" \in Characters
    /\ Quotes \subseteq Characters /\ "\"" \in Quotes
BY DEF Characters, Quotes

EscapedCharacter(c) == IF c \in {"\"", "\\"} THEN <<"\\", c>> ELSE <<c>>

LEMMA EscapedOfEmpty == Escaped(<<>>) = <<>>
<1>1. [i \in DOMAIN <<>> |-> IF <<>>[i] \in {"\"", "\\"} THEN <<"\\", <<>>[i]>> ELSE << <<>>[i] >>]
      = <<>>
  OBVIOUS
<1> QED  BY <1>1, FlattenOfEmpty DEF Escaped

LEMMA EscapedOfAppend ==
    ASSUME NEW name \in Seq(Characters), NEW c \in Characters
    PROVE  /\ Escaped(name) \in Seq(Characters)
           /\ EscapedCharacter(c) \in Seq(Characters)
           /\ Escaped(Append(name, c)) = Escaped(name) \o EscapedCharacter(c)
<1> DEFINE Pieces(s) == [i \in DOMAIN s |-> IF s[i] \in {"\"", "\\"} THEN <<"\\", s[i]>> ELSE <<s[i]>>]
           more == Append(name, c)
<1>1. \A e \in Characters : EscapedCharacter(e) \in Seq(Characters)
  <2>1. \A b, e \in Characters : <<b, e>> \in Seq(Characters) /\ <<e>> \in Seq(Characters)
    OBVIOUS
  <2> QED  BY <2>1, CharacterFacts, Zenon DEF EscapedCharacter
<1>2. ASSUME NEW s \in Seq(Characters)
      PROVE  /\ Pieces(s) \in Seq(Seq(Characters)) /\ Len(Pieces(s)) = Len(s)
             /\ \A i \in 1..Len(s) : Pieces(s)[i] = EscapedCharacter(s[i])
  <2>1. DOMAIN s = 1..Len(s) /\ Len(s) \in Nat /\ \A i \in 1..Len(s) : s[i] \in Characters  OBVIOUS
  <2>2. Pieces(s) = [i \in 1..Len(s) |-> EscapedCharacter(s[i])]  BY <2>1 DEF EscapedCharacter
  <2>3. \A i \in 1..Len(s) : EscapedCharacter(s[i]) \in Seq(Characters)  BY <1>1, <2>1
  <2> HIDE DEF Pieces
  <2> QED  BY <2>1, <2>2, <2>3
<1>3. /\ more \in Seq(Characters) /\ Len(more) = Len(name) + 1 /\ more[Len(name) + 1] = c
      /\ Len(name) \in Nat /\ \A i \in 1..Len(name) : more[i] = name[i]
  OBVIOUS
<1>4. Pieces(more) = Append(Pieces(name), EscapedCharacter(c))
  <2> HIDE DEF Pieces, more
  <2>1. /\ Pieces(more) \in Seq(Seq(Characters)) /\ Len(Pieces(more)) = Len(name) + 1
        /\ \A i \in 1..(Len(name) + 1) : Pieces(more)[i] = EscapedCharacter(more[i])
    BY <1>2, <1>3
  <2>2. /\ Pieces(name) \in Seq(Seq(Characters)) /\ Len(Pieces(name)) = Len(name)
        /\ \A i \in 1..Len(name) : Pieces(name)[i] = EscapedCharacter(name[i])
    BY <1>2
  <2>3. EscapedCharacter(c) \in Seq(Characters)  BY <1>1
  <2> DEFINE p == Append(Pieces(name), EscapedCharacter(c))
  <2>4. /\ p \in Seq(Seq(Characters)) /\ Len(p) = Len(name) + 1
        /\ \A i \in 1..Len(name) : p[i] = Pieces(name)[i]
        /\ p[Len(name) + 1] = EscapedCharacter(c)
    BY <2>2, <2>3
  <2> HIDE DEF p
  <2>5. \A i \in 1..(Len(name) + 1) : i \in 1..Len(name) \/ i = Len(name) + 1  BY <1>3
  <2>6. \A i \in 1..(Len(name) + 1) : Pieces(more)[i] = p[i]
    BY <1>3, <2>1, <2>2, <2>4, <2>5
  <2>7. Pieces(more) = p  BY <2>1, <2>4, <2>6
  <2> QED  BY <2>7 DEF p
<1>5. Pieces(name) \in Seq(Seq(Characters)) /\ EscapedCharacter(c) \in Seq(Characters)
  BY <1>1, <1>2
<1>6. Escaped(name) = FlattenSeq(Pieces(name)) /\ Escaped(more) = FlattenSeq(Pieces(more))
  BY DEF Escaped
<1> HIDE DEF Pieces
<1> QED  BY <1>4, <1>5, <1>6, FlattenType, FlattenOfAppend

LEMMA EscapedType == ASSUME NEW name \in Seq(Characters) PROVE Escaped(name) \in Seq(Characters)
BY CharacterFacts, EscapedOfAppend

LEMMA QuotedType ==
    ASSUME NEW name \in Seq(Characters)
    PROVE  quoteNameIfNecessary(name) \in Seq(Characters)
<1>1. Escaped(name) \in Seq(Characters)  BY EscapedType
<1>2. \A q \in Characters : <<q>> \o Escaped(name) \o <<q>> \in Seq(Characters)
  BY <1>1
<1>3. "\"" \in Characters  BY CharacterFacts
<1> QED  BY <1>1, <1>2, <1>3, Zenon DEF quoteNameIfNecessary

\* What escaping brings to the line are backslashes; none comes alone at the end, and there
\* is one, alone, before every double quote.
OnlyBackslashesMore(name) ==
    \A i \in 1..Len(Escaped(name)) :
       Escaped(name)[i] = "\\" \/ \E j \in 1..Len(name) : Escaped(name)[i] = name[j]

EndKept(name) ==
    IF name = <<>> THEN Escaped(name) = <<>>
    ELSE /\ Len(Escaped(name)) > 0
         /\ Escaped(name)[Len(Escaped(name))] = name[Len(name)]
         /\ name[Len(name)] = "\\" =>
               Len(Escaped(name)) > 1 /\ Escaped(name)[Len(Escaped(name)) - 1] = "\\"

NoBackslashAtQuote(name) == \A i \in 1..(Len(name) - 1) : ~(name[i] = "\\" /\ name[i + 1] = "\"")

QuotesTaken(name) ==
    \A i \in 1..Len(Escaped(name)) :
       Escaped(name)[i] = "\"" =>
          /\ i > 1 /\ Escaped(name)[i - 1] = "\\"
          /\ i > 2 => Escaped(name)[i - 2] # "\\"

LEMMA EscapedFacts ==
    ASSUME NEW name \in Seq(Characters)
    PROVE  /\ OnlyBackslashesMore(name) /\ EndKept(name)
           /\ NoBackslashAtQuote(name) => QuotesTaken(name)
<1> DEFINE A == {s \in Seq(Characters) : /\ OnlyBackslashesMore(s) /\ EndKept(s)
                                         /\ NoBackslashAtQuote(s) => QuotesTaken(s)}
<1>1. <<>> \in A
  <2>1. OnlyBackslashesMore(<<>>) /\ EndKept(<<>>) /\ QuotesTaken(<<>>)
    <3>1. Escaped(<<>>) = <<>> /\ 1..Len(<<>>) = {}  BY EscapedOfEmpty
    <3>2. OnlyBackslashesMore(<<>>)  BY <3>1 DEF OnlyBackslashesMore
    <3>3. QuotesTaken(<<>>)  BY <3>1 DEF QuotesTaken
    <3> QED  BY <3>1, <3>2, <3>3 DEF EndKept
  <2> QED  BY <2>1
<1>2. ASSUME NEW s \in Seq(Characters), NEW c \in Characters, s \in A
      PROVE  Append(s, c) \in A
  <2> DEFINE t == Append(s, c)
             e == Escaped(s)
             f == Escaped(t)
             n == Len(e)
  <2>1. /\ e \in Seq(Characters) /\ f = e \o EscapedCharacter(c) /\ n \in Nat
    BY EscapedOfAppend
  <2>2. /\ t \in Seq(Characters) /\ Len(t) = Len(s) + 1 /\ t[Len(s) + 1] = c /\ Len(s) \in Nat
        /\ \A i \in 1..Len(s) : t[i] = s[i]
    OBVIOUS
  <2>3. OnlyBackslashesMore(s) /\ EndKept(s) /\ (NoBackslashAtQuote(s) => QuotesTaken(s))
    BY <1>2
  <2>4. t # <<>>  BY <2>2
  <2> HIDE DEF t, e, f
  <2>5. ASSUME c \in {"\"", "\\"}
        PROVE  /\ Len(f) = n + 2 /\ f[n + 1] = "\\" /\ f[n + 2] = c
               /\ \A i \in 1..n : f[i] = e[i]
    <3>1. f = e \o <<"\\", c>>  BY <2>1, <2>5 DEF EscapedCharacter
    <3> QED  BY <2>1, <3>1
  <2>6. ASSUME c \notin {"\"", "\\"}
        PROVE  /\ Len(f) = n + 1 /\ f[n + 1] = c
               /\ \A i \in 1..n : f[i] = e[i]
    <3>1. f = e \o <<c>>  BY <2>1, <2>6 DEF EscapedCharacter
    <3> QED  BY <2>1, <3>1
  <2>7. \A i \in 1..n : e[i] = "\\" \/ \E j \in 1..Len(s) : e[i] = s[j]
    BY <2>3 DEF OnlyBackslashesMore, e
  <2>8. /\ \A i \in 1..n : e[i] = "\\" \/ \E j \in 1..Len(t) : e[i] = t[j]
        /\ \E j \in 1..Len(t) : c = t[j]
    <3>1. \A j \in 1..Len(s) : j \in 1..Len(t) /\ t[j] = s[j]  BY <2>2
    <3>2. Len(s) + 1 \in 1..Len(t)  BY <2>2
    <3> QED  BY <2>2, <2>7, <3>1, <3>2
  <2> HIDE DEF n
  <2>9. OnlyBackslashesMore(t)
    <3>1. ASSUME c \in {"\"", "\\"}, NEW i \in 1..(n + 2)
          PROVE  f[i] = "\\" \/ \E j \in 1..Len(t) : f[i] = t[j]
      <4>1. i \in 1..n \/ i = n + 1 \/ i = n + 2  BY <2>1
      <4> QED  BY <2>5, <2>8, <3>1, <4>1
    <3>2. ASSUME c \notin {"\"", "\\"}, NEW i \in 1..(n + 1)
          PROVE  f[i] = "\\" \/ \E j \in 1..Len(t) : f[i] = t[j]
      <4>1. i \in 1..n \/ i = n + 1  BY <2>1
      <4> QED  BY <2>6, <2>8, <3>2, <4>1
    <3> QED  BY <2>5, <2>6, <3>1, <3>2 DEF OnlyBackslashesMore, f
  <2>10. EndKept(t)
    <3>1. t[Len(t)] = c  BY <2>2
    <3>2. CASE c \in {"\"", "\\"}
      <4>1. Len(f) > 0 /\ f[Len(f)] = c /\ Len(f) > 1 /\ f[Len(f) - 1] = "\\"
        <5>1. n + 2 > 0 /\ n + 2 > 1 /\ (n + 2) - 1 = n + 1  BY <2>1
        <5> QED  BY <2>5, <3>2, <5>1
      <4> QED  BY <2>4, <3>1, <4>1 DEF EndKept, f
    <3>3. CASE c \notin {"\"", "\\"}
      <4>1. Len(f) > 0 /\ f[Len(f)] = c /\ c # "\\"
        <5>1. n + 1 > 0  BY <2>1
        <5> QED  BY <2>6, <3>3, <5>1
      <4> QED  BY <2>4, <3>1, <4>1 DEF EndKept, f
    <3> QED  BY <3>2, <3>3
  <2>11. ASSUME NoBackslashAtQuote(t) PROVE QuotesTaken(t)
    <3>1. NoBackslashAtQuote(s)
      <4>1. \A i \in 1..(Len(s) - 1) : /\ i \in 1..(Len(t) - 1) /\ i \in 1..Len(s)
                                       /\ i + 1 \in 1..Len(s)
        BY <2>2
      <4>2. \A i \in 1..(Len(s) - 1) : s[i] = t[i] /\ s[i + 1] = t[i + 1]  BY <2>2, <4>1
      <4> QED  BY <2>11, <4>1, <4>2 DEF NoBackslashAtQuote
    <3>2. \A i \in 1..n : e[i] = "\"" => /\ i > 1 /\ e[i - 1] = "\\"
                                         /\ i > 2 => e[i - 2] # "\\"
      BY <2>3, <3>1 DEF QuotesTaken, e, n
    <3>3. ASSUME NEW i \in 1..n, \A j \in 1..n : f[j] = e[j], f[i] = "\""
          PROVE  i > 1 /\ f[i - 1] = "\\" /\ (i > 2 => f[i - 2] # "\\")
      <4>1. e[i] = "\"" /\ i > 1 /\ e[i - 1] = "\\" /\ (i > 2 => e[i - 2] # "\\")  BY <3>2, <3>3
      <4>2. i > 1 => i - 1 \in 1..n  BY <2>1
      <4>3. i > 2 => i - 2 \in 1..n  BY <2>1
      <4> QED  BY <3>3, <4>1, <4>2, <4>3
    <3>4. CASE c \notin {"\"", "\\"}
      <4>1. \A i \in 1..(n + 1) : i \in 1..n \/ i = n + 1  BY <2>1
      <4>2. f[n + 1] # "\""  BY <2>6, <3>4
      <4>3. \A i \in 1..(n + 1) : f[i] = "\"" => i \in 1..n  BY <4>1, <4>2
      <4> QED  BY <2>6, <3>3, <3>4, <4>3 DEF QuotesTaken, f
    <3>5. CASE c = "\\"
      <4>1. \A i \in 1..(n + 2) : i \in 1..n \/ i = n + 1 \/ i = n + 2  BY <2>1
      <4>2. f[n + 1] # "\"" /\ f[n + 2] # "\""  BY <2>5, <3>5
      <4>3. \A i \in 1..(n + 2) : f[i] = "\"" => i \in 1..n  BY <4>1, <4>2
      <4> QED  BY <2>5, <3>3, <3>5, <4>3 DEF QuotesTaken, f
    <3>6. CASE c = "\""
      <4>1. \A i \in 1..(n + 2) : i \in 1..n \/ i = n + 1 \/ i = n + 2  BY <2>1
      <4>2. f[n + 1] # "\"" /\ f[(n + 2) - 1] = "\\" /\ n + 2 > 1
        <5>1. (n + 2) - 1 = n + 1 /\ n + 2 > 1  BY <2>1
        <5> QED  BY <2>5, <3>6, <5>1
      <4>3. n + 2 > 2 => f[(n + 2) - 2] # "\\"
        <5> SUFFICES ASSUME n > 0 PROVE f[n] # "\\"
          <6>1. (n + 2) - 2 = n /\ (n + 2 > 2 => n > 0)  BY <2>1
          <6> QED  BY <6>1
        <5>1. n \in 1..n  BY <2>1
        <5>2. s # <<>>
          <6>1. s = <<>> => Len(e) = 0  BY EscapedOfEmpty DEF e
          <6> QED  BY <6>1 DEF n
        <5>3. e[n] = s[Len(s)]  BY <2>3, <5>2 DEF EndKept, e, n
        <5>4. Len(s) \in 1..(Len(t) - 1) /\ Len(s) \in 1..Len(s)  BY <2>2, <5>2
        <5>5. ~(t[Len(s)] = "\\" /\ t[Len(s) + 1] = "\"")  BY <2>11, <5>4 DEF NoBackslashAtQuote
        <5>6. s[Len(s)] # "\\"  BY <2>2, <3>6, <5>4, <5>5
        <5> QED  BY <2>5, <3>6, <5>1, <5>3, <5>6
      <4>4. ASSUME NEW i \in 1..(n + 2), f[i] = "\""
            PROVE  i > 1 /\ f[i - 1] = "\\" /\ (i > 2 => f[i - 2] # "\\")
        <5>1. CASE i \in 1..n
          <6>1. \A j \in 1..n : f[j] = e[j]  BY <2>5, <3>6
          <6> QED  BY <3>3, <4>4, <5>1, <6>1
        <5>2. CASE i = n + 2  BY <4>2, <4>3, <5>2
        <5> QED  BY <4>1, <4>2, <4>4, <5>1, <5>2
      <4> QED  BY <2>5, <3>6, <4>4 DEF QuotesTaken, f
    <3> QED  BY <3>4, <3>5, <3>6
  <2> QED  BY <2>2, <2>9, <2>10, <2>11 DEF t
<1>3. \A s \in Seq(Characters) : s \in A
  <2> HIDE DEF A
  <2> QED  BY <1>1, <1>2, SequenceInduction
<1> QED  BY <1>3

-----------------------------------------------------------------------------
(* unEscape takes back what quoteNameIfNecessary escapes                      *)

\* Which characters a backslash before them escapes.
EscapedIn(word) ==
    LET escaped[i \in DOMAIN word] == i > 1 /\ word[i - 1] = "\\" /\ ~escaped[i - 1]
    IN  escaped

LEMMA EscapedInFacts ==
    ASSUME NEW word \in Seq(Characters)
    PROVE  \A i \in 1..Len(word) :
              EscapedIn(word)[i] <=> i > 1 /\ word[i - 1] = "\\" /\ ~EscapedIn(word)[i - 1]
<1> DEFINE n == Len(word)
           Step(i, b) == i > 1 /\ word[i - 1] = "\\" /\ ~b
           step == [x \in (1..n) \X BOOLEAN |-> Step(x[1], x[2])]
<1>1. n \in Nat /\ DOMAIN word = 1..n  OBVIOUS
<1>2. FALSE \in BOOLEAN /\ step \in [(1..n) \X BOOLEAN -> BOOLEAN]
  <2>1. \A x \in (1..n) \X BOOLEAN : Step(x[1], x[2]) \in BOOLEAN  OBVIOUS
  <2> HIDE DEF Step
  <2> QED  BY <2>1
<1>3. PICK g \in [0..n -> BOOLEAN] : Follows(g, FALSE, n, step)
  <2> HIDE DEF step, n
  <2> QED  BY <1>1, <1>2, RecursionExists
<1> DEFINE h == [i \in 1..n |-> g[i]]
<1>4. ASSUME NEW i \in 1..n PROVE h[i] = Step(i, h[i - 1])
  <2>1. i - 1 \in 0..n /\ g[i - 1] \in BOOLEAN /\ i \in 0..n  BY <1>1, <1>3
  <2>2. g[i] = step[<<i, g[i - 1]>>]  BY <1>3 DEF Follows
  <2>3. g[i] = Step(i, g[i - 1])
    <3>1. <<i, g[i - 1]>> \in (1..n) \X BOOLEAN  BY <2>1
    <3> HIDE DEF Step
    <3> QED  BY <2>2, <3>1
  <2>4. CASE i > 1
    <3>1. i - 1 \in 1..n  BY <1>1, <2>4
    <3>2. h[i - 1] = g[i - 1] /\ h[i] = g[i]  BY <3>1
    <3> HIDE DEF h, Step
    <3> QED  BY <2>3, <3>2
  <2>5. CASE ~(i > 1)
    <3>1. h[i] = g[i]  OBVIOUS
    <3>2. Step(i, g[i - 1]) = FALSE /\ Step(i, h[i - 1]) = FALSE  BY <2>5
    <3> HIDE DEF h, Step
    <3> QED  BY <2>3, <3>1, <3>2
  <2> QED  BY <2>4, <2>5
<1>5. h = [i \in DOMAIN word |-> i > 1 /\ word[i - 1] = "\\" /\ ~h[i - 1]]
  <2>1. [i \in DOMAIN word |-> i > 1 /\ word[i - 1] = "\\" /\ ~h[i - 1]]
        = [i \in 1..n |-> Step(i, h[i - 1])]
    BY <1>1
  <2>2. h = [i \in 1..n |-> h[i]]  OBVIOUS
  <2>3. [i \in 1..n |-> h[i]] = [i \in 1..n |-> Step(i, h[i - 1])]
    <3> HIDE DEF h, Step
    <3> QED  BY <1>4
  <2> QED  BY <2>1, <2>2, <2>3
<1> HIDE DEF h
<1>6. EscapedIn(word) = [i \in DOMAIN word |-> /\ i > 1 /\ word[i - 1] = "\\"
                                               /\ ~EscapedIn(word)[i - 1]]
  BY <1>5 DEF EscapedIn
<1> DEFINE e == EscapedIn(word)
<1>7. e = [i \in DOMAIN word |-> i > 1 /\ word[i - 1] = "\\" /\ ~e[i - 1]]  BY <1>6
<1> HIDE DEF e
<1>8. \A i \in 1..n : e[i] = (i > 1 /\ word[i - 1] = "\\" /\ ~e[i - 1])  BY <1>1, <1>7, Zenon
<1> QED  BY <1>8 DEF e

\* What is appended escapes nothing before it.
LEMMA EscapedInMore ==
    ASSUME NEW w \in Seq(Characters), NEW c \in Characters
    PROVE  \A i \in 1..Len(w) : EscapedIn(Append(w, c))[i] <=> EscapedIn(w)[i]
<1> DEFINE t == Append(w, c)
           S == {i \in Nat : i \in 1..Len(w) => (EscapedIn(t)[i] <=> EscapedIn(w)[i])}
<1>1. /\ t \in Seq(Characters) /\ Len(t) = Len(w) + 1 /\ Len(w) \in Nat
      /\ \A i \in 1..Len(w) : t[i] = w[i]
  OBVIOUS
<1> HIDE DEF t
<1>2. 0 \in S  OBVIOUS
<1>3. ASSUME NEW i \in Nat, i \in S PROVE i + 1 \in S
  <2> SUFFICES ASSUME i + 1 \in 1..Len(w) PROVE EscapedIn(t)[i + 1] <=> EscapedIn(w)[i + 1]
    OBVIOUS
  <2> DEFINE j == i + 1
  <2>1. j \in 1..Len(w) /\ j \in 1..Len(t) /\ j - 1 = i /\ (j > 1 => i \in 1..Len(w))
    BY <1>1
  <2> HIDE DEF j
  <2>2. EscapedIn(t)[j] <=> j > 1 /\ t[j - 1] = "\\" /\ ~EscapedIn(t)[j - 1]
    BY <1>1, <2>1, EscapedInFacts
  <2>3. EscapedIn(w)[j] <=> j > 1 /\ w[j - 1] = "\\" /\ ~EscapedIn(w)[j - 1]
    BY <2>1, EscapedInFacts
  <2>4. j > 1 => t[i] = w[i] /\ (EscapedIn(t)[i] <=> EscapedIn(w)[i])  BY <1>1, <1>3, <2>1
  <2>5. EscapedIn(t)[j] <=> EscapedIn(w)[j]  BY <2>1, <2>2, <2>3, <2>4
  <2> QED  BY <2>5 DEF j
<1>4. \A i \in Nat : i \in S
  <2> HIDE DEF S
  <2> QED  BY <1>2, <1>3, Induction
<1> QED  BY <1>1, <1>4 DEF t

Piece(w, i) == IF w[i] # "\\" \/ EscapedIn(w)[i] \/ i = Len(w) THEN <<w[i]>> ELSE <<>>
Pieces(w) == [i \in DOMAIN w |-> Piece(w, i)]

\* Nothing that follows is escaped by the end of the word.
Complete(w) == w # <<>> => (w[Len(w)] = "\\" => EscapedIn(w)[Len(w)])

LEMMA unEscapeInPieces ==
    ASSUME NEW w \in Seq(Characters)
    PROVE  /\ unEscape(w) = FlattenSeq(Pieces(w))
           /\ Pieces(w) \in Seq(Seq(Characters)) /\ Len(Pieces(w)) = Len(w)
           /\ \A i \in 1..Len(w) : Pieces(w)[i] = Piece(w, i)
           /\ unEscape(w) \in Seq(Characters)
<1>1. DOMAIN w = 1..Len(w) /\ Len(w) \in Nat /\ \A i \in 1..Len(w) : w[i] \in Characters  OBVIOUS
<1>2. unEscape(w) = FlattenSeq(Pieces(w))  BY DEF unEscape, Pieces, Piece, EscapedIn
<1>3. \A i \in 1..Len(w) : Piece(w, i) \in Seq(Characters)
  <2>1. \A i \in 1..Len(w) : <<w[i]>> \in Seq(Characters) /\ <<>> \in Seq(Characters)  BY <1>1
  <2> QED  BY <2>1, Zenon DEF Piece
<1>4. Pieces(w) \in Seq(Seq(Characters)) /\ Len(Pieces(w)) = Len(w)  BY <1>1, <1>3 DEF Pieces
<1>5. \A i \in 1..Len(w) : Pieces(w)[i] = Piece(w, i)  BY <1>1 DEF Pieces
<1> QED  BY <1>2, <1>4, <1>5, FlattenType

\* One character more, which no backslash escapes and which is none.
LEMMA unEscapeOfCharacter ==
    ASSUME NEW w \in Seq(Characters), Complete(w), NEW c \in Characters, c # "\\"
    PROVE  Complete(Append(w, c)) /\ unEscape(Append(w, c)) = Append(unEscape(w), c)
<1> DEFINE t == Append(w, c)
           n == Len(w)
<1>1. /\ t \in Seq(Characters) /\ Len(t) = n + 1 /\ n \in Nat /\ t[n + 1] = c
      /\ \A i \in 1..n : t[i] = w[i]
  OBVIOUS
<1>2. \A i \in 1..n : EscapedIn(t)[i] <=> EscapedIn(w)[i]  BY EscapedInMore
<1> HIDE DEF t
<1>3. Complete(t)  BY <1>1 DEF Complete
<1>4. ASSUME NEW i \in 1..n PROVE Piece(t, i) = Piece(w, i)
  <2>1. i # Len(t)  BY <1>1
  <2>2. i = n => w # <<>>  BY <1>1
  <2>3. i = Len(w) => (w[i] # "\\" \/ EscapedIn(w)[i])  BY <2>2 DEF Complete
  <2>4. t[i] = w[i] /\ (EscapedIn(t)[i] <=> EscapedIn(w)[i])  BY <1>1, <1>2
  <2> QED  BY <2>1, <2>3, <2>4, Zenon DEF Piece
<1>5. Piece(t, n + 1) = <<c>>  BY <1>1 DEF Piece
<1>6. Pieces(t) = Append(Pieces(w), <<c>>)
  <2>1. /\ Pieces(t) \in Seq(Seq(Characters)) /\ Len(Pieces(t)) = n + 1
        /\ \A i \in 1..(n + 1) : Pieces(t)[i] = Piece(t, i)
    BY <1>1, unEscapeInPieces
  <2>2. /\ Pieces(w) \in Seq(Seq(Characters)) /\ Len(Pieces(w)) = n
        /\ \A i \in 1..n : Pieces(w)[i] = Piece(w, i)
    BY unEscapeInPieces
  <2> DEFINE p == Append(Pieces(w), <<c>>)
  <2>3. p \in Seq(Seq(Characters)) /\ Len(p) = n + 1 /\ p[n + 1] = <<c>>
        /\ \A i \in 1..n : p[i] = Pieces(w)[i]
    <3>1. <<c>> \in Seq(Characters)  OBVIOUS
    <3> QED  BY <2>2, <3>1
  <2> HIDE DEF p
  <2>4. \A i \in 1..(n + 1) : i \in 1..n \/ i = n + 1  BY <1>1
  <2>5. \A i \in 1..(n + 1) : Pieces(t)[i] = p[i]  BY <1>4, <1>5, <2>1, <2>2, <2>3, <2>4
  <2>6. Pieces(t) = p  BY <2>1, <2>3, <2>5
  <2> QED  BY <2>6 DEF p
<1>7. unEscape(t) = unEscape(w) \o <<c>>
  <2>1. <<c>> \in Seq(Characters) /\ Pieces(w) \in Seq(Seq(Characters))  BY unEscapeInPieces
  <2>2. FlattenSeq(Append(Pieces(w), <<c>>)) = FlattenSeq(Pieces(w)) \o <<c>>
    BY <2>1, FlattenOfAppend
  <2> QED  BY <1>1, <1>6, <2>2, unEscapeInPieces
<1>8. unEscape(w) \o <<c>> = Append(unEscape(w), c)
  <2>1. unEscape(w) \in Seq(Characters)  BY unEscapeInPieces
  <2> QED  BY <2>1
<1> QED  BY <1>3, <1>7, <1>8 DEF t

\* A backslash and what it escapes.
LEMMA unEscapeOfPair ==
    ASSUME NEW w \in Seq(Characters), Complete(w), NEW c \in Characters
    PROVE  /\ Complete(w \o <<"\\", c>>)
           /\ unEscape(w \o <<"\\", c>>) = Append(unEscape(w), c)
<1> DEFINE v == Append(w, "\\")
           t == Append(v, c)
           n == Len(w)
<1>1. "\\" \in Characters  BY CharacterFacts
<1>2. /\ v \in Seq(Characters) /\ Len(v) = n + 1 /\ n \in Nat /\ v[n + 1] = "\\"
      /\ \A i \in 1..n : v[i] = w[i]
  BY <1>1
<1>3. w \o <<"\\", c>> = t  BY <1>1
<1>4. \A i \in 1..n : EscapedIn(v)[i] <=> EscapedIn(w)[i]  BY <1>1, EscapedInMore
<1> HIDE DEF v
<1>5. /\ t \in Seq(Characters) /\ Len(t) = n + 2 /\ t[n + 2] = c
      /\ \A i \in 1..(n + 1) : t[i] = v[i]
  BY <1>2
<1>6. \A i \in 1..(n + 1) : EscapedIn(t)[i] <=> EscapedIn(v)[i]  BY <1>2, EscapedInMore
<1> HIDE DEF t
<1>7. n + 1 \in 1..Len(v) /\ n + 1 \in 1..(n + 1) /\ n + 2 \in 1..Len(t) /\ (n + 2) - 1 = n + 1
      /\ (n + 1) - 1 = n /\ n + 2 > 1 /\ n + 1 # n + 2 /\ (n + 1 > 1 => n \in 1..n)
  BY <1>2, <1>5
<1>8. ~EscapedIn(v)[n + 1]
  <2>1. EscapedIn(v)[n + 1] => n + 1 > 1 /\ v[n] = "\\" /\ ~EscapedIn(v)[n]
    BY <1>2, <1>7, EscapedInFacts
  <2>2. n + 1 > 1 => (w[n] = "\\" => EscapedIn(w)[n])
    <3>1. n + 1 > 1 => w # <<>>  BY <1>2
    <3> QED  BY <3>1 DEF Complete
  <2> QED  BY <1>2, <1>4, <1>7, <2>1, <2>2
<1>9. EscapedIn(t)[n + 2]
  <2>1. EscapedIn(t)[n + 2] <=> n + 2 > 1 /\ t[n + 1] = "\\" /\ ~EscapedIn(t)[n + 1]
    BY <1>5, <1>7, EscapedInFacts
  <2> QED  BY <1>2, <1>5, <1>6, <1>7, <1>8, <2>1
<1>10. Complete(t)  BY <1>5, <1>9 DEF Complete
<1>11. ASSUME NEW i \in 1..n PROVE Piece(t, i) = Piece(w, i)
  <2>1. i # Len(t) /\ i \in 1..(n + 1)  BY <1>2, <1>5
  <2>2. i = n => w # <<>>  BY <1>2
  <2>3. i = Len(w) => (w[i] # "\\" \/ EscapedIn(w)[i])  BY <2>2 DEF Complete
  <2>4. t[i] = w[i] /\ (EscapedIn(t)[i] <=> EscapedIn(w)[i])  BY <1>2, <1>4, <1>5, <1>6, <2>1
  <2> QED  BY <2>1, <2>3, <2>4, Zenon DEF Piece
<1>12. Piece(t, n + 1) = <<>>
  <2>1. t[n + 1] = "\\" /\ ~EscapedIn(t)[n + 1] /\ n + 1 # Len(t)
    BY <1>2, <1>5, <1>6, <1>7, <1>8
  <2> QED  BY <2>1, Zenon DEF Piece
<1>13. Piece(t, n + 2) = <<c>>  BY <1>5, <1>9, Zenon DEF Piece
<1>14. Pieces(t) = Append(Append(Pieces(w), <<>>), <<c>>)
  <2>1. /\ Pieces(t) \in Seq(Seq(Characters)) /\ Len(Pieces(t)) = n + 2
        /\ \A i \in 1..(n + 2) : Pieces(t)[i] = Piece(t, i)
    BY <1>5, unEscapeInPieces
  <2>2. /\ Pieces(w) \in Seq(Seq(Characters)) /\ Len(Pieces(w)) = n
        /\ \A i \in 1..n : Pieces(w)[i] = Piece(w, i)
    BY unEscapeInPieces
  <2> DEFINE o == Append(Pieces(w), <<>>)
             p == Append(o, <<c>>)
  <2>3. <<>> \in Seq(Characters) /\ <<c>> \in Seq(Characters)  OBVIOUS
  <2>4. o \in Seq(Seq(Characters)) /\ Len(o) = n + 1 /\ o[n + 1] = <<>>
        /\ \A i \in 1..n : o[i] = Pieces(w)[i]
    BY <2>2, <2>3
  <2> HIDE DEF o
  <2>5. p \in Seq(Seq(Characters)) /\ Len(p) = n + 2 /\ p[n + 2] = <<c>>
        /\ \A i \in 1..(n + 1) : p[i] = o[i]
    BY <1>2, <2>3, <2>4
  <2> HIDE DEF p
  <2>6. \A i \in 1..(n + 2) : (i \in 1..n /\ i \in 1..(n + 1)) \/ i = n + 1 \/ i = n + 2
    BY <1>2
  <2>7. ASSUME NEW i \in 1..(n + 2) PROVE Pieces(t)[i] = p[i]
    <3>1. Pieces(t)[i] = Piece(t, i)  BY <2>1
    <3>2. CASE i \in 1..n /\ i \in 1..(n + 1)
      <4>1. p[i] = Pieces(w)[i]  BY <2>4, <2>5, <3>2
      <4> QED  BY <1>11, <2>2, <3>1, <3>2, <4>1
    <3>3. CASE i = n + 1  BY <1>7, <1>12, <2>4, <2>5, <3>1, <3>3
    <3>4. CASE i = n + 2  BY <1>13, <2>5, <3>1, <3>4
    <3> QED  BY <2>6, <3>2, <3>3, <3>4
  <2>8. Pieces(t) = p  BY <2>1, <2>5, <2>7
  <2> QED  BY <2>8 DEF o, p
<1>15. unEscape(t) = (unEscape(w) \o <<>>) \o <<c>>
  <2> DEFINE empty == <<>>
             o == Append(Pieces(w), empty)
  <2>1. /\ <<c>> \in Seq(Characters) /\ empty \in Seq(Characters)
        /\ Pieces(w) \in Seq(Seq(Characters))
    BY unEscapeInPieces
  <2>2. o \in Seq(Seq(Characters))  BY <2>1
  <2>3. FlattenSeq(Append(Pieces(w), empty)) = FlattenSeq(Pieces(w)) \o empty
    <3> HIDE DEF empty
    <3> QED  BY <2>1, FlattenOfAppend
  <2>4. FlattenSeq(Append(o, <<c>>)) = FlattenSeq(o) \o <<c>>
    <3> HIDE DEF o
    <3> QED  BY <2>1, <2>2, FlattenOfAppend
  <2>5. unEscape(t) = FlattenSeq(Pieces(t)) /\ unEscape(w) = FlattenSeq(Pieces(w))
    BY <1>5, unEscapeInPieces
  <2> QED  BY <1>14, <2>3, <2>4, <2>5
<1>16. (unEscape(w) \o <<>>) \o <<c>> = Append(unEscape(w), c)
  <2>1. unEscape(w) \in Seq(Characters)  BY unEscapeInPieces
  <2> QED  BY <2>1
<1> QED  BY <1>3, <1>10, <1>15, <1>16

LEMMA EscapedIsReadBack ==
    ASSUME NEW name \in Seq(Characters)
    PROVE  unEscape(Escaped(name)) = name
<1> DEFINE A == {s \in Seq(Characters) : Complete(Escaped(s)) /\ unEscape(Escaped(s)) = s}
<1>1. <<>> \in A
  <2>1. Complete(<<>>)  BY DEF Complete
  <2>2. unEscape(<<>>) = <<>>
    <3>1. <<>> \in Seq(Characters)  OBVIOUS
    <3>2. Pieces(<<>>) = <<>>  BY DEF Pieces
    <3> QED  BY <3>1, <3>2, unEscapeInPieces, FlattenOfEmpty
  <2> QED  BY <2>1, <2>2, EscapedOfEmpty
<1>2. ASSUME NEW s \in Seq(Characters), NEW c \in Characters, s \in A
      PROVE  Append(s, c) \in A
  <2> DEFINE e == Escaped(s)
             f == Escaped(Append(s, c))
  <2>1. Complete(e) /\ unEscape(e) = s  BY <1>2
  <2>2. e \in Seq(Characters) /\ f = e \o EscapedCharacter(c)  BY EscapedOfAppend
  <2> HIDE DEF e, f
  <2>3. CASE c \in {"\"", "\\"}
    <3>1. f = e \o <<"\\", c>>  BY <2>2, <2>3 DEF EscapedCharacter
    <3>2. Complete(f) /\ unEscape(f) = Append(s, c)  BY <2>1, <2>2, <3>1, unEscapeOfPair
    <3> QED  BY <3>2 DEF f
  <2>4. CASE c \notin {"\"", "\\"}
    <3>1. f = e \o <<c>> /\ c # "\\"  BY <2>2, <2>4 DEF EscapedCharacter
    <3>2. f = Append(e, c)  BY <2>2, <3>1
    <3>3. Complete(f) /\ unEscape(f) = Append(s, c)
      BY <2>1, <2>2, <3>1, <3>2, unEscapeOfCharacter
    <3> QED  BY <3>3 DEF f
  <2> QED  BY <2>3, <2>4
<1>3. \A s \in Seq(Characters) : s \in A
  <2> HIDE DEF A
  <2> QED  BY <1>1, <1>2, SequenceInduction
<1> QED  BY <1>3

-----------------------------------------------------------------------------
(* Where the parsing goes on                                                  *)

LEMMA SkipWhitespacesIs ==
    ASSUME line \in Seq(Characters), NEW i \in 1..(Len(line) + 1), NEW j \in i..(Len(line) + 1),
           ~IsSpace(j), \A k \in i..(j - 1) : IsSpace(k)
    PROVE  SkipWhitespaces(i) = j
<1> DEFINE T(m) == ~IsSpace(m) /\ \A k \in i..(m - 1) : IsSpace(k)
           s == SkipWhitespaces(i)
<1>1. s \in i..(Len(line) + 1) /\ T(s)
  <2>1. \E m \in i..(Len(line) + 1) : T(m)  OBVIOUS
  <2> QED  BY <2>1 DEF SkipWhitespaces
<1> HIDE DEF s
<1>2. Len(line) \in Nat  OBVIOUS
<1>3. ~(s < j)
  <2> SUFFICES ASSUME s < j PROVE FALSE  OBVIOUS
  <2>1. s \in i..(j - 1)  BY <1>1, <1>2
  <2> QED  BY <1>1, <2>1
<1>4. ~(j < s)
  <2> SUFFICES ASSUME j < s PROVE FALSE  OBVIOUS
  <2>1. j \in i..(s - 1)  BY <1>1, <1>2
  <2> QED  BY <1>1, <2>1
<1>5. s = j  BY <1>1, <1>2, <1>3, <1>4
<1> QED  BY <1>5 DEF s

LEMMA SkipWhitespacesFacts ==
    ASSUME line \in Seq(Characters), NEW i \in 1..(Len(line) + 1)
    PROVE  SkipWhitespaces(i) \in i..(Len(line) + 1) /\ ~IsSpace(SkipWhitespaces(i))
<1> DEFINE T == {m \in i..(Len(line) + 1) : ~IsSpace(m)}
<1>1. Len(line) \in Nat  OBVIOUS
<1>2. Len(line) + 1 \in T
  <2>1. Len(line) + 1 \in i..(Len(line) + 1)  BY <1>1
  <2>2. AtEnd(Len(line) + 1)  BY <1>1 DEF AtEnd
  <2>3. ~IsSpace(Len(line) + 1)  BY <2>2, Zenon DEF IsSpace
  <2> QED  BY <2>1, <2>3
<1>3. T \in SUBSET Nat /\ T # {}  BY <1>1, <1>2
<1>4. PICK j \in T : \A k \in T : j <= k
  <2> HIDE DEF T
  <2> QED  BY <1>3, LeastNatural
<1>5. ASSUME NEW k \in i..(j - 1) PROVE IsSpace(k)
  <2> SUFFICES ASSUME ~IsSpace(k) PROVE FALSE  OBVIOUS
  <2>1. k \in T /\ ~(j <= k)  BY <1>1, <1>4
  <2> QED  BY <1>4, <2>1
<1>6. SkipWhitespaces(i) = j  BY <1>4, <1>5, SkipWhitespacesIs
<1> QED  BY <1>4, <1>6

\* The character at k closes the quoted part that the one at i opens.
Closes(i, k) == AtEnd(k) \/ (line[k] = line[i] /\ ~EscapeActive(i, k))

LEMMA ClosingQuoteIs ==
    ASSUME line \in Seq(Characters), NEW i \in 1..Len(line), NEW j \in (i + 1)..(Len(line) + 1),
           Closes(i, j), \A k \in (i + 1)..(j - 1) : ~Closes(i, k)
    PROVE  ClosingQuote(i) = j
<1> DEFINE T(m) == Closes(i, m) /\ \A k \in (i + 1)..(m - 1) : ~Closes(i, k)
           s == ClosingQuote(i)
<1>1. s \in (i + 1)..(Len(line) + 1) /\ T(s)
  <2>1. \E m \in (i + 1)..(Len(line) + 1) : T(m)  OBVIOUS
  <2>2. s = CHOOSE m \in (i + 1)..(Len(line) + 1) : T(m)  BY DEF ClosingQuote, Closes
  <2> HIDE DEF s, T
  <2> QED  BY <2>1, <2>2
<1> HIDE DEF s
<1>2. Len(line) \in Nat  OBVIOUS
<1>3. ~(s < j)
  <2> SUFFICES ASSUME s < j PROVE FALSE  OBVIOUS
  <2>1. s \in (i + 1)..(j - 1)  BY <1>1, <1>2
  <2> QED  BY <1>1, <2>1
<1>4. ~(j < s)
  <2> SUFFICES ASSUME j < s PROVE FALSE  OBVIOUS
  <2>1. j \in (i + 1)..(s - 1)  BY <1>1, <1>2
  <2> QED  BY <1>1, <2>1
<1>5. s = j  BY <1>1, <1>2, <1>3, <1>4
<1> QED  BY <1>5 DEF s

LEMMA ClosingQuoteFacts ==
    ASSUME line \in Seq(Characters), NEW i \in 1..Len(line)
    PROVE  ClosingQuote(i) \in (i + 1)..(Len(line) + 1)
<1> DEFINE T == {m \in (i + 1)..(Len(line) + 1) : Closes(i, m)}
<1>1. Len(line) \in Nat  OBVIOUS
<1>2. Len(line) + 1 \in T  BY <1>1 DEF Closes, AtEnd
<1>3. T \in SUBSET Nat /\ T # {}  BY <1>1, <1>2
<1>4. PICK j \in T : \A k \in T : j <= k
  <2> HIDE DEF T
  <2> QED  BY <1>3, LeastNatural
<1>5. ASSUME NEW k \in (i + 1)..(j - 1) PROVE ~Closes(i, k)
  <2> SUFFICES ASSUME Closes(i, k) PROVE FALSE  OBVIOUS
  <2>1. k \in T /\ ~(j <= k)  BY <1>1, <1>4
  <2> QED  BY <1>4, <2>1
<1>6. ClosingQuote(i) = j  BY <1>4, <1>5, ClosingQuoteIs
<1> QED  BY <1>4, <1>6

\* The ends of the words that begin at each place, and how they depend on each other.
Ends == LET end[j \in 1..(Len(line) + 1)] ==
                IF AtEnd(j) \/ IsSpace(j) THEN j
                ELSE IF ~AtEnd(j + 1) /\ line[j + 1] \in Quotes
                     THEN end[ClosingQuote(j + 1)]
                     ELSE end[j + 1]
        IN  end

EndFrom(f, j) == IF AtEnd(j) \/ IsSpace(j) THEN j
                 ELSE IF ~AtEnd(j + 1) /\ line[j + 1] \in Quotes
                      THEN f[ClosingQuote(j + 1)]
                      ELSE f[j + 1]

\* A word that goes on ends where the rest of it does.
LEMMA EndFromRest ==
    ASSUME line \in Seq(Characters), NEW j \in 1..(Len(line) + 1)
    PROVE  \/ (AtEnd(j) \/ IsSpace(j)) /\ \A f : EndFrom(f, j) = j
           \/ \E m \in (j + 1)..(Len(line) + 1) : \A f : EndFrom(f, j) = f[m]
<1>1. Len(line) \in Nat  OBVIOUS
<1>2. CASE AtEnd(j) \/ IsSpace(j)  BY <1>2 DEF EndFrom
<1>3. CASE ~(AtEnd(j) \/ IsSpace(j)) /\ ~AtEnd(j + 1) /\ line[j + 1] \in Quotes
  <2>1. j + 1 \in 1..Len(line)  BY <1>1, <1>3 DEF AtEnd
  <2> DEFINE m == ClosingQuote(j + 1)
  <2>2. m \in (j + 1)..(Len(line) + 1)
    <3>1. m \in ((j + 1) + 1)..(Len(line) + 1)  BY <2>1, ClosingQuoteFacts
    <3> HIDE DEF m
    <3> QED  BY <1>1, <3>1
  <2>3. \A f : EndFrom(f, j) = f[m]  BY <1>3 DEF EndFrom
  <2> HIDE DEF m
  <2> QED  BY <2>2, <2>3
<1>4. CASE ~(AtEnd(j) \/ IsSpace(j)) /\ ~(~AtEnd(j + 1) /\ line[j + 1] \in Quotes)
  <2>1. j + 1 \in (j + 1)..(Len(line) + 1)  BY <1>1, <1>4 DEF AtEnd
  <2>2. \A f : EndFrom(f, j) = f[j + 1]  BY <1>4 DEF EndFrom
  <2> QED  BY <2>1, <2>2
<1> QED  BY <1>2, <1>3, <1>4

LEMMA EndsIsDefined ==
    ASSUME line \in Seq(Characters)
    PROVE  Ends = [j \in 1..(Len(line) + 1) |-> EndFrom(Ends, j)]
<1> DEFINE N == Len(line) + 1
           D == 1..N
           V == [D -> Nat]
           start == [j \in D |-> j]
           After(f) == [j \in D |-> EndFrom(f, j)]
           step == [x \in (1..(N + 1)) \X V |-> After(x[2])]
<1>1. N \in Nat /\ N + 1 \in Nat /\ N >= 1
  <2>1. Len(line) \in Nat  OBVIOUS
  <2> QED  BY <2>1
<1>2. start \in V  BY <1>1
<1>3. ASSUME NEW f \in V PROVE After(f) \in V
  <2>1. ASSUME NEW j \in D PROVE EndFrom(f, j) \in Nat
    <3>1. CASE \A g : EndFrom(g, j) = j  BY <1>1, <3>1
    <3>2. CASE \E m \in (j + 1)..(Len(line) + 1) : \A g : EndFrom(g, j) = g[m]
      <4>1. PICK m \in (j + 1)..(Len(line) + 1) : \A g : EndFrom(g, j) = g[m]  BY <3>2
      <4>2. m \in D  BY <1>1
      <4> HIDE DEF D
      <4>3. f[m] \in Nat  BY <4>2
      <4> QED  BY <4>1, <4>3
    <3> QED  BY <3>1, <3>2, EndFromRest
  <2> QED  BY <2>1
<1>4. step \in [(1..(N + 1)) \X V -> V]
  <2> HIDE DEF V, After
  <2> QED  BY <1>3
<1>5. PICK h \in [0..(N + 1) -> V] : Follows(h, start, N + 1, step)
  <2> HIDE DEF N, D, V, start, step
  <2> QED  BY <1>1, <1>2, <1>4, RecursionExists
<1>6. h[0] = start /\ \A k \in 1..(N + 1) : h[k] = After(h[k - 1])
  <2> HIDE DEF V, After, start
  <2>1. ASSUME NEW k \in 1..(N + 1) PROVE step[<<k, h[k - 1]>>] = After(h[k - 1])
    <3>1. k - 1 \in 0..(N + 1)  BY <1>1
    <3> QED  BY <3>1
  <2> HIDE DEF N, step
  <2> QED  BY <1>5, <2>1 DEF Follows
<1> DEFINE Q(k) == k <= N => \A j \in D : j > N - k => h[k + 1][j] = h[k][j]
<1>7. \A k \in Nat : Q(k)
  <2> DEFINE S == {k \in Nat : Q(k)}
  <2>1. 0 \in S  BY <1>1
  <2>2. ASSUME NEW k \in S PROVE k + 1 \in S
    <3> SUFFICES ASSUME k + 1 <= N, NEW j \in D, j > N - (k + 1)
                 PROVE  h[(k + 1) + 1][j] = h[k + 1][j]
      OBVIOUS
    <3>1. k \in Nat /\ k + 1 \in 1..(N + 1) /\ (k + 1) + 1 \in 1..(N + 1)  BY <1>1
    <3>2. h[(k + 1) + 1] = After(h[k + 1]) /\ h[k + 1] = After(h[k])
      <4> HIDE DEF After, N
      <4>1. h[(k + 1) + 1] = After(h[((k + 1) + 1) - 1]) /\ h[k + 1] = After(h[(k + 1) - 1])
        BY <1>6, <3>1
      <4>2. ((k + 1) + 1) - 1 = k + 1 /\ (k + 1) - 1 = k  BY <3>1
      <4> QED  BY <4>1, <4>2
    <3>3. h[(k + 1) + 1][j] = EndFrom(h[k + 1], j) /\ h[k + 1][j] = EndFrom(h[k], j)
      BY <3>2
    <3>4. CASE \A g : EndFrom(g, j) = j  BY <3>3, <3>4
    <3>5. CASE \E m \in (j + 1)..(Len(line) + 1) : \A g : EndFrom(g, j) = g[m]
      <4>1. PICK m \in (j + 1)..(Len(line) + 1) : \A g : EndFrom(g, j) = g[m]  BY <3>5
      <4>2. m \in D /\ m > N - k /\ k <= N  BY <1>1, <3>1
      <4>3. h[k + 1][m] = h[k][m]  BY <4>2
      <4> QED  BY <3>3, <4>1, <4>3
    <3> QED  BY <3>4, <3>5, EndFromRest
  <2> HIDE DEF S
  <2>3. S = Nat
    <3>1. S \in SUBSET Nat  BY DEF S
    <3> QED  BY <2>1, <2>2, <3>1, Induction
  <2> QED  BY <2>3 DEF S
<1>8. h[N + 1] = h[N]
  <2>1. \A j \in D : h[N + 1][j] = h[N][j]
    <3>1. Q(N)  BY <1>1, <1>7
    <3>2. \A j \in D : j > N - N  BY <1>1
    <3> QED  BY <1>1, <3>1, <3>2
  <2>2. h[N + 1] \in V /\ h[N] \in V
    <3>1. N + 1 \in 0..(N + 1) /\ N \in 0..(N + 1)  BY <1>1
    <3> HIDE DEF V, N
    <3> QED  BY <3>1
  <2> HIDE DEF D, N
  <2> QED  BY <2>1, <2>2
<1>9. h[N] = After(h[N])
  <2>1. h[N + 1] = After(h[(N + 1) - 1])  BY <1>1, <1>6
  <2>2. (N + 1) - 1 = N  BY <1>1
  <2> HIDE DEF After, N
  <2> QED  BY <1>8, <2>1, <2>2
<1> DEFINE Fits(f) == f = [j \in D |->
                             IF AtEnd(j) \/ IsSpace(j) THEN j
                             ELSE IF ~AtEnd(j + 1) /\ line[j + 1] \in Quotes
                                  THEN f[ClosingQuote(j + 1)]
                                  ELSE f[j + 1]]
<1>10. Fits(h[N])  BY <1>9 DEF EndFrom
<1>11. Ends = CHOOSE f : Fits(f)  BY DEF Ends
<1>12. Fits(Ends)
  <2> HIDE DEF Fits
  <2> QED  BY <1>10, <1>11
<1> QED  BY <1>12, Zenon DEF EndFrom

LEMMA PlainWordEndRest ==
    ASSUME line \in Seq(Characters), NEW j \in 1..(Len(line) + 1)
    PROVE  PlainWordEnd(j) = IF AtEnd(j) \/ IsSpace(j) THEN j
                             ELSE IF ~AtEnd(j + 1) /\ line[j + 1] \in Quotes
                                  THEN PlainWordEnd(ClosingQuote(j + 1))
                                  ELSE PlainWordEnd(j + 1)
<1>1. \A i : PlainWordEnd(i) = Ends[i]  BY DEF PlainWordEnd, Ends
<1>2. PlainWordEnd(j) = EndFrom(Ends, j)
  <2>1. Ends[j] = EndFrom(Ends, j)
    <3> DEFINE E(i) == EndFrom(Ends, i)
               D == 1..(Len(line) + 1)
    <3>1. Ends = [i \in D |-> E(i)]  BY EndsIsDefined
    <3> HIDE DEF E, D
    <3>2. j \in D  BY DEF D
    <3>3. Ends[j] = E(j)  BY <3>1, <3>2
    <3> QED  BY <3>3 DEF E
  <2> QED  BY <1>1, <2>1
<1> QED  BY <1>1, <1>2, Zenon DEF EndFrom

LEMMA PlainWordEndRange ==
    ASSUME line \in Seq(Characters), NEW i \in 1..(Len(line) + 1)
    PROVE  PlainWordEnd(i) \in i..(Len(line) + 1)
<1> DEFINE N == Len(line) + 1
           S == {k \in Nat : \A j \in 1..N : j >= N - k => PlainWordEnd(j) \in j..N}
<1>1. N \in Nat /\ Len(line) \in Nat  OBVIOUS
<1>2. 0 \in S
  <2> SUFFICES ASSUME NEW j \in 1..N, j >= N - 0 PROVE PlainWordEnd(j) \in j..N
    OBVIOUS
  <2>1. AtEnd(j)  BY <1>1 DEF AtEnd
  <2>2. PlainWordEnd(j) = j  BY <2>1, PlainWordEndRest, Zenon
  <2> QED  BY <1>1, <2>2
<1>3. ASSUME NEW k \in S PROVE k + 1 \in S
  <2> SUFFICES ASSUME NEW j \in 1..N, j >= N - (k + 1) PROVE PlainWordEnd(j) \in j..N
    OBVIOUS
  <2>1. CASE AtEnd(j) \/ IsSpace(j)
    <3>1. PlainWordEnd(j) = j  BY <2>1, PlainWordEndRest, Zenon
    <3> QED  BY <1>1, <3>1
  <2>2. CASE ~(AtEnd(j) \/ IsSpace(j))
    <3>1. \E m \in (j + 1)..N : PlainWordEnd(j) = PlainWordEnd(m)
      <4>1. CASE ~AtEnd(j + 1) /\ line[j + 1] \in Quotes
        <5>1. j + 1 \in 1..Len(line)  BY <1>1, <4>1 DEF AtEnd
        <5>2. ClosingQuote(j + 1) \in ((j + 1) + 1)..N  BY <5>1, ClosingQuoteFacts
        <5>3. PlainWordEnd(j) = PlainWordEnd(ClosingQuote(j + 1))
          BY <2>2, <4>1, PlainWordEndRest, Zenon
        <5>4. ClosingQuote(j + 1) \in (j + 1)..N  BY <1>1, <5>2
        <5> QED  BY <5>3, <5>4
      <4>2. CASE ~(~AtEnd(j + 1) /\ line[j + 1] \in Quotes)
        <5>1. PlainWordEnd(j) = PlainWordEnd(j + 1)
          BY <2>2, <4>2, PlainWordEndRest, Zenon
        <5>2. j + 1 \in (j + 1)..N  BY <1>1, <2>2 DEF AtEnd
        <5> QED  BY <5>1, <5>2
      <4> QED  BY <4>1, <4>2
    <3>2. PICK m \in (j + 1)..N : PlainWordEnd(j) = PlainWordEnd(m)  BY <3>1
    <3>3. k \in Nat /\ m \in 1..N /\ m >= N - k  BY <1>1
    <3>4. PlainWordEnd(m) \in m..N  BY <3>3
    <3>5. m..N \subseteq j..N  BY <1>1, <3>3
    <3> QED  BY <3>2, <3>4, <3>5
  <2> QED  BY <2>1, <2>2
<1>4. N \in S
  <2>1. S \in SUBSET Nat  OBVIOUS
  <2>2. S = Nat
    <3> HIDE DEF S
    <3> QED  BY <1>2, <1>3, <2>1, Induction
  <2> QED  BY <1>1, <2>2
<1>5. i >= N - N  BY <1>1
<1> QED  BY <1>4, <1>5

LEMMA WordAtType ==
    ASSUME line \in Seq(Characters), NEW i \in 1..Len(line)
    PROVE  WordAt(i).word \in Seq(Characters) /\ WordAt(i).next \in 1..(Len(line) + 1)
<1>1. Len(line) \in Nat  OBVIOUS
<1>2. CASE line[i] \in Quotes
  <2> DEFINE close == ClosingQuote(i)
  <2>1. close \in (i + 1)..(Len(line) + 1)  BY ClosingQuoteFacts
  <2>2. WordAt(i) = [word |-> SubSeq(line, i + 1, close - 1),
                     next |-> IF AtEnd(close) THEN close ELSE close + 1]
    BY <1>2, Zenon DEF WordAt
  <2> HIDE DEF close
  <2>3. SubSeq(line, i + 1, close - 1) \in Seq(Characters)
    <3>1. \A j \in (i + 1)..(close - 1) : j \in 1..Len(line)  BY <1>1, <2>1
    <3> QED  BY <1>1, <2>1, <3>1
  <2>4. CASE AtEnd(close)  BY <1>1, <2>1, <2>2, <2>3, <2>4
  <2>5. CASE ~AtEnd(close)
    <3>1. close + 1 \in 1..(Len(line) + 1)  BY <1>1, <2>1, <2>5 DEF AtEnd
    <3> QED  BY <2>2, <2>3, <2>5, <3>1
  <2> QED  BY <2>4, <2>5
<1>3. CASE line[i] \notin Quotes
  <2> DEFINE end == PlainWordEnd(i)
  <2>1. end \in i..(Len(line) + 1)
    <3>1. i \in 1..(Len(line) + 1)  BY <1>1
    <3> QED  BY <3>1, PlainWordEndRange
  <2>2. WordAt(i) = [word |-> SubSeq(line, i, end - 1), next |-> end]
    BY <1>3, Zenon DEF WordAt
  <2> HIDE DEF end
  <2>3. SubSeq(line, i, end - 1) \in Seq(Characters)  BY <1>1, <2>1
  <2> QED  BY <1>1, <2>1, <2>2, <2>3
<1> QED  BY <1>2, <1>3

-----------------------------------------------------------------------------
(* A word of the line is read as the name it was made of                      *)

\* The piece q stands at place p of the line, and a blank or the end of the line behind it.
Stands(p, q) == /\ p \in 1..Len(line) /\ p + Len(q) <= Len(line) + 1
                /\ \A j \in 1..Len(q) : line[p + (j - 1)] = q[j]
                /\ AtEnd(p + Len(q)) \/ IsSpace(p + Len(q))

\* In quotes: the first quote that no backslash escapes is the last character of the piece.
LEMMA QuotedWordAt ==
    ASSUME line \in Seq(Characters), NEW name \in Seq(Characters), Quotable(name),
           NeedsQuotes(name), NEW p \in Nat, Stands(p, quoteNameIfNecessary(name))
    PROVE  WordAt(p) = [word |-> Escaped(name), next |-> p + Len(quoteNameIfNecessary(name))]
<1> DEFINE e == Escaped(name)
           n == Len(e)
           q == quoteNameIfNecessary(name)
           N == Len(line)
<1>1. e \in Seq(Characters) /\ n \in Nat /\ N \in Nat  BY EscapedType
<1>2. /\ Len(q) = n + 2 /\ q[1] = "\"" /\ q[n + 2] = "\""
      /\ \A j \in 1..n : q[j + 1] = e[j]
  <2> HIDE DEF e
  <2>1. \A c : LET s == <<c>> \o e \o <<c>>
               IN  /\ Len(s) = n + 2 /\ s[1] = c /\ s[n + 2] = c
                   /\ \A j \in 1..n : s[j + 1] = e[j]
    BY <1>1
  <2>2. q = <<"\"">> \o e \o <<"\"">>  BY DEF quoteNameIfNecessary, e
  <2> HIDE DEF q, n
  <2> QED  BY <2>1, <2>2, Zenon
<1>3. EndKept(name) /\ QuotesTaken(name)
  BY EscapedFacts DEF Quotable, NoBackslashAtQuote
<1>4. /\ p \in 1..N /\ p + (n + 2) <= N + 1
      /\ \A j \in 1..(n + 2) : line[p + (j - 1)] = q[j]
  <2> HIDE DEF q, n
  <2> QED  BY <1>2 DEF Stands, q
<1> HIDE DEF q
<1>5. /\ line[p] = "\"" /\ line[p + (n + 1)] = "\""
      /\ \A j \in 1..n : line[p + j] = e[j]
  <2>1. 1 \in 1..(n + 2) /\ n + 2 \in 1..(n + 2) /\ p + (1 - 1) = p
        /\ p + ((n + 2) - 1) = p + (n + 1)
        /\ \A j \in 1..n : j + 1 \in 1..(n + 2) /\ p + ((j + 1) - 1) = p + j
    BY <1>1
  <2> HIDE DEF n, e
  <2> QED  BY <1>2, <1>4, <2>1
<1>6. Closes(p, p + (n + 1))
  <2>1. ~EscapeActive(p, p + (n + 1))
    <3> SUFFICES ASSUME (p + (n + 1)) - 1 > p, line[(p + (n + 1)) - 1] = "\\"
                 PROVE  line[(p + (n + 1)) - 2] = "\\"
      BY DEF EscapeActive
    <3>1. n \in 1..n /\ (p + (n + 1)) - 1 = p + n  BY <1>1
    <3>2. e[n] = "\\"  BY <1>5, <3>1
    <3>3. name # <<>>
      <4>1. name = <<>> => n = 0  BY EscapedOfEmpty
      <4> QED  BY <3>1, <4>1
    <3>4. n > 1 /\ e[n - 1] = "\\"  BY <1>3, <3>2, <3>3 DEF EndKept
    <3>5. n - 1 \in 1..n /\ p + (n - 1) = (p + (n + 1)) - 2  BY <1>1, <3>4
    <3>6. line[p + (n - 1)] = "\\"  BY <1>5, <3>4, <3>5
    <3> QED  BY <3>5, <3>6
  <2> QED  BY <1>5, <2>1 DEF Closes
<1>7. ASSUME NEW k \in (p + 1)..((p + (n + 1)) - 1) PROVE ~Closes(p, k)
  <2> DEFINE j == k - p
  <2>1. j \in 1..n /\ k = p + j /\ ~(k > N) /\ p \in Nat  BY <1>1, <1>4
  <2> HIDE DEF j, n, N
  <2>2. line[k] = e[j]  BY <1>5, <2>1
  <2>3. ASSUME e[j] = "\"" PROVE EscapeActive(p, k)
    <3>1. j > 1 /\ e[j - 1] = "\\" /\ (j > 2 => e[j - 2] # "\\")
      BY <1>3, <2>1, <2>3 DEF QuotesTaken, n
    <3>2. j - 1 \in 1..n /\ k - 1 = p + (j - 1) /\ k - 1 > p  BY <1>1, <2>1, <3>1
    <3>3. line[k - 1] = "\\"  BY <1>5, <3>1, <3>2
    <3>4. line[k - 2] # "\\"
      <4>1. CASE j > 2
        <5>1. j - 2 \in 1..n /\ k - 2 = p + (j - 2)  BY <1>1, <2>1, <4>1
        <5> QED  BY <1>5, <3>1, <4>1, <5>1
      <4>2. CASE ~(j > 2)
        <5>1. k - 2 = p  BY <1>1, <2>1, <3>1, <4>2
        <5> QED  BY <1>5, <5>1
      <4> QED  BY <4>1, <4>2
    <3> QED  BY <3>2, <3>3, <3>4 DEF EscapeActive
  <2>4. ~AtEnd(k)  BY <2>1 DEF AtEnd, N
  <2> QED  BY <1>5, <2>2, <2>3, <2>4 DEF Closes
<1>8. ClosingQuote(p) = p + (n + 1)
  <2>1. p + (n + 1) \in (p + 1)..(N + 1)  BY <1>1, <1>4
  <2> HIDE DEF n
  <2> QED  BY <1>4, <1>6, <1>7, <2>1, ClosingQuoteIs
<1>9. ~AtEnd(p + (n + 1))  BY <1>1, <1>4 DEF AtEnd
<1>10. line[p] \in Quotes  BY <1>5, CharacterFacts
<1>11. WordAt(p) = [word |-> SubSeq(line, p + 1, (p + (n + 1)) - 1), next |-> (p + (n + 1)) + 1]
  <2> HIDE DEF n
  <2> QED  BY <1>8, <1>9, <1>10, Zenon DEF WordAt
<1>12. SubSeq(line, p + 1, (p + (n + 1)) - 1) = e
  <2> HIDE DEF e
  <2>1. (p + (n + 1)) - 1 = p + n /\ p + n <= N  BY <1>1, <1>4
  <2> DEFINE w == SubSeq(line, p + 1, p + n)
  <2>2. w \in Seq(Characters) /\ Len(w) = n /\ \A j \in 1..n : w[j] = line[p + j]
    BY <1>1, <1>4, <2>1
  <2> HIDE DEF w
  <2>3. Len(e) = n /\ \A j \in 1..n : w[j] = e[j]  BY <1>5, <2>2
  <2> HIDE DEF n
  <2>4. w = e  BY <1>1, <2>2, <2>3
  <2>5. SubSeq(line, p + 1, (p + (n + 1)) - 1) = w  BY <2>1, Zenon DEF w
  <2> QED  BY <2>4, <2>5
<1>13. (p + (n + 1)) + 1 = p + Len(q)
  <2> HIDE DEF n
  <2>1. (p + (n + 1)) + 1 = p + (n + 2)  BY <1>1
  <2>2. Len(q) = n + 2  BY <1>2
  <2> QED  BY <2>1, <2>2
<1> QED  BY <1>11, <1>12, <1>13 DEF q

\* Without quotes: no character of the piece is a blank or a quote.
LEMMA PlainWordAt ==
    ASSUME line \in Seq(Characters), NEW name \in Seq(Characters), Quotable(name),
           ~NeedsQuotes(name), NEW p \in Nat, Stands(p, quoteNameIfNecessary(name))
    PROVE  WordAt(p) = [word |-> Escaped(name), next |-> p + Len(quoteNameIfNecessary(name))]
<1> DEFINE e == Escaped(name)
           n == Len(e)
           N == Len(line)
<1>1. e \in Seq(Characters) /\ n \in Nat /\ N \in Nat  BY EscapedType
<1>2. quoteNameIfNecessary(name) = e  BY DEF quoteNameIfNecessary
<1>3. name # <<>> /\ n > 0  BY EscapedFacts DEF EndKept, NeedsQuotes
<1>4. \A j \in 1..n : e[j] # " " /\ e[j] \notin Quotes
  <2>1. \A i \in 1..Len(name) : name[i] # " " /\ name[i] \notin Quotes
    BY DEF Quotable, NeedsQuotes, Contains
  <2>2. "\\" # " " /\ "\\" \notin Quotes  BY DEF Quotes
  <2>3. \A j \in 1..n : e[j] = "\\" \/ \E i \in 1..Len(name) : e[j] = name[i]
    BY EscapedFacts DEF OnlyBackslashesMore
  <2> HIDE DEF e, n
  <2> QED  BY <2>1, <2>2, <2>3
<1>5. /\ p \in 1..N /\ p + n <= N + 1
      /\ \A j \in 1..n : line[p + (j - 1)] = e[j]
      /\ AtEnd(p + n) \/ IsSpace(p + n)
  BY <1>2 DEF Stands
<1> HIDE DEF e, n, N
<1>6. ASSUME NEW i \in p..((p + n) - 1)
      PROVE  ~AtEnd(i) /\ ~IsSpace(i) /\ line[i] \notin Quotes
  <2> DEFINE j == (i - p) + 1
  <2>1. j \in 1..n /\ p + (j - 1) = i /\ ~(i > N)  BY <1>1, <1>5
  <2> HIDE DEF j
  <2>2. line[i] = e[j]  BY <1>5, <2>1
  <2>3. line[i] # " " /\ line[i] \notin Quotes  BY <1>4, <2>1, <2>2
  <2> QED  BY <2>1, <2>3 DEF AtEnd, IsSpace, N
<1>7. AtEnd(p + n) \/ line[p + n] \notin Quotes
  <2>1. " " \notin Quotes  BY DEF Quotes
  <2> QED  BY <1>5, <2>1 DEF IsSpace
<1> DEFINE S == {d \in Nat : \A i \in p..(p + n) : i >= (p + n) - d => PlainWordEnd(i) = p + n}
<1>8. 0 \in S
  <2> SUFFICES ASSUME NEW i \in p..(p + n), i >= (p + n) - 0 PROVE PlainWordEnd(i) = p + n
    OBVIOUS
  <2>1. i = p + n /\ i \in 1..(N + 1)  BY <1>1, <1>5
  <2>2. PlainWordEnd(i) = i  BY <1>5, <2>1, PlainWordEndRest, Zenon DEF N
  <2> QED  BY <2>1, <2>2
<1>9. ASSUME NEW d \in Nat, d \in S PROVE d + 1 \in S
  <2> SUFFICES ASSUME NEW i \in p..(p + n), i >= (p + n) - (d + 1) PROVE PlainWordEnd(i) = p + n
    OBVIOUS
  <2>1. CASE i = p + n
    <3>1. i >= (p + n) - d  BY <1>1, <2>1
    <3> QED  BY <1>9, <3>1
  <2>2. CASE i # p + n
    <3>1. /\ i \in p..((p + n) - 1) /\ i \in 1..(N + 1) /\ i + 1 \in p..(p + n)
          /\ i + 1 >= (p + n) - d
      BY <1>1, <1>5, <2>2
    <3>2. i + 1 \in p..((p + n) - 1) \/ i + 1 = p + n  BY <1>1, <3>1
    <3>3. ~(~AtEnd(i + 1) /\ line[i + 1] \in Quotes)  BY <1>6, <1>7, <3>2
    <3>4. ~(AtEnd(i) \/ IsSpace(i))  BY <1>6, <3>1
    <3>5. PlainWordEnd(i) = PlainWordEnd(i + 1)
      BY <3>1, <3>3, <3>4, PlainWordEndRest, Zenon DEF N
    <3>6. PlainWordEnd(i + 1) = p + n  BY <1>9, <3>1
    <3> QED  BY <3>5, <3>6
  <2> QED  BY <2>1, <2>2
<1>10. PlainWordEnd(p) = p + n
  <2>1. \A d \in Nat : d \in S
    <3> HIDE DEF S
    <3> QED  BY <1>8, <1>9, Induction
  <2>2. n \in S  BY <1>1, <2>1
  <2>3. p \in p..(p + n) /\ p >= (p + n) - n  BY <1>1
  <2> QED  BY <2>2, <2>3
<1>11. line[p] \notin Quotes
  <2>1. p \in p..((p + n) - 1)  BY <1>1, <1>3
  <2> QED  BY <1>6, <2>1
<1>12. WordAt(p) = [word |-> SubSeq(line, p, (p + n) - 1), next |-> p + n]
  BY <1>10, <1>11, Zenon DEF WordAt
<1>13. SubSeq(line, p, (p + n) - 1) = e
  <2> DEFINE w == SubSeq(line, p, (p + n) - 1)
  <2>1. w \in Seq(Characters) /\ Len(w) = n /\ \A j \in 1..n : w[j] = line[p + (j - 1)]
    <3>1. (p + n) - 1 <= Len(line) /\ p \in 1..Len(line)  BY <1>1, <1>5 DEF N
    <3>2. Len(w) = n  BY <1>1, <3>1
    <3>3. w \in Seq(Characters)  BY <1>1, <3>1
    <3>4. \A j \in 1..n : w[j] = line[p + j - 1]  BY <1>1, <3>1
    <3>5. \A j \in 1..n : p + j - 1 = p + (j - 1)  BY <1>1
    <3> HIDE DEF w
    <3> QED  BY <3>2, <3>3, <3>4, <3>5
  <2> HIDE DEF w
  <2>2. w = e  BY <1>1, <1>5, <2>1 DEF n
  <2> QED  BY <2>2 DEF w
<1> QED  BY <1>2, <1>12, <1>13 DEF e, n

LEMMA NameIsReadAt ==
    ASSUME line \in Seq(Characters), NEW name \in Seq(Characters), Quotable(name),
           NEW p \in Nat, Stands(p, quoteNameIfNecessary(name))
    PROVE  /\ unEscape(WordAt(p).word) = name
           /\ WordAt(p).next = p + Len(quoteNameIfNecessary(name))
<1>1. WordAt(p) = [word |-> Escaped(name), next |-> p + Len(quoteNameIfNecessary(name))]
  BY QuotedWordAt, PlainWordAt
<1>2. WordAt(p).word = Escaped(name) /\ WordAt(p).next = p + Len(quoteNameIfNecessary(name))
  BY <1>1
<1> QED  BY <1>2, EscapedIsReadBack

-----------------------------------------------------------------------------
(* The line of more names begins with the line of fewer                       *)

Gap(i) == IF i > 1 THEN <<" ">> ELSE <<>>

LEMMA LineOfMore ==
    ASSUME NEW ns \in Seq(Seq(Characters)), NEW name \in Seq(Characters)
    PROVE  /\ CompletedLine(ns) \in Seq(Characters)
           /\ CompletedLine(Append(ns, name))
              = CompletedLine(ns) \o (Gap(Len(ns) + 1) \o quoteNameIfNecessary(name))
           /\ CompletedLine(Append(ns, name)) \in Seq(Characters)
<1> DEFINE L(s) == [i \in DOMAIN s |-> Gap(i) \o quoteNameIfNecessary(s[i])]
           more == Append(ns, name)
           last == Gap(Len(ns) + 1) \o quoteNameIfNecessary(name)
<1>1. \A s : CompletedLine(s) = FlattenSeq(L(s))  BY DEF CompletedLine, Gap
<1>2. ASSUME NEW i, NEW m \in Seq(Characters)
      PROVE  Gap(i) \o quoteNameIfNecessary(m) \in Seq(Characters)
  <2>1. \A c \in Characters : <<c>> \in Seq(Characters) /\ <<>> \in Seq(Characters)  OBVIOUS
  <2>2. Gap(i) \in Seq(Characters)  BY <2>1, CharacterFacts, Zenon DEF Gap
  <2> QED  BY <2>2, QuotedType
<1>3. ASSUME NEW s \in Seq(Seq(Characters))
      PROVE  /\ L(s) \in Seq(Seq(Characters)) /\ Len(L(s)) = Len(s)
             /\ \A i \in 1..Len(s) : L(s)[i] = Gap(i) \o quoteNameIfNecessary(s[i])
  <2>1. /\ DOMAIN s = 1..Len(s) /\ Len(s) \in Nat
        /\ \A i \in 1..Len(s) : s[i] \in Seq(Characters)
    OBVIOUS
  <2> DEFINE P(i) == Gap(i) \o quoteNameIfNecessary(s[i])
  <2>2. \A i \in 1..Len(s) : P(i) \in Seq(Characters)  BY <1>2, <2>1
  <2>3. L(s) = [i \in 1..Len(s) |-> P(i)]  BY <2>1
  <2> HIDE DEF L, P
  <2>4. /\ L(s) \in Seq(Seq(Characters)) /\ Len(L(s)) = Len(s)
        /\ \A i \in 1..Len(s) : L(s)[i] = P(i)
    BY <2>1, <2>2, <2>3
  <2> QED  BY <2>4 DEF P
<1>4. /\ more \in Seq(Seq(Characters)) /\ Len(more) = Len(ns) + 1 /\ more[Len(ns) + 1] = name
      /\ Len(ns) \in Nat /\ \A i \in 1..Len(ns) : more[i] = ns[i]
  OBVIOUS
<1>5. last \in Seq(Characters)  BY <1>2
<1>6. L(more) = Append(L(ns), last)
  <2> HIDE DEF L, more
  <2>1. /\ L(more) \in Seq(Seq(Characters)) /\ Len(L(more)) = Len(ns) + 1
        /\ \A i \in 1..(Len(ns) + 1) : L(more)[i] = Gap(i) \o quoteNameIfNecessary(more[i])
    BY <1>3, <1>4
  <2>2. /\ L(ns) \in Seq(Seq(Characters)) /\ Len(L(ns)) = Len(ns)
        /\ \A i \in 1..Len(ns) : L(ns)[i] = Gap(i) \o quoteNameIfNecessary(ns[i])
    BY <1>3
  <2> HIDE DEF last
  <2> DEFINE p == Append(L(ns), last)
  <2>3. /\ p \in Seq(Seq(Characters)) /\ Len(p) = Len(ns) + 1
        /\ \A i \in 1..Len(ns) : p[i] = L(ns)[i]
        /\ p[Len(ns) + 1] = last
    BY <1>5, <2>2
  <2> HIDE DEF p
  <2>4. \A i \in 1..(Len(ns) + 1) : i \in 1..Len(ns) \/ i = Len(ns) + 1  BY <1>4
  <2>5. \A i \in 1..(Len(ns) + 1) : L(more)[i] = p[i]
    BY <1>4, <2>1, <2>2, <2>3, <2>4 DEF last
  <2>6. L(more) = p  BY <2>1, <2>3, <2>5
  <2> QED  BY <2>6 DEF p
<1>7. L(ns) \in Seq(Seq(Characters)) /\ L(more) \in Seq(Seq(Characters))
  <2> HIDE DEF L, more
  <2> QED  BY <1>3, <1>4
<1>8. FlattenSeq(Append(L(ns), last)) = FlattenSeq(L(ns)) \o last
  <2> HIDE DEF L, last
  <2> QED  BY <1>5, <1>7, FlattenOfAppend
<1>9. FlattenSeq(L(ns)) \in Seq(Characters) /\ FlattenSeq(L(more)) \in Seq(Characters)
  <2> HIDE DEF L, more
  <2> QED  BY <1>7, FlattenType
<1> HIDE DEF L
<1> QED  BY <1>1, <1>6, <1>8, <1>9

LEMMA LineOfNone == CompletedLine(<<>>) = <<>>
<1>1. [i \in DOMAIN <<>> |-> (IF i > 1 THEN <<" ">> ELSE <<>>) \o quoteNameIfNecessary(<<>>[i])] = <<>>
  OBVIOUS
<1> QED  BY <1>1, FlattenOfEmpty DEF CompletedLine

LEMMA LineType ==
    ASSUME NEW ns \in Seq(Seq(Characters)) PROVE CompletedLine(ns) \in Seq(Characters)
<1>1. \E name : name \in Seq(Characters)
  <2>1. <<>> \in Seq(Characters)  OBVIOUS
  <2> QED  BY <2>1
<1> QED  BY <1>1, LineOfMore

LEMMA PrefixOfConcatenation ==
    ASSUME NEW s \in Seq(Characters), NEW t \in Seq(Characters)
    PROVE  s \o t \in Seq(Characters) /\ IsPrefix(s, s \o t)
<1> DEFINE u == s \o t
<1>1. /\ u \in Seq(Characters) /\ Len(s) <= Len(u)
      /\ \A i \in 1..Len(s) : s[i] = u[i]
  OBVIOUS
<1> HIDE DEF u
<1>2. IsPrefix(s, u)  BY <1>1, PrefixElements
<1> QED  BY <1>1, <1>2 DEF u

LEMMA LineBegins ==
    ASSUME NEW ns \in Seq(Seq(Characters)), NEW k \in 0..Len(ns)
    PROVE  /\ CompletedLine(SubSeq(ns, 1, k)) \in Seq(Characters)
           /\ IsPrefix(CompletedLine(SubSeq(ns, 1, k)), CompletedLine(ns))
<1> DEFINE A == {s \in Seq(Seq(Characters)) :
                    \A i \in 0..Len(s) : IsPrefix(CompletedLine(SubSeq(s, 1, i)), CompletedLine(s))}
<1>1. <<>> \in A
  <2> SUFFICES ASSUME NEW i \in 0..0
               PROVE  IsPrefix(CompletedLine(SubSeq(<<>>, 1, i)), CompletedLine(<<>>))
    OBVIOUS
  <2>1. i = 0 /\ SubSeq(<<>>, 1, 0) = <<>> /\ <<>> \in Seq(Characters)  OBVIOUS
  <2>2. IsPrefix(<<>>, <<>>)  BY <2>1, PrefixReflexive
  <2> QED  BY <2>1, <2>2, LineOfNone
<1>2. ASSUME NEW s \in Seq(Seq(Characters)), NEW name \in Seq(Characters), s \in A
      PROVE  Append(s, name) \in A
  <2> DEFINE t == Append(s, name)
  <2>1. /\ t \in Seq(Seq(Characters)) /\ Len(t) = Len(s) + 1 /\ Len(s) \in Nat
    OBVIOUS
  <2>2. \A i \in 0..Len(s) : SubSeq(t, 1, i) = SubSeq(s, 1, i)
    <3> SUFFICES ASSUME NEW i \in 0..Len(s) PROVE SubSeq(t, 1, i) = SubSeq(s, 1, i)
      OBVIOUS
    <3>1. /\ SubSeq(s, 1, i) \in Seq(Seq(Characters)) /\ Len(SubSeq(s, 1, i)) = i
          /\ \A j \in 1..i : SubSeq(s, 1, i)[j] = s[j]
      OBVIOUS
    <3>2. \A j \in 1..i : s[j] = t[j]  OBVIOUS
    <3> HIDE DEF t
    <3>3. /\ SubSeq(t, 1, i) \in Seq(Seq(Characters)) /\ Len(SubSeq(t, 1, i)) = i
          /\ \A j \in 1..i : SubSeq(t, 1, i)[j] = t[j]
      BY <2>1
    <3> QED  BY <3>1, <3>2, <3>3
  <2>3. SubSeq(t, 1, Len(s) + 1) = t
    <3> HIDE DEF t
    <3> QED  BY <2>1
  <2>4. IsPrefix(CompletedLine(s), CompletedLine(t))
    <3> DEFINE g == Gap(Len(s) + 1) \o quoteNameIfNecessary(name)
    <3>1. g \in Seq(Characters)
      <4>1. \A c \in Characters : <<c>> \in Seq(Characters) /\ <<>> \in Seq(Characters)  OBVIOUS
      <4>2. Gap(Len(s) + 1) \in Seq(Characters)  BY <4>1, CharacterFacts, Zenon DEF Gap
      <4> QED  BY <4>2, QuotedType
    <3>2. CompletedLine(t) = CompletedLine(s) \o g /\ CompletedLine(s) \in Seq(Characters)
      BY LineOfMore
    <3> HIDE DEF g
    <3> QED  BY <3>1, <3>2, PrefixOfConcatenation
  <2> HIDE DEF t
  <2>5. ASSUME NEW i \in 0..Len(t) PROVE IsPrefix(CompletedLine(SubSeq(t, 1, i)), CompletedLine(t))
    <3>1. CASE i \in 0..Len(s)
      <4> DEFINE r == SubSeq(s, 1, i)
      <4>1. r \in Seq(Seq(Characters)) /\ SubSeq(t, 1, i) = r  BY <2>2, <3>1
      <4>2. IsPrefix(CompletedLine(r), CompletedLine(s))  BY <1>2, <3>1
      <4> HIDE DEF r
      <4>3. /\ CompletedLine(r) \in Seq(Characters) /\ CompletedLine(s) \in Seq(Characters)
            /\ CompletedLine(t) \in Seq(Characters)
        BY <2>1, <4>1, LineType
      <4> QED  BY <2>4, <4>1, <4>2, <4>3, PrefixTransitive
    <3>2. CASE i = Len(s) + 1
      <4>1. CompletedLine(t) \in Seq(Characters)  BY <2>1, LineType
      <4> QED  BY <2>3, <3>2, <4>1, PrefixReflexive
    <3>3. i \in 0..Len(s) \/ i = Len(s) + 1  BY <2>1
    <3> QED  BY <3>1, <3>2, <3>3
  <2>6. t \in A  BY <2>1, <2>5
  <2> QED  BY <2>6 DEF t
<1>3. \A s \in Seq(Seq(Characters)) : s \in A
  <2> HIDE DEF A
  <2> QED  BY <1>1, <1>2, SequenceInduction
<1>4. SubSeq(ns, 1, k) \in Seq(Seq(Characters))  OBVIOUS
<1> QED  BY <1>3, <1>4, LineType

-----------------------------------------------------------------------------
(* How far the line has been read                                             *)

\* The first k names and the line of them.
Read(k)   == SubSeq(names, 1, k)
LineTo(k) == CompletedLine(Read(k))

LineIsOfNames == line \in {CompletedLine(names), Append(CompletedLine(names), " ")}

LEMMA LineToMore ==
    ASSUME names \in Seq(Seq(Characters)), NEW k \in 0..(Len(names) - 1)
    PROVE  /\ LineTo(k) \in Seq(Characters) /\ LineTo(k + 1) \in Seq(Characters)
           /\ Read(k + 1) = Append(Read(k), names[k + 1])
           /\ LineTo(k + 1) = LineTo(k) \o (Gap(k + 1) \o quoteNameIfNecessary(names[k + 1]))
<1>1. /\ Read(k) \in Seq(Seq(Characters)) /\ Len(Read(k)) = k /\ names[k + 1] \in Seq(Characters)
  BY DEF Read
<1>2. Read(k + 1) = Append(Read(k), names[k + 1])  BY DEF Read
<1>3. CompletedLine(Append(Read(k), names[k + 1]))
      = CompletedLine(Read(k)) \o (Gap(k + 1) \o quoteNameIfNecessary(names[k + 1]))
  BY <1>1, LineOfMore
<1>4. /\ CompletedLine(Read(k)) \in Seq(Characters)
      /\ CompletedLine(Append(Read(k), names[k + 1])) \in Seq(Characters)
  BY <1>1, LineOfMore
<1> QED  BY <1>2, <1>3, <1>4 DEF LineTo

LEMMA LineToAll ==
    ASSUME names \in Seq(Seq(Characters))
    PROVE  LineTo(0) = <<>> /\ LineTo(Len(names)) = CompletedLine(names) /\ Read(Len(names)) = names
<1>1. SubSeq(names, 1, 0) = <<>> /\ SubSeq(names, 1, Len(names)) = names  OBVIOUS
<1> QED  BY <1>1, LineOfNone DEF LineTo, Read

LEMMA LineContains ==
    ASSUME names \in Seq(Seq(Characters)), line \in Seq(Characters), LineIsOfNames,
           NEW k \in 0..Len(names)
    PROVE  /\ LineTo(k) \in Seq(Characters) /\ Len(LineTo(k)) <= Len(line)
           /\ \A i \in 1..Len(LineTo(k)) : line[i] = LineTo(k)[i]
<1> DEFINE c == CompletedLine(names)
<1>1. c \in Seq(Characters)  BY LineType
<1>2. IsPrefix(c, line)
  <2> HIDE DEF c
  <2>1. CASE line = c  BY <1>1, <2>1, PrefixReflexive
  <2>2. CASE line = Append(c, " ")
    <3>1. " " \in Characters  BY CharacterFacts
    <3> QED  BY <1>1, <2>2, <3>1, PrefixOfAppend
  <2> QED  BY <2>1, <2>2 DEF LineIsOfNames, c
<1>3. LineTo(k) \in Seq(Characters) /\ IsPrefix(LineTo(k), c)
  BY LineBegins DEF LineTo, Read
<1> HIDE DEF c
<1>4. IsPrefix(LineTo(k), line)  BY <1>1, <1>2, <1>3, PrefixTransitive
<1> QED  BY <1>3, <1>4, PrefixElements

LEMMA PieceFacts ==
    ASSUME NEW name \in Seq(Characters)
    PROVE  LET q == quoteNameIfNecessary(name)
           IN  q \in Seq(Characters) /\ Len(q) > 0 /\ q[1] # " "
<1> DEFINE q == quoteNameIfNecessary(name)
           e == Escaped(name)
<1>1. q \in Seq(Characters) /\ e \in Seq(Characters)  BY QuotedType, EscapedType
<1>2. CASE NeedsQuotes(name)
  <2>1. q = <<"\"">> \o e \o <<"\"">>  BY <1>2 DEF quoteNameIfNecessary
  <2>2. \A c : LET s == <<c>> \o e \o <<c>> IN Len(s) > 0 /\ s[1] = c
    <3> HIDE DEF e
    <3> QED  BY <1>1
  <2> HIDE DEF q, e
  <2>3. Len(q) > 0 /\ q[1] = "\""  BY <2>1, <2>2, Zenon
  <2> QED  BY <1>1, <2>3 DEF q
<1>3. CASE ~NeedsQuotes(name)
  <2>1. q = e  BY <1>3 DEF quoteNameIfNecessary
  <2>2. Len(e) > 0  BY <1>3, EscapedFacts DEF EndKept, NeedsQuotes
  <2>3. 1 \in 1..Len(e)  BY <1>1, <2>2
  <2>4. e[1] = "\\" \/ \E j \in 1..Len(name) : e[1] = name[j]
    BY <2>3, EscapedFacts DEF OnlyBackslashesMore
  <2>5. \A j \in 1..Len(name) : name[j] # " "  BY <1>3 DEF NeedsQuotes, Contains
  <2>6. e[1] # " "  BY <2>4, <2>5
  <2> HIDE DEF q, e
  <2> QED  BY <1>1, <2>1, <2>2, <2>6 DEF q
<1> QED  BY <1>2, <1>3

\* Where the piece of the next name begins and ends.
LEMMA PieceInLine ==
    ASSUME names \in Seq(Seq(Characters)), NEW k \in 0..(Len(names) - 1)
    PROVE  LET q == quoteNameIfNecessary(names[k + 1])
               n == Len(LineTo(k))
               g == IF k > 0 THEN 1 ELSE 0
               l == LineTo(k + 1)
           IN  /\ Len(l) = (n + g) + Len(q)
               /\ \A j \in 1..Len(q) : l[(n + g) + j] = q[j]
               /\ k > 0 => l[n + 1] = " "
<1> DEFINE q == quoteNameIfNecessary(names[k + 1])
           c == LineTo(k)
           l == LineTo(k + 1)
<1>1. names[k + 1] \in Seq(Characters)  OBVIOUS
<1>2. q \in Seq(Characters)  BY <1>1, PieceFacts
<1>3. c \in Seq(Characters) /\ l = c \o (Gap(k + 1) \o q)  BY LineToMore
<1>4. \A b : LET s == c \o (<<b>> \o q)
             IN  /\ Len(s) = (Len(c) + 1) + Len(q) /\ s[Len(c) + 1] = b
                 /\ \A j \in 1..Len(q) : s[(Len(c) + 1) + j] = q[j]
  <2> HIDE DEF c, q
  <2> SUFFICES ASSUME NEW b
               PROVE  LET s == c \o (<<b>> \o q)
                      IN  /\ Len(s) = (Len(c) + 1) + Len(q) /\ s[Len(c) + 1] = b
                          /\ \A j \in 1..Len(q) : s[(Len(c) + 1) + j] = q[j]
    OBVIOUS
  <2> DEFINE r == <<b>> \o q
             X == Characters \cup {b}
  <2>1. c \in Seq(X) /\ q \in Seq(X) /\ <<b>> \in Seq(X)  BY <1>2, <1>3
  <2> HIDE DEF X
  <2>2. /\ r \in Seq(X) /\ Len(r) = 1 + Len(q) /\ r[1] = b
        /\ \A j \in 1..Len(q) : 1 + j \in 1..Len(r) /\ r[1 + j] = q[j]
    BY <2>1
  <2> HIDE DEF r
  <2>3. /\ Len(c \o r) = Len(c) + Len(r)
        /\ \A j \in 1..Len(r) : (c \o r)[Len(c) + j] = r[j]
    <3>1. c \in Seq(X) /\ r \in Seq(X)  BY <2>1, <2>2
    <3> QED  BY <3>1
  <2>4. /\ Len(c) \in Nat /\ Len(q) \in Nat /\ 1 \in 1..Len(r)
        /\ \A j \in 1..Len(q) : (Len(c) + 1) + j = Len(c) + (1 + j)
    BY <2>1, <2>2
  <2>5. Len(c \o r) = (Len(c) + 1) + Len(q)  BY <2>2, <2>3, <2>4
  <2>6. (c \o r)[Len(c) + 1] = b  BY <2>2, <2>3, <2>4
  <2>7. \A j \in 1..Len(q) : (c \o r)[(Len(c) + 1) + j] = q[j]  BY <2>2, <2>3, <2>4
  <2> QED  BY <2>5, <2>6, <2>7 DEF r
<1>5. k \in Nat  OBVIOUS
<1>6. CASE k > 0
  <2>1. k + 1 > 1  BY <1>5, <1>6
  <2>2. Gap(k + 1) = <<" ">>  BY <2>1 DEF Gap
  <2> HIDE DEF c, q, l
  <2>3. /\ Len(l) = (Len(c) + 1) + Len(q) /\ l[Len(c) + 1] = " "
        /\ \A j \in 1..Len(q) : l[(Len(c) + 1) + j] = q[j]
    BY <1>3, <1>4, <2>2, Zenon
  <2> QED  BY <1>6, <2>3, Zenon DEF c, q, l
<1>7. CASE ~(k > 0)
  <2>1. k = 0 /\ ~(k + 1 > 1)  BY <1>5, <1>7
  <2>2. Gap(k + 1) = <<>>  BY <2>1 DEF Gap
  <2>3. c = <<>>  BY <2>1, LineToAll
  <2> HIDE DEF c, q, l
  <2>4. l = q  BY <1>2, <1>3, <2>2, <2>3
  <2>5. Len(c) = 0  BY <2>3
  <2>6. /\ Len(l) = (Len(c) + 0) + Len(q)
        /\ \A j \in 1..Len(q) : l[(Len(c) + 0) + j] = q[j]
    <3>1. Len(q) \in Nat /\ (0 + 0) + Len(q) = Len(q) /\ \A j \in 1..Len(q) : (0 + 0) + j = j
      BY <1>2
    <3> QED  BY <2>4, <2>5, <3>1
  <2> QED  BY <1>7, <2>6, Zenon DEF c, q, l
<1> QED  BY <1>6, <1>7

\* Behind the piece of a name the line ends, or a blank follows.
LEMMA BehindPiece ==
    ASSUME names \in Seq(Seq(Characters)), line \in Seq(Characters), LineIsOfNames,
           NEW k \in 1..Len(names)
    PROVE  AtEnd(Len(LineTo(k)) + 1) \/ IsSpace(Len(LineTo(k)) + 1)
<1> DEFINE n == Len(LineTo(k))
<1>1. LineTo(k) \in Seq(Characters) /\ n <= Len(line) /\ n \in Nat /\ Len(line) \in Nat
  <2>1. k \in 0..Len(names)  OBVIOUS
  <2> QED  BY <2>1, LineContains
<1>2. CASE k = Len(names)
  <2> DEFINE c == CompletedLine(names)
  <2>1. c \in Seq(Characters) /\ n = Len(c)  BY <1>2, LineType, LineToAll
  <2> HIDE DEF n, c
  <2>2. CASE line = c  BY <2>1, <2>2 DEF AtEnd, n
  <2>3. CASE line = Append(c, " ")
    <3>1. \A b : Len(Append(c, b)) = Len(c) + 1 /\ Append(c, b)[Len(c) + 1] = b  BY <2>1
    <3>2. Len(line) = n + 1 /\ line[n + 1] = " "  BY <2>1, <2>3, <3>1, Zenon
    <3>3. ~AtEnd(n + 1)
      <4>1. ~(n + 1 > n + 1)  BY <1>1
      <4> QED  BY <3>2, <4>1 DEF AtEnd
    <3> QED  BY <3>2, <3>3 DEF IsSpace, n
  <2> QED  BY <2>2, <2>3 DEF LineIsOfNames, c
<1>3. CASE k # Len(names)
  <2>1. k \in 0..(Len(names) - 1) /\ k > 0 /\ k + 1 \in 0..Len(names)  BY <1>3
  <2>2. LineTo(k + 1)[n + 1] = " "  BY <2>1, PieceInLine
  <2> DEFINE m == Len(LineTo(k + 1))
  <2>3. n + 1 \in 1..m
    <3>1. Len(LineTo(k + 1)) = (n + 1) + Len(quoteNameIfNecessary(names[k + 1]))
      BY <2>1, PieceInLine
    <3>2. names[k + 1] \in Seq(Characters)  BY <2>1
    <3>3. Len(quoteNameIfNecessary(names[k + 1])) \in Nat
      <4>1. quoteNameIfNecessary(names[k + 1]) \in Seq(Characters)  BY <3>2, QuotedType
      <4> QED  BY <4>1
    <3> HIDE DEF n
    <3> QED  BY <1>1, <3>1, <3>3
  <2>4. m <= Len(line) /\ \A i \in 1..m : line[i] = LineTo(k + 1)[i]
    BY <2>1, LineContains
  <2> HIDE DEF n, m
  <2>5. line[n + 1] = " "  BY <2>2, <2>3, <2>4
  <2>6. ~AtEnd(n + 1)
    <3> DEFINE N == Len(line)
    <3>1. n + 1 \in 1..m /\ m <= N /\ N \in Nat /\ n \in Nat /\ m \in Int
      <4>1. LineTo(k + 1) \in Seq(Characters)  BY <2>1, LineContains
      <4>2. m \in Int  BY <4>1 DEF m
      <4> QED  BY <1>1, <2>3, <2>4, <4>2
    <3> HIDE DEF N
    <3>2. ~(n + 1 > N)  BY <3>1
    <3> QED  BY <3>2 DEF AtEnd, N
  <2> QED  BY <2>5, <2>6 DEF IsSpace, n
<1> QED  BY <1>2, <1>3

\* The next word is found where its piece stands.
LEMMA NextNameStands ==
    ASSUME names \in Seq(Seq(Characters)), line \in Seq(Characters), LineIsOfNames,
           NEW k \in 0..(Len(names) - 1), position = Len(LineTo(k)) + 1, position \in Nat
    PROVE  LET q == quoteNameIfNecessary(names[k + 1])
               s == SkipWhitespaces(position)
           IN  /\ s \in Nat /\ Stands(s, q) /\ s + Len(q) = Len(LineTo(k + 1)) + 1
<1> DEFINE q == quoteNameIfNecessary(names[k + 1])
           n == Len(LineTo(k))
           g == IF k > 0 THEN 1 ELSE 0
           l == LineTo(k + 1)
           p == (n + g) + 1
           N == Len(line)
           m == Len(q)
           M == Len(l)
<1>1. q \in Seq(Characters) /\ Len(q) > 0 /\ q[1] # " " /\ Len(q) \in Nat
  <2>1. names[k + 1] \in Seq(Characters)  OBVIOUS
  <2>2. q \in Seq(Characters) /\ Len(q) > 0 /\ q[1] # " "  BY <2>1, PieceFacts
  <2> HIDE DEF q
  <2>3. q \in Seq(Characters)  BY <2>2
  <2>4. Len(q) \in Nat  BY <2>3
  <2> QED  BY <2>2, <2>4
<1>2. /\ Len(l) = (n + g) + Len(q)
      /\ \A j \in 1..Len(q) : l[(n + g) + j] = q[j]
      /\ k > 0 => l[n + 1] = " "
  BY PieceInLine
<1>3. n \in Nat /\ g \in 0..1 /\ N \in Nat
  <2>1. LineTo(k) \in Seq(Characters)  BY LineToMore
  <2> QED  BY <2>1
<1>4. Len(l) <= N /\ \A i \in 1..Len(l) : line[i] = l[i]
  <2>1. k + 1 \in 0..Len(names)  OBVIOUS
  <2> QED  BY <2>1, LineContains
<1>5. AtEnd(Len(l) + 1) \/ IsSpace(Len(l) + 1)
  <2>1. k + 1 \in 1..Len(names)  OBVIOUS
  <2> QED  BY <2>1, BehindPiece
<1>6. k > 0 <=> g = 1  OBVIOUS
<1>7. position = n + 1  OBVIOUS
<1>8. m \in Nat /\ m > 0 /\ M = (n + g) + m /\ M <= N  BY <1>1, <1>2, <1>4
<1>9. /\ \A j \in 1..m : l[(n + g) + j] = q[j]
      /\ \A i \in 1..M : line[i] = l[i]
  BY <1>2, <1>4
<1> HIDE DEF q, n, g, l, N, m, M
<1>10. p \in 1..N /\ p + m = M + 1 /\ p + m <= N + 1 /\ p \in Nat
  BY <1>3, <1>8
<1>11. \A j \in 1..m : line[p + (j - 1)] = q[j]
  <2>1. \A j \in 1..m : (n + g) + j \in 1..M /\ p + (j - 1) = (n + g) + j
    BY <1>3, <1>8
  <2> HIDE DEF p
  <2> QED  BY <1>9, <2>1
<1>12. Stands(p, q)
  <2> HIDE DEF p
  <2>1. AtEnd(p + m) \/ IsSpace(p + m)  BY <1>5, <1>10 DEF M
  <2> QED  BY <1>10, <1>11, <2>1 DEF Stands, N, m
<1>13. ~IsSpace(p)
  <2>1. 1 \in 1..m /\ p + (1 - 1) = p  BY <1>8, <1>10
  <2> HIDE DEF p
  <2>2. line[p] = q[1]  BY <1>11, <2>1
  <2> QED  BY <1>1, <2>2, Zenon DEF IsSpace
<1>14. SkipWhitespaces(position) = p
  <2>1. position \in 1..(N + 1) /\ p \in position..(N + 1)  BY <1>3, <1>7, <1>10
  <2>2. ASSUME NEW i \in (n + 1)..(p - 1) PROVE IsSpace(i)
    <3>1. g = 1 /\ i = n + 1 /\ n + 1 \in 1..M /\ n + 1 <= N  BY <1>3, <1>8
    <3>2. line[i] = l[n + 1] /\ k > 0  BY <1>6, <1>9, <3>1
    <3>3. line[i] = " "  BY <1>2, <3>2, Zenon
    <3>4. ~(i > N)  BY <1>3, <3>1
    <3> QED  BY <3>3, <3>4, Zenon DEF IsSpace, AtEnd, N
  <2> HIDE DEF p
  <2>3. \A i \in position..(p - 1) : IsSpace(i)  BY <1>7, <2>2, Zenon
  <2> QED  BY <1>13, <2>1, <2>3, SkipWhitespacesIs DEF N
<1> HIDE DEF p
<1> QED  BY <1>10, <1>12, <1>14 DEF q, l, m, M

-----------------------------------------------------------------------------
(* The invariant                                                              *)

\* k names have been read, and the line up to the end of the k-th.
Progress(k) == words = Read(k) /\ position = Len(LineTo(k)) + 1

AllQuotable == \A i \in DOMAIN names : Quotable(names[i])

WordsAreNames ==
    AllQuotable => IF reading THEN \E k \in 0..Len(names) : Progress(k) ELSE words = Expected

IInv == TypeOK /\ LineIsOfNames /\ WordsAreNames

LEMMA TypeInitially == Init => TypeOK
<1> SUFFICES ASSUME Init PROVE TypeOK  OBVIOUS
<1>1. \A S : \A n \in Nat : BoundedSeq(S, n) \subseteq Seq(S)
  <2> SUFFICES ASSUME NEW S, NEW n \in Nat, NEW s \in BoundedSeq(S, n) PROVE s \in Seq(S)
    OBVIOUS
  <2> QED  BY DEF BoundedSeq, SeqOf
<1>2. Names \subseteq Seq(Characters)  BY <1>1, BoundsAssumption DEF Names
<1>3. names \in Seq(Names)  BY <1>1, BoundsAssumption DEF Init
<1>4. names \in Seq(Seq(Characters))  BY <1>2, <1>3
<1>5. line \in Seq(Characters)
  <2> DEFINE c == CompletedLine(names)
  <2>1. c \in Seq(Characters)  BY <1>4, LineType
  <2> HIDE DEF c
  <2>2. \A b \in Characters : Append(c, b) \in Seq(Characters)  BY <2>1
  <2>3. line = c \/ line = Append(c, " ")  BY Zenon DEF Init, c
  <2> QED  BY <2>1, <2>2, <2>3, CharacterFacts, Zenon
<1>6. position \in 1..(Len(line) + 1)
  <2>1. position = 1  BY Zenon DEF Init
  <2>2. Len(line) \in Nat  BY <1>5
  <2> QED  BY <2>1, <2>2
<1>7. words \in Seq(Seq(Characters))
  <2>1. words = <<>>  BY DEF Init
  <2> QED  BY <2>1
<1>8. addEmpty \in BOOLEAN /\ reading \in BOOLEAN  BY DEF Init
<1> QED  BY <1>4, <1>5, <1>6, <1>7, <1>8 DEF TypeOK

LEMMA InvariantInitially == Init => IInv
<1> SUFFICES ASSUME Init PROVE IInv  OBVIOUS
<1>1. TypeOK  BY TypeInitially
<1>2. LineIsOfNames  BY DEF Init, LineIsOfNames
<1>3. names \in Seq(Seq(Characters)) /\ 0 \in 0..Len(names)
  <2>1. names \in Seq(Seq(Characters))  BY <1>1 DEF TypeOK
  <2> QED  BY <2>1
<1>4. Progress(0)
  <2>1. LineTo(0) = <<>> /\ Read(0) = <<>>
    <3>1. SubSeq(names, 1, 0) = <<>>  BY <1>3
    <3> QED  BY <1>3, <3>1, LineToAll DEF Read
  <2>2. Len(<<>>) + 1 = 1  OBVIOUS
  <2> QED  BY <2>1, <2>2 DEF Progress, Init
<1>5. WordsAreNames  BY <1>3, <1>4 DEF WordsAreNames, Init
<1> QED  BY <1>1, <1>2, <1>5 DEF IInv

LEMMA TypeOfReadWord == TypeOK /\ ReadWord => TypeOK'
<1> SUFFICES ASSUME TypeOK, ReadWord PROVE TypeOK'  OBVIOUS
<1> DEFINE start == SkipWhitespaces(position)
           w == WordAt(start)
<1>1. line \in Seq(Characters) /\ Len(line) \in Nat /\ position \in 1..(Len(line) + 1)
  BY DEF TypeOK
<1>2. start \in 1..Len(line)
  <2>1. start \in position..(Len(line) + 1)  BY <1>1, SkipWhitespacesFacts
  <2>2. ~(start > Len(line))  BY DEF ReadWord, AtEnd
  <2> HIDE DEF start
  <2> QED  BY <1>1, <2>1, <2>2
<1>3. w.word \in Seq(Characters) /\ w.next \in 1..(Len(line) + 1)
  <2> HIDE DEF start
  <2> QED  BY <1>1, <1>2, WordAtType
<1>4. unEscape(w.word) \in Seq(Characters)
  <2> HIDE DEF w
  <2> QED  BY <1>3, unEscapeInPieces
<1>5. words' = Append(words, unEscape(w.word)) /\ position' = w.next  BY DEF ReadWord
<1> HIDE DEF w
<1>6. words' \in Seq(Seq(Characters))
  <2>1. words \in Seq(Seq(Characters))  BY DEF TypeOK
  <2>2. Append(words, unEscape(w.word)) \in Seq(Seq(Characters))  BY <1>4, <2>1
  <2> QED  BY <1>5, <2>2
<1>7. /\ names' = names /\ line' = line /\ addEmpty' = addEmpty /\ reading' = reading
  BY DEF ReadWord
<1> QED  BY <1>3, <1>5, <1>6, <1>7 DEF TypeOK

LEMMA TypeOfReadEnd == TypeOK /\ ReadEnd => TypeOK'
<1> SUFFICES ASSUME TypeOK, ReadEnd PROVE TypeOK'  OBVIOUS
<1> DEFINE start == SkipWhitespaces(position)
<1>1. line \in Seq(Characters) /\ Len(line) \in Nat /\ position \in 1..(Len(line) + 1)
  BY DEF TypeOK
<1>2. start \in 1..(Len(line) + 1)
  <2>1. start \in position..(Len(line) + 1)  BY <1>1, SkipWhitespacesFacts
  <2> HIDE DEF start
  <2> QED  BY <1>1, <2>1
<1>3. words' \in Seq(Seq(Characters))
  <2>1. words \in Seq(Seq(Characters)) /\ <<>> \in Seq(Characters)  BY DEF TypeOK
  <2>2. Append(words, <<>>) \in Seq(Seq(Characters))  BY <2>1
  <2>3. words' = words \/ words' = Append(words, <<>>)  BY Zenon DEF ReadEnd
  <2> QED  BY <2>1, <2>2, <2>3
<1>4. position' = start /\ reading' = FALSE  BY DEF ReadEnd
<1>5. names' = names /\ line' = line /\ addEmpty' = addEmpty  BY DEF ReadEnd
<1> HIDE DEF start
<1> QED  BY <1>2, <1>3, <1>4, <1>5 DEF TypeOK

\* Behind the last name only the blank that was typed is left.
LEMMA EndIsReached ==
    ASSUME TypeOK, LineIsOfNames, Progress(Len(names))
    PROVE  /\ AtEnd(SkipWhitespaces(position))
           /\ SkipWhitespaces(position) # position <=> line # CompletedLine(names)
<1> DEFINE c == CompletedLine(names)
           n == Len(c)
           N == Len(line)
<1>1. names \in Seq(Seq(Characters)) /\ line \in Seq(Characters)  BY DEF TypeOK
<1>2. c \in Seq(Characters) /\ position = n + 1 /\ n \in Nat /\ N \in Nat
  <2>1. c \in Seq(Characters)  BY <1>1, LineType
  <2>2. LineTo(Len(names)) = c  BY <1>1, LineToAll
  <2>3. n \in Nat /\ N \in Nat  BY <1>1, <2>1
  <2> QED  BY <2>1, <2>2, <2>3, Zenon DEF Progress
<1> HIDE DEF c
<1>3. CASE line = c
  <2>1. N = n  BY <1>3
  <2> HIDE DEF n, N
  <2>2. position \in 1..(N + 1) /\ position \in position..(N + 1) /\ position > N
        /\ position..(position - 1) = {}
    BY <1>2, <2>1
  <2>3. AtEnd(position) /\ ~IsSpace(position)  BY <2>2, Zenon DEF AtEnd, IsSpace, N
  <2>4. SkipWhitespaces(position) = position  BY <1>1, <2>2, <2>3, SkipWhitespacesIs DEF N
  <2> QED  BY <1>3, <2>3, <2>4 DEF c
<1>4. CASE line = Append(c, " ")
  <2>1. \A b : Len(Append(c, b)) = n + 1 /\ Append(c, b)[n + 1] = b  BY <1>2
  <2>2. N = n + 1 /\ line[n + 1] = " "  BY <1>4, <2>1, Zenon
  <2> HIDE DEF n, N
  <2>3. N = n + 1  BY <2>2
  <2>4. /\ position \in 1..(N + 1) /\ position + 1 \in position..(N + 1) /\ position + 1 > N
        /\ position # position + 1 /\ ~(position > N)
        /\ position..((position + 1) - 1) = {position}
    BY <1>2, <2>3
  <2>5. AtEnd(position + 1) /\ ~IsSpace(position + 1)
    BY <2>4, Zenon DEF AtEnd, IsSpace, N
  <2>6. IsSpace(position)  BY <1>2, <2>2, <2>4, Zenon DEF AtEnd, IsSpace, N
  <2>7. \A k \in position..((position + 1) - 1) : IsSpace(k)  BY <2>4, <2>6, Zenon
  <2>8. SkipWhitespaces(position) = position + 1
    BY <1>1, <2>4, <2>5, <2>7, SkipWhitespacesIs DEF N
  <2>9. line # c
    <3>1. line = c => N = n  BY DEF n, N
    <3>2. n + 1 # n  BY <1>2
    <3> QED  BY <2>3, <3>1, <3>2
  <2> QED  BY <2>4, <2>5, <2>8, <2>9 DEF c
<1> QED  BY <1>3, <1>4 DEF LineIsOfNames, c

\* Before it the next name is found.
LEMMA NextNameIsRead ==
    ASSUME TypeOK, LineIsOfNames, AllQuotable, NEW k \in 0..(Len(names) - 1), Progress(k)
    PROVE  LET start == SkipWhitespaces(position)
           IN  /\ ~AtEnd(start)
               /\ Append(words, unEscape(WordAt(start).word)) = Read(k + 1)
               /\ WordAt(start).next = Len(LineTo(k + 1)) + 1
<1> DEFINE start == SkipWhitespaces(position)
           q == quoteNameIfNecessary(names[k + 1])
<1>1. /\ names \in Seq(Seq(Characters)) /\ line \in Seq(Characters) /\ Len(line) \in Nat
      /\ position \in Nat /\ words = Read(k) /\ position = Len(LineTo(k)) + 1
  <2>1. position \in 1..(Len(line) + 1)  BY DEF TypeOK
  <2> QED  BY <2>1 DEF TypeOK, Progress
<1>2. start \in Nat /\ Stands(start, q) /\ start + Len(q) = Len(LineTo(k + 1)) + 1
  BY <1>1, NextNameStands
<1>3. names[k + 1] \in Seq(Characters) /\ Quotable(names[k + 1])
  <2>1. k + 1 \in 1..Len(names) /\ DOMAIN names = 1..Len(names)  BY <1>1
  <2>2. names[k + 1] \in Seq(Characters)  BY <1>1, <2>1
  <2>3. Quotable(names[k + 1])  BY <2>1, Zenon DEF AllQuotable
  <2> QED  BY <2>2, <2>3
<1> HIDE DEF start
<1>4. unEscape(WordAt(start).word) = names[k + 1] /\ WordAt(start).next = start + Len(q)
  BY <1>1, <1>2, <1>3, NameIsReadAt
<1>5. ~AtEnd(start)
  <2>1. start \in 1..Len(line)  BY <1>2 DEF Stands
  <2> QED  BY <1>1, <2>1 DEF AtEnd
<1>6. Read(k + 1) = Append(Read(k), names[k + 1])  BY <1>1, LineToMore
<1> QED  BY <1>1, <1>2, <1>4, <1>5, <1>6 DEF start

LEMMA WordsOfReadWord == IInv /\ ReadWord => WordsAreNames'
<1> SUFFICES ASSUME IInv, ReadWord, AllQuotable'
             PROVE  reading' /\ \E k \in 0..Len(names) : Progress(k)'
  BY DEF WordsAreNames, ReadWord
<1>1. AllQuotable /\ reading /\ reading'  BY DEF ReadWord, AllQuotable, Quotable, NeedsQuotes
<1>2. TypeOK /\ LineIsOfNames  BY DEF IInv
<1>3. PICK k \in 0..Len(names) : Progress(k)  BY <1>1 DEF IInv, WordsAreNames
<1>4. k # Len(names)
  <2>1. ~AtEnd(SkipWhitespaces(position))  BY DEF ReadWord
  <2> QED  BY <1>2, <1>3, <2>1, EndIsReached
<1>5. k \in 0..(Len(names) - 1) /\ k + 1 \in 0..Len(names)
  <2>1. names \in Seq(Seq(Characters))  BY <1>2 DEF TypeOK
  <2> QED  BY <1>4, <2>1
<1> DEFINE start == SkipWhitespaces(position)
<1>6. /\ Append(words, unEscape(WordAt(start).word)) = Read(k + 1)
      /\ WordAt(start).next = Len(LineTo(k + 1)) + 1
  BY <1>1, <1>2, <1>3, <1>5, NextNameIsRead
<1>7. /\ words' = Append(words, unEscape(WordAt(start).word)) /\ position' = WordAt(start).next
      /\ names' = names
  BY DEF ReadWord
<1> HIDE DEF start
<1>8. Read(k + 1)' = Read(k + 1) /\ LineTo(k + 1)' = LineTo(k + 1)
  BY <1>7 DEF LineTo, Read
<1>9. Progress(k + 1)'  BY <1>6, <1>7, <1>8 DEF Progress
<1> QED  BY <1>1, <1>5, <1>9

LEMMA WordsOfReadEnd == IInv /\ ReadEnd => WordsAreNames'
<1> SUFFICES ASSUME IInv, ReadEnd, AllQuotable'
             PROVE  ~reading' /\ (words = Expected)'
  BY DEF WordsAreNames, ReadEnd
<1>1. AllQuotable /\ reading /\ ~reading'  BY DEF ReadEnd, AllQuotable
<1>2. TypeOK /\ LineIsOfNames  BY DEF IInv
<1>3. PICK k \in 0..Len(names) : Progress(k)  BY <1>1 DEF IInv, WordsAreNames
<1>4. names \in Seq(Seq(Characters))  BY <1>2 DEF TypeOK
<1>5. k = Len(names)
  <2> SUFFICES ASSUME k # Len(names) PROVE FALSE  OBVIOUS
  <2>1. k \in 0..(Len(names) - 1)  BY <1>4
  <2>2. AtEnd(SkipWhitespaces(position))  BY DEF ReadEnd
  <2> QED  BY <1>1, <1>2, <1>3, <2>1, <2>2, NextNameIsRead
<1>6. SkipWhitespaces(position) # position <=> line # CompletedLine(names)
  BY <1>2, <1>3, <1>5, EndIsReached
<1>7. words = names  BY <1>3, <1>4, <1>5, LineToAll DEF Progress
<1>8. /\ words' = IF addEmpty /\ SkipWhitespaces(position) # position
                  THEN Append(words, <<>>) ELSE words
      /\ names' = names /\ line' = line /\ addEmpty' = addEmpty
  BY DEF ReadEnd
<1>9. words' = Expected
  <2>1. CASE addEmpty /\ line # CompletedLine(names)
    BY <1>6, <1>7, <1>8, <2>1, Zenon DEF Expected
  <2>2. CASE ~(addEmpty /\ line # CompletedLine(names))
    BY <1>6, <1>7, <1>8, <2>2, Zenon DEF Expected
  <2> QED  BY <2>1, <2>2
<1>10. Expected' = Expected  BY <1>8 DEF Expected, CompletedLine
<1> QED  BY <1>1, <1>9, <1>10

LEMMA InvariantStep == IInv /\ [Next]_vars => IInv'
<1> SUFFICES ASSUME IInv, [Next]_vars PROVE IInv'  OBVIOUS
<1>1. TypeOK /\ LineIsOfNames /\ WordsAreNames  BY DEF IInv
<1>2. CASE ReadWord
  <2>1. TypeOK'  BY <1>1, <1>2, TypeOfReadWord
  <2>2. LineIsOfNames'  BY <1>1, <1>2 DEF LineIsOfNames, ReadWord
  <2>3. WordsAreNames'  BY <1>2, WordsOfReadWord
  <2> QED  BY <2>1, <2>2, <2>3 DEF IInv
<1>3. CASE ReadEnd
  <2>1. TypeOK'  BY <1>1, <1>3, TypeOfReadEnd
  <2>2. LineIsOfNames'  BY <1>1, <1>3 DEF LineIsOfNames, ReadEnd
  <2>3. WordsAreNames'  BY <1>3, WordsOfReadEnd
  <2> QED  BY <2>1, <2>2, <2>3 DEF IInv
<1>4. CASE UNCHANGED vars
  <2>1. /\ names' = names /\ line' = line /\ addEmpty' = addEmpty
        /\ position' = position /\ words' = words /\ reading' = reading
    BY <1>4 DEF vars
  <2>2. TypeOK'  BY <1>1, <2>1 DEF TypeOK
  <2>3. LineIsOfNames'  BY <1>1, <2>1 DEF LineIsOfNames
  <2>4. WordsAreNames'
    BY <1>1, <2>1 DEF WordsAreNames, AllQuotable, Progress, Read, LineTo, Expected
  <2> QED  BY <2>2, <2>3, <2>4 DEF IInv
<1> QED  BY <1>2, <1>3, <1>4 DEF Next

\* While the line is read, the words found are the first names it was made of, and the reading
\* stands directly behind the piece of the last of them.
THEOREM ReadingFollowsTheNames == Spec => []IInv
<1>1. Init => IInv  BY InvariantInitially
<1>2. IInv /\ [Next]_vars => IInv'  BY InvariantStep
<1> QED  BY <1>1, <1>2, PTL DEF Spec

\* The reading stays within the line, and what it finds are words of its characters.
THEOREM ParsingTypeCorrect == Spec => []TypeOK
<1>1. IInv => TypeOK  BY DEF IInv
<1> QED  BY <1>1, ReadingFollowsTheNames, PTL

\* Completion and execution read names of any length, quoted where that is necessary, back
\* from the line as they were, for any number of names (helper.cpp, parseLine).
THEOREM NamesAreReadBack == Spec => []QuotedNamesAreReadBack
<1>1. IInv => QuotedNamesAreReadBack
  BY DEF IInv, WordsAreNames, AllQuotable, QuotedNamesAreReadBack
<1> QED  BY <1>1, ReadingFollowsTheNames, PTL
=============================================================================
