-------------------------- MODULE CommandLineParsing --------------------------
(* How a line becomes words and words become a line: parseLine and getNextWord *)
(* of src/src/fep_control_tool/helper.cpp, quoteNameIfNecessary and unEscape   *)
(* of control_tool_common_helper.h, and the line TAB completion makes of the   *)
(* words it was given (fep_control_commandline.cpp).  A name with blanks,      *)
(* quotes or backslashes is quoted there so that the parsing finds it again.   *)
(*                                                                             *)
(* The line is read word by word.  A character is one of the five the code     *)
(* tells apart; a name is a sequence of them.                                  *)
EXTENDS Naturals, Sequences, SequencesExt

CONSTANTS
    MaxLength,     \* bound: how long a name is
    MaxCharacters, \* bound: how many characters the names of a line have together
    MaxWords       \* bound: how many names a line is made of

ASSUME BoundsAssumption == MaxLength \in Nat /\ MaxCharacters \in Nat /\ MaxWords \in Nat

Quotes     == {"\"", "'"}
Characters == {"a", " ", "\\"} \cup Quotes
Names      == BoundedSeq(Characters, MaxLength)

VARIABLES
    names,     \* the names the line was made of
    line,      \* the line
    addEmpty,  \* it is read for completion, which looks for one more word
    position,  \* how far it has been read
    words,     \* the words found in it
    reading    \* it is still being read

vars == <<names, line, addEmpty, position, words, reading>>

-----------------------------------------------------------------------------
(* From names to a line *)

NeedsQuotes(name) == name = <<>> \/ Contains(name, " ")

Escaped(name) ==
    FlattenSeq([i \in DOMAIN name |->
                  IF name[i] \in {"\"", "\\"} THEN <<"\\", name[i]>> ELSE <<name[i]>>])

quoteNameIfNecessary(name) ==
    IF NeedsQuotes(name) THEN <<"\"">> \o Escaped(name) \o <<"\"">> ELSE Escaped(name)

\* What completion puts on the line: the quoted words, one blank between them.
CompletedLine(ns) ==
    FlattenSeq([i \in DOMAIN ns |->
                  (IF i > 1 THEN <<" ">> ELSE <<>>) \o quoteNameIfNecessary(ns[i])])

-----------------------------------------------------------------------------
(* From a line to words *)

\* A backslash takes the next character as it is; a last one stands for itself.
unEscape(word) ==
    LET escaped[i \in DOMAIN word] == i > 1 /\ word[i - 1] = "\\" /\ ~escaped[i - 1]
        Kept(i) == word[i] # "\\" \/ escaped[i] \/ i = Len(word)
    IN  FlattenSeq([i \in DOMAIN word |-> IF Kept(i) THEN <<word[i]>> ELSE <<>>])

AtEnd(i)   == i > Len(line)
IsSpace(i) == ~AtEnd(i) /\ line[i] = " "

SkipWhitespaces(i) ==
    CHOOSE j \in i..(Len(line) + 1) : ~IsSpace(j) /\ \A k \in i..(j - 1) : IsSpace(k)

\* Character j of a quoted part that begins at i is escaped: a backslash precedes
\* it that itself follows no backslash.
EscapeActive(i, j) == /\ j - 1 > i /\ line[j - 1] = "\\"
                      /\ line[j - 2] # "\\"

\* Slip: the quoted part ends at the first quote, escaped or not.
FirstQuote(i) ==
    CHOOSE j \in (i + 1)..(Len(line) + 1) :
        LET Closes(k) == AtEnd(k) \/ line[k] = line[i]
        IN  Closes(j) /\ \A k \in (i + 1)..(j - 1) : ~Closes(k)

\* Where the part that the quote at i opens is closed, at the latest by the end.
ClosingQuote(i) ==
    CHOOSE j \in (i + 1)..(Len(line) + 1) :
        LET Closes(k) == AtEnd(k) \/ (line[k] = line[i] /\ ~EscapeActive(i, k))
        IN  Closes(j) /\ \A k \in (i + 1)..(j - 1) : ~Closes(k)

\* The end of a word that begins without a quote at i: a blank outside the parts
\* that quotes enclose.  Its first character opens no such part.
PlainWordEnd(i) ==
    LET end[j \in 1..(Len(line) + 1)] ==
            IF AtEnd(j) \/ IsSpace(j) THEN j
            ELSE IF ~AtEnd(j + 1) /\ line[j + 1] \in Quotes
                 THEN end[ClosingQuote(j + 1)]
                 ELSE end[j + 1]
    IN  end[i]

\* The word at i and the position after it; quotes around it are taken off.
WordAt(i) ==
    IF line[i] \in Quotes
    THEN LET close == ClosingQuote(i)
         IN  [word |-> SubSeq(line, i + 1, close - 1),
              next |-> IF AtEnd(close) THEN close ELSE close + 1]
    ELSE LET end == PlainWordEnd(i)
         IN  [word |-> SubSeq(line, i, end - 1), next |-> end]

-----------------------------------------------------------------------------
TypeOK == /\ names \in Seq(Seq(Characters))
          /\ line \in Seq(Characters)
          /\ addEmpty \in BOOLEAN
          /\ position \in 1..(Len(line) + 1)
          /\ words \in Seq(Seq(Characters))
          /\ reading \in BOOLEAN

\* The line completion makes of some names, as it is or with a blank typed after it.
Init == /\ names \in {ns \in BoundedSeq(Names, MaxWords) : Len(FlattenSeq(ns)) <= MaxCharacters}
        /\ line \in {CompletedLine(names), Append(CompletedLine(names), " ")}
        /\ addEmpty \in BOOLEAN
        /\ position = 1
        /\ words = <<>>
        /\ reading = TRUE

\* Slip: the character that ends a word is skipped.
ReadWordAndBlank ==
    LET start == SkipWhitespaces(position) IN
    /\ reading /\ ~AtEnd(start)
    /\ words' = Append(words, unEscape(WordAt(start).word))
    /\ position' = WordAt(start).next + 1
    /\ UNCHANGED <<names, line, addEmpty, reading>>

ReadWord ==
    LET start == SkipWhitespaces(position) IN
    /\ reading /\ ~AtEnd(start)
    /\ words' = Append(words, unEscape(WordAt(start).word))
    /\ position' = WordAt(start).next
    /\ UNCHANGED <<names, line, addEmpty, reading>>

\* Behind a blank completion is asked for a word that has no character yet.
ReadEnd ==
    LET start == SkipWhitespaces(position) IN
    /\ reading /\ AtEnd(start)
    /\ words' = IF addEmpty /\ start # position THEN Append(words, <<>>) ELSE words
    /\ position' = start
    /\ reading' = FALSE
    /\ UNCHANGED <<names, line, addEmpty>>

Next == ReadWord \/ ReadEnd

Spec == Init /\ [][Next]_vars

-----------------------------------------------------------------------------
(* Properties *)

\* The names the quoting is made for: quotes of either kind only in a name that
\* is put in quotes, and no double quote directly behind a backslash.
Quotable(name) ==
    /\ (\E q \in Quotes : Contains(name, q)) => NeedsQuotes(name)
    /\ \A i \in 1..(Len(name) - 1) : ~(name[i] = "\\" /\ name[i + 1] = "\"")

Expected == IF addEmpty /\ line # CompletedLine(names) THEN Append(names, <<>>) ELSE names

\* A line that completion made of quotable names is read back as these names, by
\* the execution of the line and by the next completion, which gets one empty
\* word more when a blank was typed.
QuotedNamesAreReadBack ==
    ~reading /\ (\A i \in DOMAIN names : Quotable(names[i])) => words = Expected

-----------------------------------------------------------------------------
\* changelog.md, "FEPSDK-3034 handle spaces and special characters correctly in
\* completion and interpreting the command line": the same for every name.
AnyNameIsReadBack == ~reading => words = Expected
=============================================================================
