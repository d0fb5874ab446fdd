----------------------------- MODULE Delimiters -----------------------------
(***************************************************************************)
(* parse_delimiters() (mo_sql_parsing/__init__.py): a script is cut into   *)
(* the strings that are parsed one at a time.  A DELIMITER line changes    *)
(* what ends a statement; while that is `ignore`, the grammar itself does  *)
(* the cutting and the text between two DELIMITER lines stays whole.       *)
(*                                                                         *)
(* The code searches the rest of the script with regular expressions.  The *)
(* client below reads the script line by line, and ends a statement only   *)
(* at the end of a line; MySQL's own client ends one inside a line too.    *)
(*                                                                         *)
(* Text is a sequence of tokens: words, characters of delimiters, and a    *)
(* DELIMITER command with its argument as one token.                       *)
(***************************************************************************)
EXTENDS Naturals, Sequences, SequencesExt

CONSTANTS
    Tokens,        \* what texts are made of
    Scripts,       \* what clients pass as `sql`: sequences of lines
    Ignores,       \* what they pass as `ignore`: a delimiter, or <<>> for None
    argument,      \* the delimiter that each DELIMITER command sets
    Blank, Newline,
    none

Space == {Blank, Newline}
Semicolon == <<";">>

\* A delimiter is what is left of the rest of a line by str.strip(), and it is
\* not empty.
IsDelimiter(text) ==
    /\ text # <<>>
    /\ Newline \notin ToSet(text)
    /\ text[1] \notin Space /\ text[Len(text)] \notin Space

ASSUME DelimitersAssumption ==
    /\ none \notin DOMAIN argument
    /\ (DOMAIN argument) \cap Space = {}
    /\ \A d \in DOMAIN argument : argument[d] \in Seq(Tokens) /\ IsDelimiter(argument[d])
    /\ IsDelimiter(Semicolon)

\* The argument of a DELIMITER command is all that follows on its line.
ASSUME ScriptsAssumption ==
    /\ Newline \in Tokens
    /\ Scripts \subseteq Seq(Seq(Tokens))
    /\ \A lines \in Scripts : \A i \in DOMAIN lines : \A j \in DOMAIN lines[i] :
          /\ lines[i][j] # Newline
          /\ lines[i][j] \in DOMAIN argument => j = Len(lines[i])

\* The lines as one text.
Text(lines) ==
    FlattenSeq([i \in DOMAIN lines |->
                  IF i = Len(lines) THEN lines[i] ELSE Append(lines[i], Newline)])

IsBlank(text) == \A i \in DOMAIN text : text[i] \in Space

\* str.strip()
Strip(text) ==
    LET words == {i \in DOMAIN text : text[i] \notin Space}
    IN  IF words = {} THEN <<>>
        ELSE SubSeq(text, CHOOSE i \in words : \A j \in words : i <= j,
                          CHOOSE i \in words : \A j \in words : i >= j)

VARIABLES
    script, ignore,   \* the arguments
    sql,              \* the rest of the script
    block,            \* the rest of the text before the DELIMITER command
    found,            \* that command, or none
    delimiter,
    yielded,
    pc

vars == <<script, ignore, sql, block, found, delimiter, yielded, pc>>

Init ==
    /\ script \in Scripts
    /\ ignore \in Ignores
    /\ sql = Text(script)
    /\ block = <<>>
    /\ found = none
    /\ delimiter = Semicolon
    /\ yielded = <<>>
    /\ pc = "search"

\* delimiter_pattern: a command alone on its line, with the blank lines and
\* spaces before it.
Commands ==
    {m \in (DOMAIN sql) \X {i \in DOMAIN sql : sql[i] \in DOMAIN argument} :
        /\ m[1] = 1 \/ sql[m[1] - 1] = Newline
        /\ m[1] <= m[2] /\ IsBlank(SubSeq(sql, m[1], m[2] - 1))
        /\ m[2] = Len(sql) \/ sql[m[2] + 1] = Newline}

First(matches) ==
    CHOOSE m \in matches : \A n \in matches : m[1] <= n[1]

Search ==
    /\ pc = "search"
    /\ IF Commands = {}
       THEN /\ block' = Strip(sql)
            /\ found' = none
            /\ UNCHANGED sql
       ELSE LET m == First(Commands) IN
            /\ block' = Strip(SubSeq(sql, 1, m[1] - 1))
            /\ found' = sql[m[2]]
            /\ sql' = SubSeq(sql, m[2] + 1, Len(sql))
    /\ pc' = IF block' = <<>> THEN "command" ELSE "block"
    /\ UNCHANGED <<script, ignore, delimiter, yielded>>

YieldWhole ==
    /\ pc = "block"
    /\ delimiter = ignore
    /\ yielded' = Append(yielded, block)
    /\ pc' = "command"
    /\ UNCHANGED <<script, ignore, sql, block, found, delimiter>>

\* What follows the delimiter at i, up to j.
Delimited(i, j) == SubSeq(block, i + Len(delimiter), j)

DelimitersAt ==
    {i \in 1 .. Len(block) + 1 - Len(delimiter) :
        SubSeq(block, i, i + Len(delimiter) - 1) = delimiter}

\* Variant to break SameAsClient: the delimiter need not end its line.
EndersAnywhere == {<<i, i + Len(delimiter) - 1>> : i \in DelimitersAt}

\* Variant to break NothingLost: the rest of the line is taken as well.
EndersToEnd ==
    {m \in DelimitersAt \X (DOMAIN block) :
        /\ m[1] + Len(delimiter) - 1 <= m[2]
        /\ m[2] = Len(block) \/ block[m[2]] = Newline}

\* splitter: the delimiter, and space up to the end of a line, the last one
\* that can be reached.  A match is the first and last position.
Enders ==
    {m \in DelimitersAt \X (DOMAIN block) :
        /\ m[1] + Len(delimiter) - 1 <= m[2]
        /\ IsBlank(Delimited(m[1], m[2]))
        /\ m[2] = Len(block) \/ block[m[2]] = Newline}

\* Leftmost, then greedy.
Ender ==
    CHOOSE m \in Enders :
        \A n \in Enders : m[1] < n[1] \/ (m[1] = n[1] /\ m[2] >= n[2])

YieldStatement ==
    /\ pc = "block"
    /\ delimiter # ignore
    /\ Enders # {}
    /\ yielded' = Append(yielded, SubSeq(block, 1, Ender[1] - 1))
    /\ block' = SubSeq(block, Ender[2] + 1, Len(block))
    /\ UNCHANGED <<script, ignore, sql, found, delimiter, pc>>

\* The rest is yielded also when there is none.
YieldRest ==
    /\ pc = "block"
    /\ delimiter # ignore
    /\ Enders = {}
    /\ yielded' = Append(yielded, block)
    /\ block' = <<>>
    /\ pc' = "command"
    /\ UNCHANGED <<script, ignore, sql, found, delimiter>>

YieldCommand ==
    /\ pc = "command"
    /\ found # none
    /\ yielded' = Append(yielded, <<found>>)
    /\ delimiter' = argument[found]
    /\ pc' = "search"
    /\ UNCHANGED <<script, ignore, sql, block, found>>

\* Variant to break EveryScriptEnds: the loop is left when nothing remains.
FinishEmpty ==
    /\ pc = "command"
    /\ found = none
    /\ sql = <<>>
    /\ pc' = "done"
    /\ UNCHANGED <<script, ignore, sql, block, found, delimiter, yielded>>

Finish ==
    /\ pc = "command"
    /\ found = none
    /\ pc' = "done"
    /\ UNCHANGED <<script, ignore, sql, block, found, delimiter, yielded>>

Next ==
    \/ Search
    \/ YieldWhole \/ YieldStatement \/ YieldRest
    \/ YieldCommand \/ Finish

Spec == Init /\ [][Next]_vars

\* _parse() asks for the next string until there is none.
FairSpec == Spec /\ WF_vars(Next)

-----------------------------------------------------------------------------
(* What the cutting should come to.                                        *)

WithoutUpTo(seq, dropped) ==
    LET upTo[n \in 0 .. Len(seq)] ==
            IF n = 0 THEN <<>>
            ELSE IF seq[n] \in dropped THEN upTo[n - 1]
            ELSE Append(upTo[n - 1], seq[n])
    IN  upTo

\* What remains of a sequence, and above of each start of it.
Without(seq, dropped) == WithoutUpTo(seq, dropped)[Len(seq)]

Words(text) == Without(text, Space)

\* The client: the statements so far, the words of the next one, the
\* delimiter, and the delimiter at which nothing is cut.
Reader(statements, pending, ender, whole) ==
    [statements |-> statements, pending |-> pending, ender |-> ender, whole |-> whole]

Flushed(r, text) ==
    IF text = <<>> THEN r.statements ELSE Append(r.statements, text)

ReadLine(r, line) ==
    LET text == Strip(line)
        kept == Len(text) - Len(r.ender)
    IN  IF Len(text) = 1 /\ text[1] \in DOMAIN argument
        THEN Reader(Append(Flushed(r, r.pending), text), <<>>,
                    argument[text[1]], r.whole)
        ELSE IF r.ender # r.whole /\ IsSuffix(r.ender, text)
        THEN Reader(Flushed(r, r.pending \o Words(SubSeq(text, 1, kept))), <<>>,
                    r.ender, r.whole)
        ELSE Reader(r.statements, r.pending \o Words(text), r.ender, r.whole)

\* After each line of the script.
ClientUpTo ==
    LET upTo[n \in 0 .. Len(script)] ==
            IF n = 0 THEN Reader(<<>>, <<>>, Semicolon, ignore)
            ELSE ReadLine(upTo[n - 1], script[n])
    IN  upTo

ClientStatements ==
    LET end == ClientUpTo[Len(script)] IN Flushed(end, end.pending)

Statements == Without([i \in DOMAIN yielded |-> Words(yielded[i])], {<<>>})

\* Apart from space, and from empty strings, the statements that come out are
\* those that the line by line client reads.
SameAsClient == pc = "done" => Statements = ClientStatements

\* What a text may lose: space, and what delimiters are made of.
Dropped ==
    Space \cup ToSet(Semicolon) \cup UNION {ToSet(argument[d]) : d \in DOMAIN argument}

Kept(text) == Without(text, Dropped)

\* What comes after the block: the command that was found and what follows it.
AfterBlock == IF found = none THEN <<>> ELSE <<found>> \o sql

\* What is still to be yielded.
Left ==
    CASE pc = "search" -> sql
      [] pc = "block" -> block \o AfterBlock
      [] OTHER -> AfterBlock

\* All the time, the words of the script are in what was yielded and what is
\* left, in order: only delimiters and space are dropped.
NothingLost == Kept(FlattenSeq(yielded) \o Left) = Kept(Text(script))

\* The generator ends.
EveryScriptEnds == <>(pc = "done")
=============================================================================
