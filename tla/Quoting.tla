------------------------------- MODULE Quoting -------------------------------
(***************************************************************************)
(* Names and texts in quotes: what the parse actions of utils.py make of   *)
(* what stands between the quotes, by way of a Python literal, and how     *)
(* escape() and _literal() of formatting.py write a name and a text.       *)
(*                                                                         *)
(* A text is a sequence of characters.  "k" stands for the letters but     *)
(* "n", which means something after a backslash; "1" for the digits, "$"   *)
(* for what the grammar takes in a name and VALID does not, and "select"   *)
(* for a reserved word.                                                    *)
(***************************************************************************)
EXTENDS Integers, SequencesExt

Backslash == "\\"
Quote     == "\""
NewLine   == "\n"
Backtick  == "backtick"

Alphabet == <<"k", "n", "1", "$", "select", " ", ".", "'", Backtick, Quote, Backslash, NewLine>>

\* A text, or a part of a name, as written: plain, or raw between two quotes.
Part(quote, raw) == [quote |-> quote, raw |-> raw]

\* str.replace(): of a character, and of two of it in a row.
Replace(s, c, by) == FlattenSeq([i \in DOMAIN s |-> IF s[i] = c THEN by ELSE <<s[i]>>])

ReplacePairs(s, c, by) ==
    LET Step(a, x) ==
            IF x # c THEN [done |-> a.done \o a.half \o <<x>>, half |-> <<>>]
            ELSE IF a.half = <<>> THEN [a EXCEPT !.half = <<c>>]
            ELSE [done |-> a.done \o by, half |-> <<>>]
        last == FoldLeft(Step, [done |-> <<>>, half |-> <<>>], s)
    IN  last.done \o last.half

-----------------------------------------------------------------------------
(* Parsing.  A Python literal that is not one raises an exception.         *)

Refused == [ok |-> FALSE, text |-> <<>>]
Text(s) == [ok |-> TRUE, text |-> s]

Unescaped(c) ==
    IF c = "n" THEN <<NewLine>>
    ELSE IF c \in {Backslash, Quote, "'"} THEN <<c>>
    ELSE <<Backslash, c>>

\* What stands between double quotes, one or three: a quote ends it, or may
\* stand in it if there are three and it is not the last character.
literal_eval(s, three) ==
    LET Step(a, c) ==
            IF a.escape THEN [a EXCEPT !.done = @ \o Unescaped(c), !.escape = FALSE]
            ELSE IF c = Backslash THEN [a EXCEPT !.escape = TRUE, !.quote = FALSE]
            ELSE [a EXCEPT !.done = Append(@, c), !.quote = (c = Quote),
                           !.bad = @ \/ (~three /\ c \in {Quote, NewLine})]
        last == FoldLeft(Step, [done |-> <<>>, escape |-> FALSE, quote |-> FALSE, bad |-> FALSE], s)
    IN  IF last.bad \/ last.escape \/ last.quote THEN Refused ELSE Text(last.done)

\* Variant to break ValueKept: double quotes in it are left as they are.
single_literal_bare(raw) == literal_eval(ReplacePairs(raw, "'", <<Backslash, "'">>), TRUE)

single_literal(raw) ==
    literal_eval(Replace(ReplacePairs(raw, "'", <<Backslash, "'">>), Quote, <<Backslash, Quote>>), TRUE)

double_column(raw) == literal_eval(ReplacePairs(raw, Quote, <<Backslash, Quote>>), FALSE)

backtick_column(raw) ==
    literal_eval(Replace(ReplacePairs(raw, Backtick, <<Backtick>>), Quote, <<Backslash, Quote>>), FALSE)

\* A dot in a part is told from the dots between parts.
literal_field(s) == Replace(s, ".", <<".", ".">>)

\* A name without quotes; only the first part of one must not be reserved.
simple_ident(s, first) ==
    /\ s # <<>> /\ s[1] # "1"
    /\ ToSet(s) \subseteq {"k", "n", "1", "$"} \/ (s = <<"select">> /\ ~first)

ReadPart(part, first) ==
    IF part.quote = Quote THEN double_column(part.raw)
    ELSE IF part.quote = Backtick THEN backtick_column(part.raw)
    ELSE IF simple_ident(part.raw, first) THEN Text(part.raw)
    ELSE Refused

\* The parts make one text, with dots between them.
ident(parts) ==
    LET read == [i \in DOMAIN parts |-> ReadPart(parts[i], i = 1)]
        Field(i) == (IF i = 1 THEN <<>> ELSE <<".">>) \o literal_field(read[i].text)
    IN  IF \A i \in DOMAIN parts : read[i].ok
        THEN Text(FlattenSeq([i \in DOMAIN parts |-> Field(i)]))
        ELSE Refused

-----------------------------------------------------------------------------
(* Formatting.                                                             *)

\* The parts are told by the single dots.
split_field(s) ==
    LET Extended(parts, c) == [parts EXCEPT ![Len(parts)] = Append(@, c)]
        Step(a, c) ==
            IF c # "."
            THEN [dot |-> FALSE, parts |-> IF a.dot THEN Append(a.parts, <<c>>) ELSE Extended(a.parts, c)]
            ELSE IF a.dot THEN [dot |-> FALSE, parts |-> Extended(a.parts, ".")]
            ELSE [a EXCEPT !.dot = TRUE]
    IN  FoldLeft(Step, [dot |-> FALSE, parts |-> << <<>> >>], s).parts

VALID(s) == s # <<>> /\ s[1] # "1" /\ ToSet(s) \subseteq {"k", "n", "1", "select"}

is_keyword(s) == s = <<"select">>

_should_quote(s) == ~VALID(s) \/ is_keyword(s)

\* Variant to break RoundTrip: the quotes in it are not doubled.
esc_bare(s) == IF _should_quote(s) THEN Part(Quote, s) ELSE Part("", s)

esc(s) ==
    IF _should_quote(s) THEN Part(Quote, Replace(s, Quote, <<Quote, Quote>>)) ELSE Part("", s)

escape(name) == [i \in DOMAIN split_field(name) |-> esc(split_field(name)[i])]

_literal(s) == Part("'", Replace(s, "'", <<"'", "'">>))

-----------------------------------------------------------------------------
(* SQL's own reading: between quotes, only the quote means something, and  *)
(* stands for itself when doubled.                                         *)

Quoted(quote, s) == Part(quote, Replace(s, quote, <<quote, quote>>))

Content(part) ==
    IF part.quote = "" THEN part.raw ELSE ReplacePairs(part.raw, part.quote, <<part.quote>>)

\* A number for the texts, each of few characters, to tell them apart.
Code(texts) ==
    LET Ordinal(c) == CHOOSE i \in DOMAIN Alphabet : Alphabet[i] = c
        Digits(s) == <<0>> \o [i \in DOMAIN s |-> Ordinal(s[i])]
    IN  FoldLeft(LAMBDA n, d : 13 * n + d, 1, FlattenSeq([i \in DOMAIN texts |-> Digits(texts[i])]))
=============================================================================
