----------------------------- MODULE WindowFrame -----------------------------
(***************************************************************************)
(* The frame of a window function, ROWS or RANGE ..., on its way through   *)
(* the library: windows.py parses it to a range {"min": , "max": } of      *)
(* offsets from the current row, formatting.py writes a range as text, and *)
(* that text can be parsed again.                                          *)
(*                                                                         *)
(* An offset is a number of rows, or a number of times an expression (an   *)
(* interval, say): {"neg": e} is minus one times e.  A key that is missing *)
(* from the range is Missing.                                              *)
(***************************************************************************)
EXTENDS Integers

CONSTANTS
    Exprs,     \* expressions that RANGE takes as a limit
    Frames     \* the frames that clients write

Offset(n, of) == [n |-> n, of |-> of]
Rows(n)       == Offset(n, "row")
Unbounded     == Offset(0, "unbounded")
Missing       == Offset(0, "missing")

IsData(v) == v.of \in Exprs

(* A bound is CURRENT ROW, or a limit and a direction.                     *)
Bound(limit, direction) == [limit |-> limit, direction |-> direction]
CurrentRow == Bound(Rows(0), "current row")

(* A frame with one bound, or BETWEEN lo AND hi.                           *)
Single(unit, b)        == [unit |-> unit, between |-> FALSE, lo |-> b, hi |-> b]
Between(unit, lo, hi)  == [unit |-> unit, between |-> TRUE, lo |-> lo, hi |-> hi]

Range(min, max) == [min |-> min, max |-> max]

\* No "range" key at all, as opposed to a range without keys.
NoRange == Range(Offset(0, "none"), Offset(0, "none"))

ASSUME ExprsAssumption ==
    Exprs \cap {"row", "unbounded", "missing", "none"} = {}

-----------------------------------------------------------------------------
(* Parsing: windows.py.                                                    *)

Neg(v) == Offset(0 - v.n, v.of)

\* An expression that follows is negated like one that precedes.
ToBound(b) ==
    IF b.direction = "current row" THEN Range(Rows(0), Rows(0))
    ELSE IF b.direction = "preceding" THEN
        IF b.limit = Unbounded THEN Range(Missing, Rows(0))
        ELSE Range(Neg(b.limit), Rows(0))
    ELSE
        IF b.limit = Unbounded THEN Range(Rows(0), Missing)
        ELSE IF IsData(b.limit) THEN Range(Neg(b.limit), Rows(0))
        ELSE Range(Rows(0), b.limit)

\* Variant to break LimitsKept: the first side is taken of both.
ToBetweenOutside(lo, hi) == Range(lo.min, hi.max)

\* Each bound is a range of its own, with 0 on the side of the current row;
\* what is wanted is the other side.
ToBetween(lo, hi) ==
    IF hi.max = Rows(0) THEN Range(lo.min, hi.min)
    ELSE IF lo.min = Rows(0) THEN Range(lo.max, hi.max)
    ELSE Range(lo.min, hi.max)

\* ROWS and RANGE are suppressed: the range does not say which it was.
Parse(f) ==
    IF f.between THEN ToBetween(ToBound(f.lo), ToBound(f.hi)) ELSE ToBound(f.lo)

-----------------------------------------------------------------------------
(* Formatting: the part of Formatter.value() about over["range"].          *)

\* Comparing a dictionary with 0 is a TypeError; 0 itself gives no words,
\* and extending the list of words with None is a TypeError too.
HasWords(v) == v.of = "row" /\ v.n # 0

\* Variant to break RoundTrip: rows before the current one follow it.
WordySwapped(v) ==
    IF v.n < 0 THEN Bound(Neg(v), "following") ELSE Bound(v, "preceding")

Wordy(v) ==
    IF v.n < 0 THEN Bound(Neg(v), "preceding") ELSE Bound(v, "following")

\* Variant to break FrameMeaning: copied from the branch before.
AfterCopied == Bound(Unbounded, "preceding")

Before == Bound(Unbounded, "preceding")
After  == Bound(Unbounded, "following")

NoText    == Single("none", CurrentRow)
TypeError == Single("error", CurrentRow)

\* The text f, which has the words for v in it.
With(v, f) == IF HasWords(v) THEN f ELSE TypeError

\* Variant to break NoTypeError: the current row has no case of its own.
WrittenBetween(r) ==
    With(r.min, With(r.max, Between("ROWS", Wordy(r.min), Wordy(r.max))))

\* Always ROWS.  A range with neither key gives no text.
Written(r) ==
    IF r.min = Missing THEN
        IF r.max = Missing THEN NoText
        ELSE IF r.max = Rows(0) THEN Single("ROWS", Before)
        ELSE With(r.max, Between("ROWS", Before, Wordy(r.max)))
    ELSE IF r.min = Rows(0) THEN
        IF r.max = Missing THEN Single("ROWS", After)
        ELSE IF r.max = Rows(0) THEN Single("ROWS", CurrentRow)
        ELSE With(r.max, Single("ROWS", Wordy(r.max)))
    ELSE
        IF r.max = Missing THEN With(r.min, Between("ROWS", Wordy(r.min), After))
        ELSE IF r.max = Rows(0) THEN With(r.min, Single("ROWS", Wordy(r.min)))
        ELSE With(r.min, With(r.max, Between("ROWS", Wordy(r.min), Wordy(r.max))))

-----------------------------------------------------------------------------
(* A frame goes from text to tree, to text, and to a tree again.           *)

VARIABLES
    stage,     \* what was done last
    sql,       \* the frame the client wrote
    range,     \* what parse() made of it
    text,      \* what format() made of that
    again      \* what parse() made of the text

vars == <<stage, sql, range, text, again>>

Init ==
    /\ stage = "written"
    /\ sql \in Frames
    /\ range = NoRange
    /\ text = NoText
    /\ again = NoRange

ParseFrame ==
    /\ stage = "written"
    /\ stage' = "parsed"
    /\ range' = Parse(sql)
    /\ UNCHANGED <<sql, text, again>>

FormatFrame ==
    /\ stage = "parsed"
    /\ text' = Written(range)
    /\ stage' = IF text' = TypeError THEN "failed" ELSE "formatted"
    /\ UNCHANGED <<sql, range, again>>

ReparseFrame ==
    /\ stage = "formatted"
    /\ stage' = "reparsed"
    /\ again' = IF text = NoText THEN NoRange ELSE Parse(text)
    /\ UNCHANGED <<sql, range, text>>

Next == ParseFrame \/ FormatFrame \/ ReparseFrame

Spec == Init /\ [][Next]_vars

-----------------------------------------------------------------------------
(* What a frame means, from the SQL standard, and what must follow.        *)

\* Where a bound is, relative to the current row.
Place(b) ==
    IF b.limit = Unbounded THEN Missing
    ELSE IF b.direction = "preceding" THEN Neg(b.limit)
    ELSE b.limit

\* Where a frame starts and ends.  A single bound is between it and the current
\* row; the library reads one that follows as starting at the current row.
Offsets(f) ==
    IF f.between THEN Range(Place(f.lo), Place(f.hi))
    ELSE IF f.lo.direction = "following" THEN Range(Rows(0), Place(f.lo))
    ELSE Range(Place(f.lo), Rows(0))

\* ROWS counts rows, RANGE compares values: the unit is half of the meaning.
Meaning(f) == [unit |-> f.unit, offsets |-> Offsets(f)]

IsRowBound(b) ==
    \/ b = CurrentRow
    \/ /\ b.direction \in {"preceding", "following"}
       /\ b.limit = Unbounded \/ b.limit \in [n : Nat, of : {"row"}]

\* A frame between whole rows that SQL allows: it does not start after it ends.
IsRowFrame(f) ==
    /\ f.unit \in {"ROWS", "RANGE"}
    /\ IsRowBound(f.lo)
    /\ IsRowBound(f.hi)
    /\ IF f.between
       THEN /\ ~(f.lo.limit = Unbounded /\ f.lo.direction = "following")
            /\ ~(f.hi.limit = Unbounded /\ f.hi.direction = "preceding")
            /\ f.lo.limit # Unbounded /\ f.hi.limit # Unbounded =>
                  Place(f.lo).n <= Place(f.hi).n
       ELSE f.hi = f.lo

\* The whole partition: no bound on either side.
WholePartition == Range(Missing, Missing)

\* The range that parse() makes of a frame has the limits of the frame, on the
\* sides where they were.  The unit, ROWS or RANGE, is in no range.
LimitsKept == stage # "written" => range = Offsets(sql)

\* A frame of ROWS comes out of parse() and format() as a frame that means the
\* same.  One of RANGE comes out as ROWS, the only unit that is ever written.
FrameMeaning ==
    stage \in {"formatted", "reparsed"} /\ sql.unit = "ROWS" => Meaning(text) = Meaning(sql)

\* What is written for a range is read back as that range.
RoundTrip == stage = "reparsed" => again = range

\* Formatting a range that parse() made does not fail.
NoTypeError == stage # "failed"

\* windows.py:32 on the branch of ToBound that negates: "# following".
FollowingIsAhead ==
    stage # "written" /\ ~sql.between /\ sql.lo.direction = "following" =>
        range.max # Rows(0)
=============================================================================
