------------------------------ MODULE Intervals ------------------------------
(***************************************************************************)
(* Durations: the pieces that the grammar finds in the text of an          *)
(* INTERVAL, what to_interval_call() makes of a piece and                  *)
(* cast_interval_call() of the pieces and the unit that may follow, and    *)
(* what Formatter's _interval writes.                                      *)
(*                                                                         *)
(* A duration is a sequence of amounts, each with its unit.                *)
(***************************************************************************)
EXTENDS Integers, Sequences, SequencesExt

Amount(n, unit) == [amount |-> n, unit |-> unit]

\* Pieces are written 1-2 +3 (a year, a month and three days), 3 4:05:06 (days
\* and time) or 1 year 2 mons.  sign is what stands before a piece, or "ago"
\* after it; day_sign stands before the days of the first form.
Piece(sign, day_sign, amounts) == [sign |-> sign, day_sign |-> day_sign, amounts |-> amounts]

\* A number alone has the name "expr" in the grammar, and no unit yet.
Number(n) == Piece("", "", <<Amount(n, "expr")>>)

Signs    == {"", "+", "-", "ago"}
DaySigns == {"", "+", "-"}

\* ago: any sign makes it -1.
IsAgo(piece) == piece.sign # ""

\* Variant to break ValueKept: the sign before the days is not looked at.
IsNegatedAllDays(piece, x) == IsAgo(piece)

\* A plus before the days undoes the sign of the piece for them.
IsNegated(piece, x) ==
    IF x.unit = "day" /\ IsAgo(piece) /\ piece.day_sign = "+" THEN FALSE ELSE IsAgo(piece)

Signed(negated, x) == IF negated THEN [x EXCEPT !.amount = -@] ELSE x

\* A number alone becomes an interval without a unit; but "if expr" misses 0,
\* which keeps the name it has in the grammar for its unit.
to_interval_call(piece) ==
    LET x == piece.amounts[1] IN
    IF x.unit = "expr" /\ x.amount # 0 THEN <<Amount(x.amount, "")>>
    ELSE [i \in DOMAIN piece.amounts |->
            Signed(IsNegated(piece, piece.amounts[i]), piece.amounts[i])]

\* The unit after the text is for a number alone; for anything else it is a cast.
cast_interval_call(pieces, type) ==
    LET acc == FlattenSeq([i \in DOMAIN pieces |-> to_interval_call(pieces[i])])
        alone == Len(acc) = 1 /\ acc[1].unit = ""
    IN  IF alone
        THEN [acc |-> <<[acc[1] EXCEPT !.unit = IF type = "" THEN "second" ELSE type]>>, cast |-> ""]
        ELSE [acc |-> acc, cast |-> type]

-----------------------------------------------------------------------------
(* What the text says, by SQL: a minus is for the whole piece but for days *)
(* that have a sign of their own, and "ago" reverses.                      *)

SaidNegative(piece, x) ==
    IF x.unit = "day" /\ piece.day_sign # "" THEN piece.day_sign = "-" ELSE piece.sign = "-"

\* "ago" at the end is for all that stands before it.
Said(piece, ago) ==
    [i \in DOMAIN piece.amounts |->
       Signed(SaidNegative(piece, piece.amounts[i]) # ago, piece.amounts[i])]

\* The amounts that a duration is the sum of.
SaidOf(pieces, type) ==
    LET unit == IF type = "" THEN "second" ELSE type
        Unit(x) == IF x.unit = "expr" THEN [x EXCEPT !.unit = unit] ELSE x
        ago == Last(pieces).sign = "ago"
        all == FlattenSeq([i \in DOMAIN pieces |-> Said(pieces[i], ago)])
    IN  [i \in DOMAIN all |-> Unit(all[i])]
=============================================================================
