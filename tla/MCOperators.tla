----------------------------- MODULE MCOperators -----------------------------
(***************************************************************************)
(* Expressions up to four operators deep.  WellFormatted leaves out what   *)
(* Formatter gets wrong: operators that never get parentheses, below one   *)
(* that binds more tightly; > next to the other inequalities, & next to |, *)
(* the kinds of LIKE next to each other; and NOT before AND or OR.  It     *)
(* leaves out what the parser gets wrong: IS DISTINCT FROM NULL, a         *)
(* duration of 0, signs that are lost, a unit after several amounts, and   *)
(* backslashes in quotes.                                                  *)
(***************************************************************************)
EXTENDS Operators

Over(ops, S, T)     == {Node(op, <<s, t>>) : op \in ops, s \in S, t \in T}
Over3(ops, S, T, U) == {Node(op, <<s, t, u>>) : op \in ops, s \in S, t \in T, u \in U}
Before(ops, S)      == {Node(op, <<s>>) : op \in ops, s \in S}

Arithmetic == {"*", "/", "+", "-", "&"}
Infixes    == Arithmetic \cup {"<", "=", "<>", "LIKE"}

A == {Name("a")}
B == {Name("b")}
C == {Name("c")}

Simple  == Over(Infixes, A, B)
Deep    == Over(Infixes, Simple \cup C, Simple \cup C)
Sums    == Over({"+", "-", "*", "/"}, A, B)
Chains  == Over({"+", "-", "*", "/"}, Sums \cup C, Sums)

NullTests(S) ==
    Over({"=", "<>", "<=>", "IS", "IS NOT"}, S, {SqlNull}) \cup Over({"=", "<>"}, {SqlNull}, A)

\* Durations, with the signs that are kept.
Ymd == <<Amount(1, "year"), Amount(2, "month"), Amount(3, "day")>>
Hms == <<Amount(4, "hour"), Amount(5, "minute"), Amount(6, "second")>>

Durations ==
    {SqlInterval(<<Number(n)>>, unit) : n \in {2, -3}, unit \in {"", "day", "month"}}
    \cup {SqlInterval(<<Piece(s, "", Hms)>>, "") : s \in {"", "-", "ago"}}
    \cup {SqlInterval(<<Piece(s, d, Ymd)>>, "") : s \in {"", "-"}, d \in {"", "+"}}
    \cup {SqlInterval(<<Piece("-", "-", Ymd)>>, ""),
          SqlInterval(<<Piece("ago", "", <<Amount(1, "year"), Amount(-3, "day")>>)>>, ""),
          SqlInterval(<<Piece("-", "+", Ymd), Piece("-", "", Hms)>>, "")}

Dates ==
    Over({"+", "-"}, A, Durations) \cup Over({"+", "*", "="}, Durations, A)
    \cup Over({"-"}, Over({"+"}, A, Durations), Durations)

\* Names and texts in quotes, without backslashes: see WellFormatted.
Contents(chars, n) == UNION {[1 .. k -> chars] : k \in 1 .. n}
DotInside(s) == "." \notin {s[1], Last(s)}
Texts == {SqlText(Quoted("'", s)) : s \in Contents({"k", "'", Quote, NewLine}, 3) \cup {<<>>}}
InQuotes(n) ==
    {Quoted(q, s) : q \in {Quote, Backtick},
       s \in {x \in Contents({"k", "$", " ", ".", Backtick, Quote}, n) : DotInside(x)}}
Bare == {Part("", <<"k">>), Part("", <<"k", "1">>), Part("", <<"$">>)}
Columns ==
    {SqlColumn(<<p>>) : p \in UNION {InQuotes(3), {Quoted(Quote, <<"1">>), Quoted(Backtick, <<"select">>)}, Bare}}
    \cup {SqlColumn(<<p, q>>) : p \in InQuotes(1) \cup Bare,
            q \in UNION {InQuotes(1), Bare, {Part("", <<"select">>)}}}

\* What stands below an operator of any kind.
Collated == Over({"COLLATE"}, A \cup Sums, B)
Joint    == Over({"||"}, A \cup Over({"||", "+"}, A, B), C \cup Over({"||", "-"}, B, A))
Calls    == Before({"NEG"}, A \cup Sums) \cup Over({"AT TIME ZONE"}, A \cup Simple, B)
            \cup Before({"NEG"}, Before({"NEG"}, A)) \cup Joint
Cases    == UNION {
    Over3({"case"}, Simple, Sums, C), Over3({"case"}, A, {SqlNull}, Calls), Over({"case"}, Simple, C),
    {Node("case", <<x, Name("a"), Name("b"), SqlNull, Name("c")>>) : x \in Simple},
    Over3({"switch"}, A \cup Sums \cup Over({"AND", "=", "LIKE"}, A, B), B \cup Simple, C),
    {Node("switch", <<Name("a"), Name("b"), x, Name("c"), Name("b"), Name("a")>>) : x \in Sums}}
Closed   == Collated \cup Calls \cup Cases

\* Tests, which are below NOT, AND and OR.
Betweens ==
    Over3({"BETWEEN", "NOT BETWEEN"}, A \cup Sums \cup Over({"<", "="}, A, B), B, C \cup Sums)
    \cup Over3({"BETWEEN"}, A, Over({"AND", "OR", "LIKE"}, A, B), Over({"AND", "*"}, B, C) \cup Durations)
FewBetweens == Over3({"BETWEEN"}, A, B, C \cup Sums)
List(x, y) == Node("list", <<x, y>>)
Ins ==
    Over({"IN", "NOT IN"}, A \cup Over({"+", "=", "LIKE", "AND"}, A, B) \cup Over3({"BETWEEN"}, A, B, C),
         {Name("b"), List(Name("b"), Name("c"))} \cup {List(s, Name("c")) : s \in Sums})
LikeOps == {"NOT LIKE", "ILIKE", "NOT ILIKE", "RLIKE", "NOT RLIKE"}
Likings == {Node(op, <<x, y>>) : op \in LikeOps, x \in A \cup Sums, y \in B \cup Simple}
SameLikes == {Node(op, <<Node(op, <<Name("a"), Name("b")>>), Name("c")>>) : op \in LikeOps}

Tests(S) == Over({"<", "=", "LIKE"}, A, B) \cup NullTests(S) \cup C
Negated(S) ==
    Tests(S) \cup Before({"NOT"}, Tests(S)) \cup Before({"NOT"}, Before({"NOT"}, NullTests(S)))
Few     == Over({"AND", "OR"}, A, B \cup Before({"NOT"}, C))
MoreTests == Betweens \cup Ins \cup Likings

\* ~ binds less tightly than the arithmetic, and more than &.
Complements ==
    Before({"~"}, A \cup Sums \cup Before({"~"}, A) \cup Closed)
    \cup Over({"&", "|", "<", "=", "AND"}, Before({"~"}, A \cup Sums), C \cup Before({"~"}, B))

Regexps ==
    Over({"REGEXP", "NOT REGEXP"}, A \cup Few \cup FewBetweens \cup Over({"REGEXP"}, A, B), B \cup Few)

WellFormatted == UNION {
    Deep, Over(Infixes, Chains, C), Over(Infixes, C, Chains),
    Over({"AND", "OR"}, Negated(A), Negated(A)),
    Over({"AND", "OR"}, NullTests(Sums), Negated(A)), Over({"AND", "OR"}, C, Before({"NOT"}, NullTests(Sums))),
    Over({"AND", "OR"}, Few, Few \cup Over({"AND", "OR"}, Few, Few)),
    Over({">", "<=", ">=", "|", "%"}, Sums, Sums),
    Durations, Dates, Columns, Texts,
    Over({"=", "||"}, {SqlColumn(<<Quoted(Quote, <<"k", " ", Quote>>), Part("", <<"k">>)>>)}, Texts),
    Over(Infixes, Closed, C), Over(Infixes, C, Closed), Over({"<"}, Calls, Closed),
    MoreTests, SameLikes, Before({"NOT"}, MoreTests),
    Over({"AND", "OR"}, MoreTests, C), Over({"AND", "OR"}, Before({"NOT"}, C), MoreTests),
    Over({"AND"}, Betweens, FewBetweens), Over({"AND"}, Ins, FewBetweens),
    Over(Infixes, Ins, C), Over(Infixes, C, Ins),
    Complements, Regexps}
=============================================================================
