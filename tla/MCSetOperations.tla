--------------------------- MODULE MCSetOperations ---------------------------
(***************************************************************************)
(* Chains of up to four queries, queries in parentheses on either side of  *)
(* an operation, and in FROM.  WellFormatted leaves out what Formatter     *)
(* gets wrong, or to_union_call drops: see README.  LostGroup is one.      *)
(***************************************************************************)
EXTENDS SetOperations

MCTable == [x \in {"a", "b", "c", "*"} |->
              CASE x = "a" -> <<1, 1, 2>> [] x = "b" -> <<2, 3>> [] x = "c" -> <<1, 3, 3>>
                [] x = "*" -> <<>>]

a == <<Select("a")>>
b == <<Select("b")>>
c == <<Select("c")>>

Tails ==
    {<<>>, <<Clause("orderby", 1)>>, <<Clause("limit", 1)>>, <<Clause("offset", 1)>>,
     <<Clause("orderby", 1), Clause("limit", 2), Clause("offset", 1)>>}
RealTails == Tails \ {<<>>}

Ending(S, tails) == {s \o t : s \in S, t \in tails}
Two(ops, S, T) == {s \o <<Op(o)>> \o t : o \in ops, s \in S, t \in T}
Grouped(S) == {<<Group(s)>> : s \in S}
FromItems(items) == <<Select("*"), From(items)>>
Subquery(S) == {FromItems(<<Source("", "", "", s)>>) : s \in S}

Pairs == Two(SetOps, {a, b}, {b, c})
Flat  == {a} \cup Pairs \cup Two(SetOps, Pairs, {a, c})
         \cup Two(SetOps, Two(SetOps, Two(SetOps, {a}, {b}), {c}), {a})

Chain(ops) == Two(ops, {b}, {c})
Ordered == Ending({b} \cup Chain(SetOps), RealTails)

\* Operands in parentheses, where these are written again or make no difference.
Differences ==
    Two({"except", "minus"}, {a} \cup Grouped(Chain(SetOps)) \cup Grouped(Ordered),
        {a} \cup Grouped(Chain({"except", "minus", "intersect"})) \cup Grouped(Ordered))
Intersections ==
    Two({"intersect"}, {a} \cup Grouped(Chain(SetOps)) \cup Grouped(Ordered),
        {a} \cup Grouped(Chain({"except", "minus"})) \cup Grouped(Ordered))

\* Subqueries in FROM, with WITH and ORDER BY of their own.
Withs   == {<<With>> \o q : q \in {a} \cup Ending({a}, Tails) \cup Two({"union", "union_all"}, {a}, {b})}
Sources == Subquery(Ending(Pairs, Tails) \cup Ending({a}, Tails)
                    \cup {<<With>> \o q : q \in {a} \cup Ending({a}, Tails)}
                    \cup Two({"union", "union_all"}, Grouped(Ordered), {a}))

\* Tables that are joined one after the other, or one inside the other.
Table(j, t)  == Source(j, t, "", <<>>)
Sub(j, x, q) == Source(j, "", x, q)

Inner == {"join", "inner join"}
Left  == {"left join", "left outer join"}
Right == {"right join", "right outer join"}
Outer == Left \cup Right \cup {"full join", "full outer join"}

Joinings(js, T, ons) == {<<[t EXCEPT !.join = j], On(on)>> : j \in js, t \in T, on \in ons}
Crossing(T) == {<<[t EXCEPT !.join = j]>> : j \in {"cross join", ","}, t \in T}

b_on_a == {Equal("a", "b"), Using}
FirstB == Joinings(Inner \cup Outer, {Table("", "b")}, b_on_a)
ThenC  == Joinings(Inner \cup Outer, {Table("", "c")}, {Equal("b", "c"), Equal("c", "a"), Using})
          \cup Joinings(Inner \cup Outer, {Source("", "a", "c", <<>>), Sub("", "c", c \o <<Op("union")>> \o b)},
                        {Equal("b", "c")})
          \cup Crossing({Table("", "c"), Sub("", "", c \o <<Clause("limit", 1)>>)})

\* a J1 (b J2 c ON in) ON out, where that is (a J1 b ON out) J2 c ON in.
Inside(js1, js2) ==
    {<<Table(j1, "b"), Table(j2, "c"), On(Equal("b", "c")), On(Equal("a", "b"))>> :
       j1 \in js1, j2 \in js2}
Nested == Inside(Inner, Inner \cup Left) \cup Inside(Left, Left) \cup Inside(Right, Inner \cup Left)
          \cup {<<Table(j, "b"), Table("cross join", "c"), On(Equal("b", "a"))>> : j \in Inner}

JoinedTables ==
    {<<Table("", "a")>> \o s : s \in FirstB \cup Ending(FirstB, ThenC) \cup Nested
                                  \cup Ending({<<Table("cross join", "b")>>}, ThenC)}

Tables ==
    {FromItems(<<Table("", "a"), Table(",", "b")>> \o t) :
       t \in {<<>>, <<Sub(",", "x", a)>>}}
    \cup {FromItems(s) : s \in JoinedTables}

WellFormatted ==
    Ending(Flat, Tails) \cup Ending(Differences, {<<>>, <<Clause("limit", 2)>>})
    \cup Intersections \cup Withs
    \cup Ending(Sources, {<<>>, <<Clause("limit", 1)>>})
    \cup Two(SetOps, {a}, Sources) \cup Two(SetOps, Sources, {a})
    \cup Tables

LostGroup == Two({"except"}, {a}, Grouped(Chain({"union"})))
=============================================================================
