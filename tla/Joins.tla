-------------------------------- MODULE Joins --------------------------------
(***************************************************************************)
(* The tables after FROM: how the grammar gives ON and USING to the joins, *)
(* to_join_call() makes one flat list of joins that are nested, and        *)
(* Formatter's from_ and _join_on write the list.                          *)
(*                                                                         *)
(* A text is a sequence of items: a table, or a query in parentheses, with *)
(* the words before it; or a condition.  The tree is a list of the same    *)
(* items, each join with its condition.                                    *)
(***************************************************************************)
EXTENDS Integers, Sequences, SequencesExt, Functions

NoCondition == <<>>
False       == <<"false">>
Using       == <<"using">>       \* USING (id): the same column of both sides
UsingBare   == <<"using bare">>  \* USING id, which is no SQL
Equal(x, y) == <<x, y>>          \* the columns of two tables

\* join is what stands before the table: nothing, a comma or a kind of join.
Source(join, table, name, value) ==
    [join |-> join, table |-> table, name |-> name, value |-> value, on |-> NoCondition]

On(condition) ==
    [join |-> "on", table |-> "", name |-> "", value |-> <<>>, on |-> condition]

Alias(x) == IF x.name = "" THEN x.table ELSE x.name

-----------------------------------------------------------------------------
(* Parsing.                                                                *)

NothingRead == [acc |-> <<>>, open |-> <<>>, after_on |-> FALSE, failed |-> FALSE]

\* What follows USING is an expression: (id) and id give the same tree.
Unwrapped(on) == IF on = UsingBare THEN Using ELSE on

\* ON and USING are for the last join that is still open.
ReadOn(a, x) ==
    IF a.open = <<>> THEN [a EXCEPT !.failed = TRUE]
    ELSE [a EXCEPT !.acc[Last(a.open)].on = Unwrapped(x.on), !.open = Front(@),
                   !.after_on = TRUE]

\* A join is the child of the one before it, unless a condition ended that one:
\* then it ends all.  It comes after its parent in the list.
ReadJoin(a, x) ==
    [a EXCEPT !.acc = Append(@, [x EXCEPT !.join = IF @ = "," THEN "cross join" ELSE @]),
              !.open = Append(IF a.after_on THEN <<>> ELSE @, Len(a.acc) + 1),
              !.after_on = FALSE]

\* Two tables with nothing between them: the second is the name of the first.
ReadName(a, x) ==
    IF Last(a.acc).name = "" /\ x.table # "" /\ x.name = ""
    THEN [a EXCEPT !.acc[Len(a.acc)].name = x.table]
    ELSE [a EXCEPT !.failed = TRUE]

\* Until the first join, a comma is only between two tables.
ReadItem(a, x) ==
    CASE x.join = "on" -> ReadOn(a, x)
      [] x.join = "next to" -> ReadName(a, x)
      [] x.join = "function" -> [a EXCEPT !.failed = TRUE]
      [] x.join \in {"", ","} /\ \A i \in DOMAIN a.acc : a.acc[i].join = "" ->
            [a EXCEPT !.acc = Append(@, [x EXCEPT !.join = ""])]
      [] OTHER -> ReadJoin(a, x)

Read(text) == FoldLeft(ReadItem, NothingRead, text)

-----------------------------------------------------------------------------
(* Formatting.                                                             *)

\* The joins that from_ knows; the grammar has more.
join_keywords ==
    {"join", "full join", "cross join", "inner join", "left join", "right join",
     "full outer join", "right outer join", "left outer join", "cross apply", "outer apply"}

\* Variant to break SameRows: USING is not written.
_join_on_no_using(x) ==
    <<[x EXCEPT !.on = NoCondition]>>
    \o IF x.on \in {NoCondition, False, Using} THEN <<>> ELSE <<On(x.on)>>

\* The column of USING is written as it is in the tree, without parentheses.
Bare(on) == IF on = Using THEN UsingBare ELSE on

\* A condition that Python holds for false is not written.
_join_on(x) ==
    <<[x EXCEPT !.on = NoCondition]>>
    \o IF x.on \in {NoCondition, False} THEN <<>> ELSE <<On(Bare(x.on))>>

\* A join that is not known is written as a function, and raises when it has
\* a condition.
Raises(tree) ==
    \E i \in DOMAIN tree :
        tree[i].join \notin join_keywords \cup {""} /\ tree[i].on # NoCondition

\* One join, and there are no commas.
Joiner(tree) == IF \E i \in DOMAIN tree : tree[i].join \in join_keywords THEN "next to" ELSE ","

from_list(tree) ==
    FlattenSeq([i \in DOMAIN tree |->
        IF tree[i].join \in join_keywords THEN _join_on(tree[i])
        ELSE IF tree[i].join # "" THEN <<[tree[i] EXCEPT !.join = "function"]>>
        ELSE IF i = 1 THEN <<tree[i]>>
        ELSE <<[tree[i] EXCEPT !.join = Joiner(tree)]>>])

-----------------------------------------------------------------------------
(* What a FROM returns.  A relation has the names of its tables, and rows  *)
(* with a number above 0 for each of them, or 0 where a join found none.   *)

Relation(name, rows) == [names |-> <<name>>, rows |-> [i \in DOMAIN rows |-> <<rows[i]>>]]

KeepsLeft(join)  == join \in {"left join", "left outer join", "full join", "full outer join"}
KeepsRight(join) == join \in {"right join", "right outer join", "full join", "full outer join"}

\* A condition on a table that is not there yet never holds.
Holds(on, names, row, left) ==
    CASE on = NoCondition -> TRUE
      [] on = False -> FALSE
      [] on = Using -> \E i \in 1 .. left, j \in left + 1 .. Len(row) : row[i] = row[j] /\ row[i] # 0
      [] OTHER -> \E i, j \in DOMAIN names :
                     names[i] = on[1] /\ names[j] = on[2] /\ row[i] = row[j] /\ row[i] # 0

JoinOf(l, join, r, on) ==
    LET names == l.names \o r.names
        Match(x, y) == Holds(on, names, x \o y, Len(l.names))
        Null(rel) == [k \in DOMAIN rel.names |-> 0]
        lone_left == SelectSeq(l.rows, LAMBDA x : \A y \in Range(r.rows) : ~Match(x, y))
        lone_right == SelectSeq(r.rows, LAMBDA y : \A x \in Range(l.rows) : ~Match(x, y))
        MatchesOf(x) == SelectSeq(r.rows, LAMBDA y : Match(x, y))
        RowsOf(x) == [k \in DOMAIN MatchesOf(x) |-> x \o MatchesOf(x)[k]]
    IN  [names |-> names,
         rows |-> FlattenSeq([i \in DOMAIN l.rows |-> RowsOf(l.rows[i])])
                  \o (IF KeepsLeft(join)
                      THEN [k \in DOMAIN lone_left |-> lone_left[k] \o Null(r)] ELSE <<>>)
                  \o (IF KeepsRight(join)
                      THEN [k \in DOMAIN lone_right |-> Null(l) \o lone_right[k]] ELSE <<>>)]

Pop(stack) == SubSeq(stack, 1, Len(stack) - 2)

\* The last two operands become one.
Reduce(stack, on) ==
    LET l == stack[Len(stack) - 1]
        r == Last(stack)
    IN  Append(Pop(stack), [join |-> l.join, rel |-> JoinOf(l.rel, r.join, r.rel, on)])

\* RelOf gives the rows of an item.
Push(stack, x, RelOf(_)) == Append(stack, [join |-> x.join, rel |-> RelOf(x)])

Crossed(stack) ==
    FoldLeft(LAMBDA a, x : JoinOf(a, ",", x.rel, NoCondition), stack[1].rel, Tail(stack))

\* SQL's reading: ON ends the join of the two operands before it, CROSS JOIN has
\* no ON, and commas come last.
MeaningOfFrom(text, RelOf(_)) ==
    LET Step(stack, x) ==
            CASE x.join = "on" -> Reduce(stack, x.on)
              [] x.join = "next to" -> [stack EXCEPT ![Len(stack)].rel.names = <<x.table>>]
              [] x.join = "cross join" -> Reduce(Push(stack, x, RelOf), NoCondition)
              [] OTHER -> Push(stack, x, RelOf)
    IN  Crossed(FoldLeft(Step, <<>>, text))

\* The reading of a tree: each join is with all that is before it, up to a table
\* that is not joined.
RowsOfFrom(tree, RelOf(_)) ==
    LET Step(stack, x) ==
            IF x.join = "" THEN Push(stack, x, RelOf) ELSE Reduce(Push(stack, x, RelOf), x.on)
    IN  Crossed(FoldLeft(Step, <<>>, tree))

\* A row is one number: a digit for each table.
Number(row) == FoldLeft(LAMBDA a, n : 4 * a + n, 0, row)

Numbers(rel) == [i \in DOMAIN rel.rows |-> Number(rel.rows[i])]
=============================================================================
