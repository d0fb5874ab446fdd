---------------------------- MODULE SetOperations ----------------------------
(***************************************************************************)
(* Queries joined by UNION, INTERSECT, EXCEPT and MINUS, with ORDER BY,    *)
(* LIMIT, OFFSET and FETCH: what ordered_sql and to_union_call() make of   *)
(* the text, and what Formatter's ordered_query, unordered_query, union,   *)
(* from_ and Operator write for the tree.  Joins has what is after FROM.   *)
(*                                                                         *)
(* A text is a sequence of items.  A tree is a dictionary: a function on   *)
(* its keys.  A SELECT without FROM is known by one word, and with FROM it *)
(* returns its rows; the word of a set operation is its key.               *)
(***************************************************************************)
EXTENDS Joins, FiniteSets

CONSTANTS
    Queries,     \* what clients write
    table        \* the rows of SELECT x, in order, for each x

Item(kind, word, val, text) == [kind |-> kind, word |-> word, val |-> val, text |-> text]

With         == Item("with", "", 0, <<>>)
Select(x)    == Item("select", x, 0, <<>>)
From(items)  == Item("from", "", 0, items)
Op(op)       == Item("op", op, 0, <<>>)
Clause(c, n) == Item("clause", c, n, <<>>)
Group(q)     == Item("group", "", 0, q)

Kinds(text) == [i \in DOMAIN text |-> text[i].kind]

\* A dictionary with one key more.
Put(json, k, v) == [x \in DOMAIN json \cup {k} |-> IF x = k THEN v ELSE json[x]]

NoKeys == [k \in {} |-> 0]
ParseException == Put(NoKeys, "exception", 0)

-----------------------------------------------------------------------------
(* The grammar: [WITH] part {operation part} {clause}.                     *)

Body(text) == IF text # <<>> /\ text[1] = With THEN Tail(text) ELSE text

Of(text, kinds) == SelectSeq(text, LAMBDA x : x.kind \in kinds)

Clauses(text) == Of(text, {"clause"})
Operations(text) == Of(text, {"op"})

\* The parts: what is between the operations.
Parts(text) ==
    LET chain == Of(Body(text), {"select", "from", "group", "op"})
        ops == {i \in DOMAIN chain : chain[i].kind = "op"}
        from(k) == IF k = 0 THEN 1 ELSE SetToSortSeq(ops, <)[k] + 1
        upto(k) == IF k = Cardinality(ops) THEN Len(chain) ELSE SetToSortSeq(ops, <)[k + 1] - 1
    IN  [k \in 1 .. Cardinality(ops) + 1 |-> SubSeq(chain, from(k - 1), upto(k - 1))]

RECURSIVE IsQuery(_)

IsPart(part) ==
    /\ Kinds(part) \in {<<"select">>, <<"select", "from">>, <<"group">>}
    /\ Last(part).kind = "group" => IsQuery(Last(part).text)
    /\ Last(part).kind = "from" =>
          /\ ~Read(Last(part).text).failed
          /\ \A x \in ToSet(Last(part).text) : x.value # <<>> => IsQuery(x.value)

\* An operation can not follow a clause: bad_operator_on_ordered_sql.
IsQuery(text) ==
    /\ \A i \in DOMAIN Body(text) :
          /\ Body(text)[i].kind \in {"select", "from", "group", "op", "clause"}
          /\ \A j \in 1 .. i : Body(text)[j].kind = "clause" => Body(text)[i].kind = "clause"
    /\ \A k \in DOMAIN Parts(text) : IsPart(Parts(text)[k])

UnionOps == {"union", "union_all", "union_distinct"}

\* A union like the one before it is added to that one; any other operation
\* takes all that is on its left as its first operand.
Joined(sources, ops) ==
    LET Join(a, i) ==
            IF ops[i] = a.last_union /\ ops[i] \in UnionOps
            THEN [acc |-> Put(NoKeys, ops[i], Append(a.acc[ops[i]], sources[i + 1])),
                  last_union |-> ops[i]]
            ELSE [acc |-> Put(NoKeys, ops[i], <<a.acc, sources[i + 1]>>),
                  last_union |-> ops[i]]
    IN  FoldLeft(Join, [acc |-> sources[1], last_union |-> ""],
                 [i \in DOMAIN ops |-> i]).acc

WithClauses(json, clauses) ==
    FoldLeft(LAMBDA a, c : Put(a, c.word, c.val), json, clauses)

\* Variant to break MeaningKept: only ORDER BY is looked for.
IsOrderedOnly(clauses) == \E i \in DOMAIN clauses : clauses[i].word = "orderby"

\* FETCH alone is not looked for, and is lost after an operation.
IsOrdered(clauses) ==
    \E i \in DOMAIN clauses : clauses[i].word \in {"orderby", "offset", "limit"}

to_union_call(sources, ops, clauses, bare) ==
    IF ops = <<>>
    THEN IF bare THEN WithClauses(sources[1], clauses) ELSE sources[1]
    ELSE IF IsOrdered(clauses)
    THEN WithClauses(Put(NoKeys, "from", <<Source("", "", "", Joined(sources, ops))>>), clauses)
    ELSE Joined(sources, ops)

\* output["with"] = tokens["with"], also when there is none.
to_query(output, text) ==
    IF text[1] = With THEN Put(output, "with", 0)
    ELSE [k \in DOMAIN output \ {"with"} |-> output[k]]

RECURSIVE query(_)

ParsePart(part) ==
    LET select == Put(NoKeys, "select", part[1].word) IN
    IF part[1].kind = "group" THEN query(part[1].text)
    ELSE IF Len(part) = 2
    THEN LET items == part[2].text
             Parsed(x) == [x EXCEPT !.value = IF @ = <<>> THEN NoKeys ELSE query(@)]
         IN  Put(select, "from", Read([i \in DOMAIN items |-> Parsed(items[i])]).acc)
    ELSE select

query(text) ==
    LET parts == Parts(text)
    IN  to_query(to_union_call([k \in DOMAIN parts |-> ParsePart(parts[k])],
                               [i \in DOMAIN Operations(text) |-> Operations(text)[i].word],
                               Clauses(text),
                               parts[1][1].kind = "select"),
                 text)

Parse(text) == IF IsQuery(text) THEN query(text) ELSE ParseException

-----------------------------------------------------------------------------
(* Formatting.  Precedences are doubled: the code adds and subtracts 0.5.  *)

precedence ==
    [k \in {"join", "with", "select", "from", "union", "union_all", "except", "minus",
            "intersect", "order"} |->
       2 * CASE k = "join" -> 18
             [] k \in {"with", "select"} -> 30
             [] k = "from" -> 32
             [] k = "order" -> 50
             [] OTHER -> 40]

Default == 2 * 100

unordered_clauses == <<"with", "select", "from", "union_all", "union">>
ordered_clauses == <<"orderby", "limit", "offset", "fetch">>

\* The infix methods of Formatter; other operations are written as functions.
SetOps == {"union", "union_all", "except", "minus", "intersect"}
Unordered == {"union", "union_all", "intersect"}

Raised == <<Item("exception", "", 0, <<>>)>>

Isolated(q, open) == IF open THEN q ELSE <<Group(q)>>

\* Variant to break RoundTrip: the right operand is given the room of the left.
RoomLeft(op, i) == IF op \in Unordered THEN precedence[op] ELSE precedence[op] + 1

\* The precedence handed to operand i.
Room(op, i) ==
    IF op \in Unordered THEN precedence[op]
    ELSE IF i = 1 THEN precedence[op] + 1
    ELSE precedence[op] - 1

Between(op, pieces) ==
    FoldLeft(LAMBDA a, p : a \o <<Op(op)>> \o p, pieces[1], Tail(pieces))

RECURSIVE dispatch(_, _), unordered_query(_, _)

Operator(op, operands, prec) ==
    Isolated(Between(op, [i \in DOMAIN operands |-> dispatch(operands[i], Room(op, i))]),
             prec > precedence[op] \/ (prec = precedence[op] /\ op \in Unordered))

\* One key is an infix operator or a function; with more it raises.
op_(json, prec) ==
    LET key == CHOOSE k \in DOMAIN json : TRUE IN
    IF Cardinality(DOMAIN json) > 1 THEN Raised
    ELSE IF key \in SetOps THEN Operator(key, json[key], prec)
    ELSE <<Item("function", key, 0, <<>>)>>

\* The operands are given the most room there is, whatever they are.
union(op, operands) ==
    Between(op, [i \in DOMAIN operands |-> dispatch(operands[i], Default)])

\* A lone operation is written as one; what is not in parentheses by then is
\* the call of a function.
from_(sources) ==
    LET Query(x) ==
            IF x.join \in join_keywords THEN dispatch(x.value, precedence["join"])
            ELSE IF Len(sources) = 1 /\ x.name = "" /\ SetOps \cap DOMAIN x.value # {}
            THEN op_(x.value, precedence["from"])
            ELSE dispatch(x.value, precedence["from"] - 2)
        IsTable(x) == x.table # ""
        InGroup(x) == IsTable(x) \/ Kinds(Query(x)) = <<"group">>
        Written(x) == [x EXCEPT !.value = IF IsTable(x) THEN <<>> ELSE Query(x)[1].text]
    IN  IF Raises(sources) \/ \E x \in ToSet(sources) : ~InGroup(x)
        THEN <<Item("from function", "", 0, <<>>)>>
        ELSE <<From(from_list([i \in DOMAIN sources |-> Written(sources[i])]))>>

WrittenClause(json, clause) ==
    CASE clause = "with" -> <<With>>
      [] clause = "select" -> <<Select(json["select"])>>
      [] clause = "from" -> from_(json["from"])
      [] clause \in {"union", "union_all"} -> union(clause, json[clause])
      [] clause = "fetch" -> IF "offset" \in DOMAIN json
                             THEN <<Clause("fetch", json["offset"])>> ELSE Raised
      [] OTHER -> <<Clause(clause, json[clause])>>

WrittenClauses(json, clauses) ==
    FlattenSeq([i \in DOMAIN clauses |->
                  IF clauses[i] \in DOMAIN json THEN WrittenClause(json, clauses[i]) ELSE <<>>])

unordered_query(json, prec) ==
    Isolated(WrittenClauses(json, unordered_clauses), prec > precedence["from"])

\* Without any other clause of a query, "from" is the operation itself.
ordered_query(json, prec) ==
    LET regular == DOMAIN json \cap (ToSet(unordered_clauses) \ {"from"}) # {}
        acc == IF regular THEN unordered_query(json, precedence["order"])
               ELSE dispatch(json["from"][1].value, precedence["order"])
    IN  Isolated(acc \o WrittenClauses(json, ordered_clauses), prec >= precedence["order"])

dispatch(json, prec) ==
    IF DOMAIN json \cap ToSet(ordered_clauses) # {} THEN ordered_query(json, prec)
    ELSE IF DOMAIN json \cap ToSet(unordered_clauses) # {} THEN unordered_query(json, prec)
    ELSE op_(json, prec)

Format(json) == dispatch(json, precedence["order"])

-----------------------------------------------------------------------------
(* A query goes from text to tree, to text, and to a tree again.           *)

VARIABLES
    stage,
    sql,       \* the query as written
    tree,      \* what parse() made of it
    text,      \* what format() made of that
    again      \* what parse() made of the text

vars == <<stage, sql, tree, text, again>>

Init ==
    /\ stage = "written"
    /\ sql \in Queries
    /\ tree = ParseException
    /\ text = <<>>
    /\ again = ParseException

ParseSql ==
    /\ stage = "written"
    /\ stage' = "parsed"
    /\ tree' = Parse(sql)
    /\ UNCHANGED <<sql, text, again>>

FormatTree ==
    /\ stage = "parsed"
    /\ stage' = "formatted"
    /\ text' = Format(tree)
    /\ UNCHANGED <<sql, tree, again>>

ParseAgain ==
    /\ stage = "formatted"
    /\ stage' = "reparsed"
    /\ again' = Parse(text)
    /\ UNCHANGED <<sql, tree, text>>

Next == ParseSql \/ FormatTree \/ ParseAgain

Spec == Init /\ [][Next]_vars

-----------------------------------------------------------------------------
(* What a query returns: a sequence of rows.  Rows are numbers, and come   *)
(* sorted unless ORDER BY says otherwise.                                  *)

Count(rows, v) == Len(SelectSeq(rows, LAMBDA x : x = v))

\* The most that a row is, with three tables in a FROM.
MaxRow == 63

SortedRows(count) ==
    LET vs == SelectSeq([i \in 1 .. MaxRow |-> i], LAMBDA v : v \in DOMAIN count)
    IN  FlattenSeq([i \in DOMAIN vs |-> [n \in 1 .. count[vs[i]] |-> vs[i]]])

\* The operations of SQL on bags of rows.
Combined(op, r, s) ==
    SortedRows([v \in ToSet(r) \cup ToSet(s) |->
        LET m == Count(r, v)
            n == Count(s, v)
        IN  CASE op = "union_all" -> m + n
              [] op \in {"union", "union_distinct"} -> IF m + n > 0 THEN 1 ELSE 0
              [] op \in {"except", "minus"} -> IF m > 0 /\ n = 0 THEN 1 ELSE 0
              [] op = "intersect" -> IF m > 0 /\ n > 0 THEN 1 ELSE 0])

\* ORDER BY (1: descending), then OFFSET, then LIMIT or FETCH.
Cut(rows, clauses) ==
    LET Has(c) == c \in DOMAIN clauses
        ordered == IF Has("orderby") /\ clauses["orderby"] = 1 THEN Reverse(rows) ELSE rows
        start == IF Has("offset") THEN clauses["offset"] ELSE 0
        most == {clauses[c] : c \in DOMAIN clauses \cap {"limit", "fetch"}} \cup {Len(rows)}
        many == CHOOSE n \in most : \A m \in most : n <= m
    IN  SubSeq(ordered, start + 1, IF start + many < Len(rows) THEN start + many ELSE Len(rows))

InOrder(rows) == Combined("union_all", rows, <<>>)

RECURSIVE Rows(_), Meaning(_)

\* The rows that a tree asks for.
Rows(json) ==
    LET op == CHOOSE k \in DOMAIN json : TRUE
        SetOp(a, q) == Combined(op, a, Rows(q))
        RelOf(x) == Relation(Alias(x), IF x.table # "" THEN table[x.table] ELSE Rows(x.value))
        all == IF "with" \in DOMAIN json /\ Cardinality(DOMAIN json) = 2
                  /\ DOMAIN json \cap {"select", "from"} = {}
               THEN Rows([k \in DOMAIN json \ {"with"} |-> json[k]])
               ELSE IF "select" \in DOMAIN json
               THEN IF "from" \in DOMAIN json
                    THEN InOrder(Numbers(RowsOfFrom(json["from"], RelOf)))
                    ELSE table[json["select"]]
               ELSE IF "from" \in DOMAIN json THEN Rows(json["from"][1].value)
               ELSE FoldLeft(SetOp, Rows(json[op][1]), Tail(json[op]))
    IN  Cut(all, json)

\* The rows that a text asks for: operations are of equal rank, from the left.
Meaning(q) ==
    LET parts == Parts(q)
        RelOf(x) == Relation(Alias(x), IF x.table # "" THEN table[x.table] ELSE Meaning(x.value))
        PartRows(p) ==
            IF p[1].kind = "group" THEN Meaning(p[1].text)
            ELSE IF Len(p) = 2 THEN InOrder(Numbers(MeaningOfFrom(p[2].text, RelOf)))
            ELSE table[p[1].word]
        Step(a, i) == Combined(Operations(q)[i].word, a, PartRows(parts[i + 1]))
    IN  Cut(FoldLeft(Step, PartRows(parts[1]), [i \in DOMAIN Operations(q) |-> i]),
            WithClauses(NoKeys, Clauses(q)))

\* The tree of a query asks for the rows that the query asks for, though
\* unions are gathered in one list and the clauses at the end are moved.
MeaningKept == stage # "written" => tree # ParseException /\ Rows(tree) = Meaning(sql)

RECURSIVE IsSql(_)

\* USING has parentheses wherever it stands: this grammar reads a column
\* without, SQL does not.
IsSql(q) ==
    \A x \in ToSet(q) :
        /\ x.kind = "group" => IsSql(x.text)
        /\ x.kind = "from" =>
              \A y \in ToSet(x.text) : y.on # UsingBare /\ IsSql(y.value)

\* The text written for a query, where it is SQL, asks for the same rows in SQL's
\* own reading of it: the lists in which joins and operations are gathered lose
\* nothing, and a condition is not left out.
SameRows ==
    stage = "formatted" /\ IsSql(text) => IsQuery(text) /\ Meaning(text) = Meaning(sql)

\* The text written for a query is read back as the same tree
\* (verify_formatting in tests/test_format_and_parse.py).
RoundTrip == stage = "reparsed" => again = tree
=============================================================================
