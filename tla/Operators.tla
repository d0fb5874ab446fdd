------------------------------ MODULE Operators ------------------------------
(***************************************************************************)
(* Operators on their way from SQL to a tree and back: mo_parsing's        *)
(* infix_notation() over KNOWN_OPS (keywords.py), to_json_operator()       *)
(* (utils.py), and the methods of Formatter (formatting.py), which leave   *)
(* parentheses out by a table of precedence that is not the order of       *)
(* KNOWN_OPS.  Intervals, quoted names and texts are among the operands.   *)
(*                                                                         *)
(* A tree is a leaf, or an operator and its arguments; a name that needs   *)
(* no quotes is a leaf as it is.                                           *)
(* A text is a sequence of items: an operator, an operand, a text in       *)
(* parentheses, or a call of a function, which is also how CASE and a list *)
(* in parentheses are written.                                             *)
(***************************************************************************)
EXTENDS Intervals, Quoting, Bitwise

CONSTANT Trees     \* what clients write, as trees of SQL operators

Leaf(op, name, data) == [op |-> op, name |-> name, args |-> <<>>, data |-> data]
Node(op, args) == [op |-> op, name |-> "", args |-> args, data |-> <<>>]
Name(x)        == Leaf("name", x, <<>>)
SqlNull        == Leaf("null", "", <<>>)
Unparsed       == Leaf("exception", "", <<>>)

\* An interval as written, and one of the tree.
SqlInterval(pieces, type) == Leaf("INTERVAL", type, pieces)
Interval(x)               == Leaf("interval", "", <<x>>)

\* A name with quotes and a text, as written, and those of the tree.
SqlColumn(parts) == Leaf("COLUMN", "", parts)
SqlText(part)    == Leaf("TEXT", "", <<part>>)
Column(read)     == Leaf("column", "", <<read>>)
Literal(read)    == Leaf("literal", "", <<read>>)

IsLeaf(t) == t.op \in {"name", "null", "INTERVAL", "COLUMN", "TEXT"}
IsCall(t) == t.op \in {"case", "switch", "list"}

Item(kind, word, tree, text) == [kind |-> kind, word |-> word, tree |-> tree, text |-> text]

Word(w)        == Item("op", w, Unparsed, <<>>)
Plain(t)       == Item("tree", "", t, <<>>)
Group(txt)     == Item("group", "", Unparsed, txt)
Call(fn, txts) == Item("call", fn, Unparsed, txts)

-----------------------------------------------------------------------------
(* Parsing.                                                                *)

\* KNOWN_OPS: the operators of one level are of equal rank, and a level binds
\* more tightly than the next.
KnownOps ==
    <<{"COLLATE"}, {"||"}, {"NEG"}, {"*", "/", "%"}, {"+", "-"}, {"~"}, {"&"}, {"|"},
      {">=", "<=", "<", ">"},
      {"=", "<>", "<=>", "IS DISTINCT FROM", "IS NOT DISTINCT FROM"}, {"AT TIME ZONE"},
      {"BETWEEN"}, {"NOT BETWEEN"}, {"IN"}, {"NOT IN"}, {"IS NOT"}, {"IS"},
      {"LIKE"}, {"ILIKE"}, {"NOT LIKE"}, {"NOT ILIKE"}, {"RLIKE"}, {"NOT RLIKE"},
      {"NOT"}, {"AND"}, {"OR"}, {"NOT REGEXP", "REGEXP"}>>

Unary   == {"NOT", "NEG", "~"}
Ternary == {"BETWEEN", "NOT BETWEEN"}

binary_ops ==
    [w \in UNION ToSet(KnownOps) |->
       CASE w = "COLLATE" -> "collate" [] w = "||" -> "concat"
         [] w = "NEG" -> "neg" [] w = "~" -> "binary_not"
         [] w = "*" -> "mul" [] w = "/" -> "div" [] w = "%" -> "mod"
         [] w = "+" -> "add" [] w = "-" -> "sub"
         [] w = "&" -> "binary_and" [] w = "|" -> "binary_or"
         [] w = ">=" -> "gte" [] w = "<=" -> "lte" [] w = "<" -> "lt" [] w = ">" -> "gt"
         [] w = "=" -> "eq" [] w = "<>" -> "neq"
         [] w = "<=>" -> "eq!" [] w = "IS DISTINCT FROM" -> "eq!"
         [] w = "IS NOT DISTINCT FROM" -> "ne!"
         [] w = "AT TIME ZONE" -> "at_time_zone"
         [] w = "BETWEEN" -> "between" [] w = "NOT BETWEEN" -> "not_between"
         [] w = "IN" -> "in" [] w = "NOT IN" -> "nin"
         [] w = "IS NOT" -> "neq" [] w = "IS" -> "eq"
         [] w = "LIKE" -> "like" [] w = "NOT LIKE" -> "not_like"
         [] w = "ILIKE" -> "ilike" [] w = "NOT ILIKE" -> "not_ilike"
         [] w = "RLIKE" -> "rlike" [] w = "NOT RLIKE" -> "not_rlike"
         [] w = "NOT" -> "not" [] w = "AND" -> "and" [] w = "OR" -> "or"
         [] w = "REGEXP" -> "regexp" [] w = "NOT REGEXP" -> "not_regexp"]

\* Variant to break ValueKept: subtraction is taken for associative.
AssociativeToo == {"add", "sub", "mul", "and", "or", "concat", "binary_and", "binary_or"}

Associative == {"add", "mul", "and", "or", "concat", "binary_and", "binary_or"}

\* Variant to break Flat: only the left operand is looked into.
OperandsLeft(op, left, right) ==
    (IF left.op = op THEN left.args ELSE <<left>>) \o <<right>>

\* The arguments of an associative operator take in those of an operand that
\* is the same operator.
Operands(op, left, right) ==
    (IF left.op = op THEN left.args ELSE <<left>>)
    \o (IF right.op = op THEN right.args ELSE <<right>>)

\* A comparison with NULL is a test for it.
NullTest(op) == IF op \in {"eq", "eq!"} THEN "missing" ELSE "exists"

to_json_operator(word, left, right) ==
    LET op == binary_ops[word] IN
    IF op \in {"eq", "neq", "eq!", "ne!"} /\ right = SqlNull THEN Node(NullTest(op), <<left>>)
    ELSE IF op \in {"eq", "neq", "eq!", "ne!"} /\ left = SqlNull THEN Node(NullTest(op), <<right>>)
    ELSE IF op \in Associative THEN Node(op, Operands(op, left, right))
    ELSE Node(op, <<left, right>>)

IsTree(items, i) == i \in DOMAIN items /\ items[i].kind = "tree"
IsOp(items, i, level) == items[i].kind = "op" /\ items[i].word \in KnownOps[level]

\* Where an operator of the level stands between, or before, its operands.
Ready(items, level) ==
    {i \in DOMAIN items :
        /\ IsOp(items, i, level)
        /\ IsTree(items, i + 1)
        /\ items[i].word \in Unary \/ IsTree(items, i - 1)
        /\ items[i].word \in Ternary =>
              i + 2 \in DOMAIN items /\ items[i + 2].word = "AND" /\ IsTree(items, i + 3)}

\* The operands from first to last, and the operator between them, become one.
Replaced(items, first, last, tree) ==
    SubSeq(items, 1, first - 1) \o <<Plain(tree)>> \o SubSeq(items, last + 1, Len(items))

\* Operators of two operands are taken from the left, of one from the right.
Reduced(items, i) ==
    LET word == items[i].word
        Arg(k) == items[k].tree
    IN  IF word \in Unary
        THEN Replaced(items, i, i + 1, Node(binary_ops[word], <<Arg(i + 1)>>))
        ELSE IF word \in Ternary
        THEN Replaced(items, i - 1, i + 3,
                      Node(binary_ops[word], <<Arg(i - 1), Arg(i + 1), Arg(i + 3)>>))
        ELSE Replaced(items, i - 1, i + 1, to_json_operator(word, Arg(i - 1), Arg(i + 1)))

NextReady(items, level) ==
    LET ready == Ready(items, level)
        binary == {i \in ready : items[i].word \notin Unary}
    IN  IF binary # {} THEN CHOOSE i \in binary : \A j \in binary : i <= j
        ELSE CHOOSE i \in ready : \A j \in ready : i >= j

\* The pieces of an interval are the operands of an addition.
interval(t) ==
    LET i == cast_interval_call(t.data, t.name)
        expr == IF Len(i.acc) = 1 THEN Interval(i.acc[1])
                ELSE Node("add", [k \in DOMAIN i.acc |-> Interval(i.acc[k])])
    IN  IF i.cast = "" THEN expr
        ELSE [op |-> "cast", name |-> i.cast, args |-> <<expr>>, data |-> <<>>]

\* What the actions of the grammar's leaves make of one.
ParseLeaf(t) ==
    CASE t.op = "INTERVAL" -> interval(t)
      [] t.op = "COLUMN" -> IF ident(t.data).ok THEN Column(ident(t.data)) ELSE Unparsed
      [] t.op = "TEXT" ->
            LET read == single_literal(t.data[1].raw)
            IN  IF read.ok THEN Literal(read) ELSE Unparsed
      [] OTHER -> t

RECURSIVE MakeTree(_, _), ParseText(_)

MakeTree(items, level) ==
    IF Len(items) = 1 /\ items[1].kind = "tree" THEN items[1].tree
    ELSE IF level > Len(KnownOps) THEN Unparsed
    ELSE IF Ready(items, level) = {} THEN MakeTree(items, level + 1)
    ELSE MakeTree(Reduced(items, NextReady(items, level)), level)

\* The arguments of CASE are its conditions, each with its value after it, and
\* the value after ELSE if there is one.
IsWhen(i, n) == i % 2 = 1 /\ i < n

\* CASE value WHEN other: the conditions compare the value, and none is a test
\* for NULL.
to_switch_call(value, cases) ==
    Node("case", [i \in DOMAIN cases |->
        IF IsWhen(i, Len(cases)) THEN Node("eq", <<value, cases[i]>>) ELSE cases[i]])

\* A list of one is that one.
ParseCall(fn, args) ==
    IF fn \in {"eq!", "ne!"} THEN Unparsed
    ELSE IF fn = "list" /\ Len(args) = 1 THEN args[1]
    ELSE IF fn = "switch" THEN to_switch_call(args[1], Tail(args))
    ELSE Node(fn, args)

ParseItem(x) ==
    CASE x.kind = "group" -> Plain(ParseText(x.text))
      [] x.kind = "call" ->
            Plain(ParseCall(x.word, [i \in DOMAIN x.text |-> ParseText(x.text[i])]))
      [] x.kind = "tree" -> Plain(ParseLeaf(x.tree))
      [] x.kind = "op" -> x

ParseText(text) == MakeTree([i \in DOMAIN text |-> ParseItem(text[i])], 1)

-----------------------------------------------------------------------------
(* Formatting.  Precedences are doubled: the code adds and subtracts 0.5.  *)

Likes == {"like", "not_like", "ilike", "not_ilike", "rlike", "not_rlike"}

precedence ==
    [op \in {"interval", "collate", "mul", "div", "mod", "add", "sub", "binary_and", "binary_or",
             "gte", "lte", "lt", "gt", "eq", "neq", "exists", "between", "in", "not", "is",
             "and", "or", "from"} \cup Likes |->
       2 * CASE op \in {"interval", "collate"} -> 0
             [] op \in {"mul", "div", "mod"} -> 2
             [] op \in {"add", "sub"} -> 3
             [] op \in {"binary_and", "binary_or"} -> 4
             [] op \in {"gte", "lte", "lt"} -> 5
             [] op = "gt" -> 6
             [] op \in {"eq", "neq", "exists"} -> 7
             [] op \in {"between", "in", "not", "is"} \cup Likes -> 8
             [] op = "and" -> 10
             [] op = "or" -> 11
             [] op = "from" -> 32]

MaxPrecedence == 2 * 100

\* Formatter's infix methods, and the word that each writes.
Infix ==
    [op \in {"mul", "div", "mod", "add", "sub", "binary_and", "binary_or", "gte", "lte",
             "lt", "gt", "eq", "neq", "and", "or"} \cup Likes |->
       CHOOSE w \in DOMAIN binary_ops \ {"IS", "IS NOT"} : binary_ops[w] = op]

Unordered == {"mul", "add", "or", "and", "binary_and", "binary_or"}

\* Variant to break RoundTrip: both operands are given the same room.
RoomEqual(op, i) == precedence[op] + 1

\* The precedence that argument i must be below to go without parentheses.
Room(op, i) ==
    IF op \in Unordered THEN precedence[op]
    ELSE IF i = 1 THEN precedence[op] + 1
    ELSE precedence[op] - 1

\* The pieces with the word between each two.
RECURSIVE Joined(_, _)
Joined(word, pieces) ==
    IF Len(pieces) = 1 THEN pieces[1]
    ELSE Joined(word, Front(pieces)) \o <<Word(word)>> \o Last(pieces)

Isolated(sql, open) == IF open THEN sql ELSE <<Group(sql)>>

RECURSIVE Dispatch(_, _)

Operator(t, prec) ==
    LET op == t.op
        sql == Joined(Infix[op], [i \in DOMAIN t.args |-> Dispatch(t.args[i], Room(op, i))])
    IN  Isolated(sql, prec > precedence[op] \/ (prec = precedence[op] /\ op \in Unordered))

_not(t, prec) ==
    <<Word("NOT")>> \o Isolated(Dispatch(t.args[1], MaxPrecedence), prec >= precedence["not"])

\* The operands of ~ and REGEXP never get parentheses.
_binary_not(t) == <<Word("~")>> \o Dispatch(t.args[1], MaxPrecedence)

_regexp(t) ==
    Dispatch(t.args[1], MaxPrecedence)
    \o <<Word(IF t.op = "regexp" THEN "REGEXP" ELSE "NOT REGEXP")>>
    \o Dispatch(t.args[2], MaxPrecedence)

_missing(t) ==
    Dispatch(t.args[1], precedence["is"]) \o <<Word("IS"), Plain(SqlNull)>>

_exists(t) ==
    Dispatch(t.args[1], precedence["exists"]) \o <<Word("IS NOT"), Plain(SqlNull)>>

_collate(t) ==
    Dispatch(t.args[1], precedence["collate"]) \o <<Word("COLLATE"), Plain(t.args[2])>>

\* A BETWEEN itself never gets parentheses.
_between(t) ==
    LET Arg(i) == Dispatch(t.args[i], precedence["between"])
    IN  Arg(1) \o <<Word(IF t.op = "between" THEN "BETWEEN" ELSE "NOT BETWEEN")>>
        \o Arg(2) \o <<Word("AND")>> \o Arg(3)

\* Variant to break RoundTrip: the test is never isolated.
_inline_set_op_open(sql, prec) == sql

_inline_set_op(sql, prec) == Isolated(sql, prec >= precedence["in"])

_in(t, prec) ==
    LET set == IF t.args[2].op = "list" THEN t.args[2].args ELSE <<t.args[2]>>
    IN  _inline_set_op(
            Dispatch(t.args[1], precedence["in"])
            \o <<Word(IF t.op = "in" THEN "IN" ELSE "NOT IN"),
                 Call("list", [i \in DOMAIN set |-> Dispatch(set[i], MaxPrecedence)])>>,
            prec)

_interval(t) == <<Plain(SqlInterval(<<Number(t.data[1].amount)>>, t.data[1].unit))>>

_case(t) == <<Call("case", [i \in DOMAIN t.args |-> Dispatch(t.args[i], MaxPrecedence)])>>

\* casting() asks the type for its items, and a unit is a text.
Raised == <<Word("exception")>>

\* What has no method is written as a call.
Dispatch(t, prec) ==
    CASE IsLeaf(t) -> <<Plain(t)>>
      [] t.op = "column" -> <<Plain(SqlColumn(escape(t.data[1].text)))>>
      [] t.op = "literal" -> <<Plain(SqlText(_literal(t.data[1].text)))>>
      [] t.op = "interval" -> _interval(t)
      [] t.op = "cast" -> Raised
      [] t.op = "not" -> _not(t, prec)
      [] t.op = "binary_not" -> _binary_not(t)
      [] t.op \in {"regexp", "not_regexp"} -> _regexp(t)
      [] t.op = "missing" -> _missing(t)
      [] t.op = "exists" -> _exists(t)
      [] t.op = "collate" -> _collate(t)
      [] t.op \in {"between", "not_between"} -> _between(t)
      [] t.op \in {"in", "nin"} -> _in(t, prec)
      [] t.op = "case" -> _case(t)
      [] t.op \in DOMAIN Infix -> Operator(t, prec)
      [] OTHER -> <<Call(t.op, [i \in DOMAIN t.args |-> Dispatch(t.args[i], precedence["from"])])>>

Format(t) == Dispatch(t, MaxPrecedence)

-----------------------------------------------------------------------------
(* A client writes an expression, with every operand in parentheses.       *)

RECURSIVE Written(_)
Written(t) ==
    LET Operand(i) ==
            IF IsLeaf(t.args[i]) \/ IsCall(t.args[i]) THEN Written(t.args[i])
            ELSE <<Group(Written(t.args[i]))>>
    IN  IF IsLeaf(t) THEN <<Plain(t)>>
        ELSE IF IsCall(t) THEN <<Call(t.op, [i \in DOMAIN t.args |-> Written(t.args[i])])>>
        ELSE IF t.op \in Unary THEN <<Word(t.op)>> \o Operand(1)
        ELSE Operand(1) \o <<Word(t.op)>> \o Operand(2)
             \o IF t.op \in Ternary THEN <<Word("AND")>> \o Operand(3) ELSE <<>>

VARIABLES
    stage,
    sql,       \* the expression as written
    tree,      \* what parse() made of it
    text,      \* what format() made of that
    again      \* what parse() made of the text

vars == <<stage, sql, tree, text, again>>

Init ==
    /\ stage = "written"
    /\ sql \in Trees
    /\ tree = Unparsed
    /\ text = <<>>
    /\ again = Unparsed

ParseSql ==
    /\ stage = "written"
    /\ stage' = "parsed"
    /\ tree' = ParseText(Written(sql))
    /\ UNCHANGED <<sql, text, again>>

FormatTree ==
    /\ stage = "parsed"
    /\ stage' = "formatted"
    /\ text' = Format(tree)
    /\ UNCHANGED <<sql, tree, again>>

ParseAgain ==
    /\ stage = "formatted"
    /\ stage' = "reparsed"
    /\ again' = ParseText(text)
    /\ UNCHANGED <<sql, tree, text>>

Next == ParseSql \/ FormatTree \/ ParseAgain

Spec == Init /\ [][Next]_vars

-----------------------------------------------------------------------------
(* What an expression computes, on numbers 0 .. 15 and NULL.               *)

NullValue == 0 - 1
Size == 16

Environments ==
    {[x \in {"a", "b", "c"} |-> IF x = "a" THEN i ELSE IF x = "b" THEN j ELSE 3] :
       i \in 1 .. 2, j \in 2 .. 3}

Bool(p) == IF p THEN 1 ELSE 0

Weight(unit) ==
    CASE unit = "year" -> 3 [] unit = "month" -> 5 [] unit = "week" -> 7 [] unit = "day" -> 9
      [] unit = "hour" -> 11 [] unit = "minute" -> 13 [] unit = "second" -> 15 [] OTHER -> 1

Total(amounts) ==
    FoldLeft(LAMBDA n, x : n + x.amount * Weight(x.unit), 0, amounts) % Size

\* A name is never NULL; a comparison for equality takes NULL as a value.
Compute(op, x, y) ==
    CASE op \in {"*", "mul"} -> (x * y) % Size
      [] op \in {"/", "div"} -> IF y = 0 THEN 0 ELSE x \div y
      [] op \in {"%", "mod"} -> IF y = 0 THEN 0 ELSE x % y
      [] op \in {"+", "add"} -> (x + y) % Size
      [] op \in {"-", "sub"} -> (x + Size - y) % Size
      [] op \in {"&", "binary_and"} -> x & y
      [] op \in {"|", "binary_or"} -> x | y
      [] op \in {"||", "concat"} -> IF x # 0 THEN x ELSE y
      [] op \in {"COLLATE", "collate"} -> (2 * x + y) % Size
      [] op \in {"AT TIME ZONE", "at_time_zone"} -> (x + 3 * y) % Size
      [] op \in {">=", "gte"} -> Bool(x >= y)
      [] op \in {"<=", "lte"} -> Bool(x <= y)
      [] op \in {"<", "lt"} -> Bool(x < y)
      [] op \in {">", "gt"} -> Bool(x > y)
      [] op \in {"=", "eq", "<=>", "eq!", "IS", "IS NOT DISTINCT FROM"} -> Bool(x = y)
      [] op \in {"<>", "neq", "ne!", "IS NOT", "IS DISTINCT FROM"} -> Bool(x # y)
      [] op \in {"LIKE", "like"} -> Bool(x = y + 1)
      [] op \in {"NOT LIKE", "not_like"} -> Bool(x # y + 1)
      [] op \in {"ILIKE", "ilike"} -> Bool(x = y + 2)
      [] op \in {"NOT ILIKE", "not_ilike"} -> Bool(x # y + 2)
      [] op \in {"RLIKE", "REGEXP", "rlike", "regexp"} -> Bool(x + 1 = y)
      [] op \in {"NOT RLIKE", "NOT REGEXP", "not_rlike", "not_regexp"} -> Bool(x + 1 # y)
      [] op \in {"AND", "and"} -> Bool(x # 0 /\ y # 0)
      [] op \in {"OR", "or"} -> Bool(x # 0 \/ y # 0)

RECURSIVE Evaluate(_, _)
Evaluate(t, env) ==
    LET Arg(i) == Evaluate(t.args[i], env)
        InRange == Arg(2) <= Arg(1) /\ Arg(1) <= Arg(3)
        set == IF t.args[2].op = "list" THEN t.args[2].args ELSE <<t.args[2]>>
        InSet == \E i \in DOMAIN set : Evaluate(set[i], env) = Arg(1)
        n == Len(t.args)
        Holds(i) == IF t.op = "case" THEN Arg(i) # 0 ELSE Arg(1) = Arg(i)
        Chosen(first) ==
            LET true == {i \in first .. n - 1 : (i - first) % 2 = 0 /\ Holds(i)}
            IN  IF true # {} THEN Arg(Min(true) + 1)
                ELSE IF (n - first) % 2 = 0 THEN Arg(n)
                ELSE NullValue
    IN  CASE t.op = "name" -> env[t.name]
          [] t.op = "null" -> NullValue
          [] t.op = "exception" -> NullValue - 1
          [] t.op \in {"COLUMN", "TEXT"} -> Code([i \in DOMAIN t.data |-> Content(t.data[i])])
          [] t.op = "column" -> Code(split_field(t.data[1].text))
          [] t.op = "literal" -> Code(<<t.data[1].text>>)
          [] t.op = "INTERVAL" -> Total(SaidOf(t.data, t.name))
          [] t.op = "interval" -> Total(t.data)
          [] t.op = "cast" -> Arg(1)
          [] t.op \in {"NOT", "not"} -> Bool(Arg(1) = 0)
          [] t.op \in {"NEG", "neg"} -> (Size - Arg(1)) % Size
          [] t.op \in {"~", "binary_not"} -> Size - 1 - Arg(1)
          [] t.op = "missing" -> Bool(Arg(1) = NullValue)
          [] t.op = "exists" -> Bool(Arg(1) # NullValue)
          [] t.op \in {"BETWEEN", "between"} -> Bool(InRange)
          [] t.op \in {"NOT BETWEEN", "not_between"} -> Bool(~InRange)
          [] t.op \in {"IN", "in"} -> Bool(InSet)
          [] t.op \in {"NOT IN", "nin"} -> Bool(~InSet)
          [] t.op = "case" -> Chosen(1)
          [] t.op = "switch" -> Chosen(2)
          [] OTHER ->
                FoldLeft(LAMBDA x, y : Compute(t.op, x, y), Arg(1),
                         [i \in 1 .. Len(t.args) - 1 |-> Arg(i + 1)])

RECURSIVE Subtrees(_)
Subtrees(t) == {t} \cup UNION {Subtrees(t.args[i]) : i \in DOMAIN t.args}

\* The tree of an expression computes what the expression says, though
\* operands of associative operators are moved up in it.
ValueKept ==
    stage # "written" =>
        \A env \in Environments : Evaluate(tree, env) = Evaluate(sql, env)

\* No associative operator has itself as an operand: such a tree has one form.
Flat ==
    stage # "written" =>
        \A s \in Subtrees(tree) :
            s.op \in Associative => \A i \in DOMAIN s.args : s.args[i].op # s.op

\* The text that is written for a tree, with as few parentheses as Formatter
\* puts, is read back as the same tree (verify_formatting in
\* tests/test_format_and_parse.py).
RoundTrip == stage = "reparsed" => again = tree
=============================================================================
