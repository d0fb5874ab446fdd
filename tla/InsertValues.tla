----------------------------- MODULE InsertValues -----------------------------
(***************************************************************************)
(* INSERT INTO t (columns) VALUES rows, and INSERT ... SELECT: to_values() *)
(* and to_insert_call() (utils.py) on the way in, Formatter.insert() and   *)
(* _literal() (formatting.py) on the way out.                              *)
(*                                                                         *)
(* A statement can end up in three forms, by what its cells are: rows that *)
(* are dictionaries, rows that are lists, or a query of SELECTs.  Rows of  *)
(* numbers and texts are taken for data, unless one of them is falsy in    *)
(* Python; a NULL is a call to the parser, and computed like any other.    *)
(* Rows and columns come in twos or more: mo_parsing hands over a list of  *)
(* one as its element.                                                     *)
(***************************************************************************)
EXTENDS Integers, Sequences, FiniteSets, SequencesExt

CONSTANTS
    Statements,   \* what clients write
    Numbers,      \* cells that are numbers
    Texts,        \* cells that are quoted texts
    Zero, Empty,  \* the number and the text that are falsy
    rank          \* the order of column names

ASSUME CellsAssumption ==
    /\ Zero \in Numbers /\ Zero \notin Texts
    /\ Empty \in Texts /\ Empty \notin Numbers

ASSUME RankAssumption ==
    /\ rank \in [DOMAIN rank -> Nat]
    /\ \A c, d \in DOMAIN rank : rank[c] = rank[d] => c = d

\* `form` is how the rows are given: after VALUES, or as SELECTs joined by
\* UNION ALL.  Without a list of columns, `columns` is empty.
Statement(columns, exists, form, rows) ==
    [columns |-> columns, exists |-> exists, form |-> form, rows |-> rows]

\* The text when format() raises, and the tree when a text does not parse.
Failed == Statement(<<>>, FALSE, "exception", <<>>)

-----------------------------------------------------------------------------
(* Parsing.                                                                *)

\* all() of what get_literal answers: None for a Call, which NULL is one of
\* (SQL_NULL), and for a cell that is computed, as falsy as 0 and ''.
Truthy(cell) == cell \in (Numbers \cup Texts) \ {Zero, Empty}

\* Variant to break MeaningKept: no matter what get_literal answers.
IsDataAlways(rows) == Len(rows) > 1

\* to_values: {"from": {"literal": rows}}, as opposed to SELECTs.
IsData(rows) ==
    /\ Len(rows) > 1
    /\ \A i \in DOMAIN rows : \A j \in DOMAIN rows[i] : Truthy(rows[i][j])

\* get_literal of a cell in data.
Literal(cell) == IF cell \in Numbers \cup Texts THEN cell ELSE "None"

\* dict(zip(columns, row))
Zipped(columns, row) ==
    [k \in {columns[j] : j \in DOMAIN columns \cap DOMAIN row} |->
       Literal(row[CHOOSE j \in DOMAIN columns : columns[j] = k])]

\* The columns are in the tree only if the rows are not keyed by them.
to_insert_call(s) ==
    IF s.form = "values" /\ IsData(s.rows)
    THEN IF s.columns # <<>>
         THEN Statement(<<>>, s.exists, "dicts",
                        [i \in DOMAIN s.rows |-> Zipped(s.columns, s.rows[i])])
         ELSE Statement(<<>>, s.exists, "lists",
                        [i \in DOMAIN s.rows |->
                           [j \in DOMAIN s.rows[i] |-> Literal(s.rows[i][j])]])
    ELSE Statement(s.columns, s.exists, "query", s.rows)

Parse(s) == IF s = Failed THEN Failed ELSE to_insert_call(s)

-----------------------------------------------------------------------------
(* Formatting.                                                             *)

Place(columns, c) == Cardinality({d \in columns : rank[d] <= rank[c]})

\* sorted()
Sorted(columns) ==
    [n \in 1 .. Cardinality(columns) |-> CHOOSE c \in columns : Place(columns, c) = n]

\* sorted(set(k for row in values for k in row.keys()))
SortedColumns(rows) == Sorted(UNION {DOMAIN rows[i] : i \in DOMAIN rows})

\* Variant to break TextKept: the cells are in the opposite order.
WrittenRowReversed(columns, row) == [j \in DOMAIN columns |-> row[Reverse(columns)[j]]]

WrittenRow(columns, row) == [j \in DOMAIN columns |-> row[columns[j]]]

\* IF EXISTS is in the tree as if_exists (flag), and looked for as "if exists":
\* no text has it.  KeyError from row[c], for a column that only another row has.
WrittenDicts(t) ==
    LET columns == SortedColumns(t.rows) IN
    IF \E i \in DOMAIN t.rows : DOMAIN t.rows[i] # ToSet(columns)
    THEN Failed
    ELSE Statement(columns, FALSE, "values",
                   [i \in DOMAIN t.rows |-> WrittenRow(columns, t.rows[i])])

\* Variant to break RoundTrip: the rows of a query are written after VALUES.
InsertOfRows(t) ==
    CASE t.form = "dicts" -> WrittenDicts(t)
      [] t.form = "query" -> Statement(t.columns, FALSE, "values", t.rows)
      [] t.form \in {"lists", "exception"} -> Failed

\* Rows that are lists are written character by character, with no comma
\* between them: such text does not parse.
insert(t) ==
    CASE t.form = "dicts" -> WrittenDicts(t)
      [] t.form = "query" -> Statement(t.columns, FALSE, "select", t.rows)
      [] t.form \in {"lists", "exception"} -> Failed

-----------------------------------------------------------------------------
(* A statement goes from text to tree, to text, and to a tree again.       *)

VARIABLES
    stage,
    sql,       \* the statement as written
    tree,      \* what parse() made of it
    text,      \* what format() made of that
    again      \* what parse() made of the text

vars == <<stage, sql, tree, text, again>>

Init ==
    /\ stage = "written"
    /\ sql \in Statements
    /\ tree = Failed
    /\ text = Failed
    /\ again = Failed

ParseSql ==
    /\ stage = "written"
    /\ stage' = "parsed"
    /\ tree' = Parse(sql)
    /\ UNCHANGED <<sql, text, again>>

FormatTree ==
    /\ stage = "parsed"
    /\ stage' = "formatted"
    /\ text' = insert(tree)
    /\ UNCHANGED <<sql, tree, again>>

ParseAgain ==
    /\ stage = "formatted"
    /\ stage' = "reparsed"
    /\ again' = Parse(text)
    /\ UNCHANGED <<sql, tree, text>>

Next == ParseSql \/ FormatTree \/ ParseAgain

Spec == Init /\ [][Next]_vars

-----------------------------------------------------------------------------
(* Which rows a statement adds to its table.                               *)

\* A row by the columns of the statement, or by position.
Keyed(columns, row) ==
    IF columns = <<>> THEN row
    ELSE [k \in ToSet(columns) |-> row[CHOOSE j \in DOMAIN columns : columns[j] = k]]

Added(s) ==
    IF s.form = "dicts" THEN s.rows
    ELSE [i \in DOMAIN s.rows |-> Keyed(s.columns, s.rows[i])]

\* A statement of SQL: no column twice, and a cell for each.
IsStatement(s) ==
    /\ s.form \in {"values", "select"}
    /\ s.exists \in BOOLEAN
    /\ s.columns \in Seq(DOMAIN rank)
    /\ \A i, j \in DOMAIN s.columns : s.columns[i] = s.columns[j] => i = j
    /\ \E S : s.rows \in Seq(Seq(S))
    /\ s.columns # <<>> => \A i \in DOMAIN s.rows : DOMAIN s.rows[i] = DOMAIN s.columns

\* What Formatter can write: data has columns.
Formattable(s) == s.form = "values" /\ IsData(s.rows) => s.columns # <<>>

\* The tree adds the rows that the statement adds, whichever form it takes.
MeaningKept == stage # "written" => tree # Failed /\ Added(tree) = Added(sql)

\* The text written for a statement adds the rows its tree does, though its
\* columns are sorted and its rows may be given in another way.
TextKept == stage \in {"formatted", "reparsed"} => text # Failed /\ Added(text) = Added(tree)

\* The text is read back as the tree it was written for, unless the tree says
\* IF EXISTS, which is never written.
RoundTrip == stage = "reparsed" /\ ~sql.exists => again = tree
=============================================================================
