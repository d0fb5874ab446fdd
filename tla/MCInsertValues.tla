--------------------------- MODULE MCInsertValues ---------------------------
(***************************************************************************)
(* Two rows of two cells of every kind, and three rows of three numbers,   *)
(* with columns in and out of order or without.  WellFormatted leaves out  *)
(* what Formatter cannot write: rows of data without columns.              *)
(***************************************************************************)
EXTENDS InsertValues

MCNumbers == {"0", "1", "2"}
MCTexts   == {"''", "'x'"}
Computed  == "1 + 1"
Cells     == MCNumbers \cup MCTexts \cup {"NULL", Computed}

MCRank == [c \in {"a", "b", "c"} |-> CASE c = "a" -> 1 [] c = "b" -> 2 [] c = "c" -> 3]

Rows(n, cells) == [1 .. n -> cells]

Small == [columns : {<<>>, <<"a", "b">>, <<"b", "a">>}, exists : {FALSE},
          form : {"values", "select"},
          rows : Rows(1, Rows(2, Cells)) \cup Rows(2, Rows(2, Cells))]

Wide == [columns : {<<"c", "a", "b">>, <<"b", "c", "a">>}, exists : BOOLEAN,
         form : {"values", "select"}, rows : Rows(3, Rows(3, {"0", "1"}))]

WellFormatted == {s \in Small \cup Wide : Formattable(s)}
=============================================================================
