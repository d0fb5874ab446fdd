-------------------------- MODULE InsertValuesProofs --------------------------
(***************************************************************************)
(* Proofs about InsertValues for statements of any size.                   *)
(***************************************************************************)
EXTENDS InsertValues, FiniteSetTheorems, TLAPS

\* A cell of data is taken as it is.
LEMMA DataCells ==
    ASSUME NEW rows, IsData(rows), NEW i \in DOMAIN rows, NEW j \in DOMAIN rows[i]
    PROVE  Literal(rows[i][j]) = rows[i][j]
  BY DEF IsData, Truthy, Literal

\* The dictionary of a row has the cells of the row under their columns.
LEMMA ZippedIsKeyed ==
    ASSUME NEW s, IsStatement(s), s.columns # <<>>, IsData(s.rows),
           NEW i \in DOMAIN s.rows
    PROVE  Zipped(s.columns, s.rows[i]) = Keyed(s.columns, s.rows[i])
  <1> DEFINE place(k) == CHOOSE j \in DOMAIN s.columns : s.columns[j] = k
  <1>1. DOMAIN s.rows[i] = DOMAIN s.columns
    BY DEF IsStatement
  <1>2. {s.columns[j] : j \in DOMAIN s.columns} = ToSet(s.columns)
    BY DEF ToSet
  <1>3. ASSUME NEW k \in ToSet(s.columns)
        PROVE  Literal(s.rows[i][place(k)]) = s.rows[i][place(k)]
    <2>1. place(k) \in DOMAIN s.columns
      BY <1>2
    <2> QED BY <1>1, <2>1, DataCells
  <1>4. Zipped(s.columns, s.rows[i])
          = [k \in ToSet(s.columns) |-> Literal(s.rows[i][place(k)])]
    BY <1>1, <1>2 DEF Zipped
  <1>5. Keyed(s.columns, s.rows[i]) = [k \in ToSet(s.columns) |-> s.rows[i][place(k)]]
    BY DEF Keyed
  <1> QED BY <1>3, <1>4, <1>5

\* Whichever of the three forms it takes, the tree adds the same rows.
LEMMA ParseAdds ==
    ASSUME NEW s, IsStatement(s)
    PROVE  Parse(s) # Failed /\ Added(Parse(s)) = Added(s)
  <1>0. s.form \in {"values", "select"} /\ s # Failed
    BY DEF IsStatement, Failed, Statement
  <1>1. CASE ~(s.form = "values" /\ IsData(s.rows))
    <2>1. Parse(s) = Statement(s.columns, s.exists, "query", s.rows)
      BY <1>0, <1>1 DEF Parse, to_insert_call
    <2> QED BY <1>0, <2>1 DEF Added, Statement, Failed
  <1>2. CASE s.form = "values" /\ IsData(s.rows) /\ s.columns # <<>>
    <2>1. Parse(s) = Statement(<<>>, s.exists, "dicts",
                       [i \in DOMAIN s.rows |-> Zipped(s.columns, s.rows[i])])
      BY <1>0, <1>2 DEF Parse, to_insert_call
    <2>2. Added(Parse(s)) = [i \in DOMAIN s.rows |-> Zipped(s.columns, s.rows[i])]
      BY <2>1 DEF Added, Statement
    <2>3. Added(s) = [i \in DOMAIN s.rows |-> Keyed(s.columns, s.rows[i])]
      BY <1>2 DEF Added
    <2>4. \A i \in DOMAIN s.rows : Zipped(s.columns, s.rows[i]) = Keyed(s.columns, s.rows[i])
      BY <1>2, ZippedIsKeyed
    <2>5. Parse(s) # Failed
      BY <2>1 DEF Statement, Failed
    <2> QED BY <2>2, <2>3, <2>4, <2>5
  <1>3. CASE s.form = "values" /\ IsData(s.rows) /\ s.columns = <<>>
    <2> DEFINE lists == [i \in DOMAIN s.rows |->
                           [j \in DOMAIN s.rows[i] |-> Literal(s.rows[i][j])]]
    <2>1. Parse(s) = Statement(<<>>, s.exists, "lists", lists)
      BY <1>0, <1>3 DEF Parse, to_insert_call
    <2>2. Added(Parse(s)) = [i \in DOMAIN s.rows |-> lists[i]]
      BY <2>1 DEF Added, Statement, Keyed
    <2>3. Added(s) = [i \in DOMAIN s.rows |-> s.rows[i]]
      BY <1>3 DEF Added, Keyed
    <2>4. ASSUME NEW i \in DOMAIN s.rows PROVE lists[i] = s.rows[i]
      <3>1. PICK S : s.rows \in Seq(Seq(S))
        BY DEF IsStatement
      <3>2. s.rows[i] \in Seq(S)
        BY <3>1
      <3>3. s.rows[i] = [j \in DOMAIN s.rows[i] |-> s.rows[i][j]]
        BY <3>2
      <3>4. \A j \in DOMAIN s.rows[i] : Literal(s.rows[i][j]) = s.rows[i][j]
        BY <1>3, DataCells
      <3> QED BY <3>3, <3>4
    <2>5. Parse(s) # Failed
      BY <2>1 DEF Statement, Failed
    <2> QED BY <2>2, <2>3, <2>4, <2>5
  <1> QED BY <1>1, <1>2, <1>3

\* Whatever its cells and columns are, parse() loses no cell of a statement
\* and puts none under another column (to_values, to_insert_call).
THEOREM InsertMeaning ==
    ASSUME \A s \in Statements : IsStatement(s)
    PROVE  Spec => []MeaningKept
  <1> DEFINE Inv == /\ sql \in Statements
                    /\ stage # "written" => tree = Parse(sql)
  <1>1. Init => Inv
    BY DEF Init
  <1>2. Inv /\ [Next]_vars => Inv'
    BY DEF Next, ParseSql, FormatTree, ParseAgain, vars
  <1>3. Inv => MeaningKept
    BY ParseAdds DEF MeaningKept
  <1> QED BY <1>1, <1>2, <1>3, PTL DEF Spec

-----------------------------------------------------------------------------
(* The columns in order.                                                   *)

\* Columns have places of their own.
LEMMA PlacesDiffer ==
    ASSUME NEW S \in SUBSET (DOMAIN rank), IsFiniteSet(S),
           NEW c \in S, NEW d \in S, Place(S, c) = Place(S, d)
    PROVE  c = d
  <1> DEFINE UpTo(x) == {e \in S : rank[e] <= rank[x]}
  <1>1. \A e \in S : rank[e] \in Nat
    BY RankAssumption
  <1>2. ASSUME NEW x \in S, NEW y \in S, rank[x] <= rank[y], Place(S, x) = Place(S, y)
        PROVE  rank[x] = rank[y]
    <2>1. UpTo(x) \in SUBSET UpTo(y) /\ UpTo(y) \in SUBSET S
      BY <1>1, <1>2
    <2>2. IsFiniteSet(UpTo(y))
      BY <2>1, FS_Subset
    <2>3. Cardinality(UpTo(y)) = Cardinality(UpTo(x))
      BY <1>2 DEF Place
    <2>4. UpTo(y) = UpTo(x)
      <3> HIDE DEF UpTo
      <3> QED BY <2>1, <2>2, <2>3, FS_Subset
    <2>5. y \in UpTo(y)
      BY <1>1
    <2>6. rank[y] <= rank[x]
      BY <2>4, <2>5
    <2> QED BY <1>1, <1>2, <2>6
  <1>3. rank[c] = rank[d]
    <2>1. rank[c] \in Nat /\ rank[d] \in Nat
      BY <1>1
    <2>2. CASE rank[c] <= rank[d]
      BY <1>2, <2>2
    <2>3. CASE rank[d] <= rank[c]
      BY <1>2, <2>3
    <2> QED BY <2>1, <2>2, <2>3
  <1> QED BY <1>3, RankAssumption

\* Every column has a place, and every place a column.
LEMMA PlacesAreTaken ==
    ASSUME NEW S \in SUBSET (DOMAIN rank), IsFiniteSet(S)
    PROVE  /\ Cardinality(S) \in Nat
           /\ \A c \in S : Place(S, c) \in 1 .. Cardinality(S)
           /\ \A n \in 1 .. Cardinality(S) : \E c \in S : Place(S, c) = n
  <1> DEFINE last == Cardinality(S)
             UpTo(x) == {e \in S : rank[e] <= rank[x]}
  <1>1. last \in Nat
    BY FS_CardinalityType
  <1>2. ASSUME NEW c \in S PROVE Place(S, c) \in 1 .. last
    <2>1. UpTo(c) \in SUBSET S /\ c \in UpTo(c)
      BY RankAssumption
    <2> HIDE DEF UpTo
    <2>2. IsFiniteSet(UpTo(c)) /\ Cardinality(UpTo(c)) <= last
      BY <2>1, FS_Subset
    <2>3. Cardinality(UpTo(c)) \in Nat
      BY <2>2, FS_CardinalityType
    <2>4. Cardinality(UpTo(c)) # 0
      BY <2>1, <2>2, FS_EmptySet
    <2>5. Place(S, c) = Cardinality(UpTo(c))
      BY DEF Place, UpTo
    <2> HIDE DEF last
    <2> QED BY <1>1, <2>2, <2>3, <2>4, <2>5
  <1>3. ASSUME NEW n \in 1 .. last, \A c \in S : Place(S, c) # n PROVE FALSE
    <2> DEFINE T == (1 .. last) \ {n}
               f == [c \in S |-> Place(S, c)]
    <2> HIDE DEF last
    <2>1. f \in [S -> T]
      BY <1>2, <1>3
    <2>2. IsFiniteSet(1 .. last) /\ Cardinality(1 .. last) = last
      <3>1. 1 \in Int /\ last \in Int
        BY <1>1
      <3>2. IsFiniteSet(1 .. last) /\ Cardinality(1 .. last) = IF 1 > last THEN 0 ELSE last - 1 + 1
        BY <3>1, FS_Interval
      <3> QED BY <1>1, <3>2
    <2>3. IsFiniteSet(T) /\ Cardinality(T) = last - 1
      BY <1>3, <2>2, FS_RemoveElement
    <2>4. Cardinality(T) < Cardinality(S)
      BY <1>1, <2>3 DEF last
    <2> HIDE DEF T, f
    <2>5. PICK x, y \in S : x # y /\ f[x] = f[y]
      BY <2>1, <2>3, <2>4, FS_PigeonHole
    <2>6. Place(S, x) = Place(S, y)
      BY <2>5 DEF f
    <2> QED BY <2>5, <2>6, PlacesDiffer
  <1> QED BY <1>1, <1>2, <1>3

\* sorted() gives each column once.
LEMMA SortedIsBijective ==
    ASSUME NEW S \in SUBSET (DOMAIN rank), IsFiniteSet(S)
    PROVE  /\ Sorted(S) \in Seq(DOMAIN rank)
           /\ ToSet(Sorted(S)) = S
           /\ \A i, j \in DOMAIN Sorted(S) : Sorted(S)[i] = Sorted(S)[j] => i = j
  <1> DEFINE last == Cardinality(S)
             At(n) == CHOOSE c \in S : Place(S, c) = n
             s == Sorted(S)
  <1>1. \A n \in 1 .. last : At(n) \in S /\ Place(S, At(n)) = n
    BY PlacesAreTaken
  <1>2. s = [n \in 1 .. last |-> At(n)] /\ last \in Nat
    BY PlacesAreTaken DEF Sorted
  <1> HIDE DEF last, At, s
  <1>3. s \in [1 .. last -> S] /\ DOMAIN s = 1 .. last
    BY <1>1, <1>2
  <1>4. s \in Seq(DOMAIN rank)
    BY <1>2, <1>3
  <1>5. \A i, j \in 1 .. last : s[i] = s[j] => i = j
    BY <1>1, <1>2
  <1>6. ASSUME NEW c \in S PROVE \E n \in 1 .. last : s[n] = c
    <2> DEFINE n == Place(S, c)
    <2>1. n \in 1 .. last
      BY PlacesAreTaken DEF last
    <2>2. At(n) = c
      <3>1. At(n) \in S /\ Place(S, At(n)) = Place(S, c)
        BY <1>1, <2>1
      <3> QED BY <3>1, PlacesDiffer
    <2> HIDE DEF n
    <2> QED BY <1>2, <2>1, <2>2
  <1>7. ToSet(s) = S
    BY <1>3, <1>6 DEF ToSet
  <1> QED BY <1>3, <1>4, <1>5, <1>7 DEF s

-----------------------------------------------------------------------------
(* The text, and the tree that is read back.                               *)

\* A row that is written under its columns is read under them.
LEMMA KeyedWritten ==
    ASSUME NEW columns, columns # <<>>, NEW row, row = [k \in ToSet(columns) |-> row[k]]
    PROVE  Keyed(columns, WrittenRow(columns, row)) = row
  <1> DEFINE place(k) == CHOOSE j \in DOMAIN columns : columns[j] = k
  <1>1. ASSUME NEW k \in ToSet(columns)
        PROVE  WrittenRow(columns, row)[place(k)] = row[k]
    <2>1. place(k) \in DOMAIN columns /\ columns[place(k)] = k
      BY DEF ToSet
    <2> HIDE DEF place
    <2> QED BY <2>1 DEF WrittenRow
  <1>2. Keyed(columns, WrittenRow(columns, row))
          = [k \in ToSet(columns) |-> WrittenRow(columns, row)[place(k)]]
    BY DEF Keyed
  <1> QED BY <1>1, <1>2

\* Data is read as rows that are keyed by their columns.
LEMMA DataTree ==
    ASSUME NEW s, IsStatement(s), s.form = "values", IsData(s.rows), s.columns # <<>>
    PROVE  Parse(s) = Statement(<<>>, s.exists, "dicts",
                        [i \in DOMAIN s.rows |-> Keyed(s.columns, s.rows[i])])
  <1>1. s # Failed
    BY DEF Failed, Statement
  <1>2. Parse(s) = Statement(<<>>, s.exists, "dicts",
                     [i \in DOMAIN s.rows |-> Zipped(s.columns, s.rows[i])])
    BY <1>1 DEF Parse, to_insert_call
  <1>3. \A i \in DOMAIN s.rows : Zipped(s.columns, s.rows[i]) = Keyed(s.columns, s.rows[i])
    BY ZippedIsKeyed
  <1> QED BY <1>2, <1>3

\* What data is written as: its columns sorted, and the cells under them.
DataText(s) ==
    LET columns == Sorted(ToSet(s.columns))
    IN  Statement(columns, FALSE, "values",
                  [i \in DOMAIN s.rows |-> WrittenRow(columns, Keyed(s.columns, s.rows[i]))])

\* A row that is a dictionary has these columns, and its cells are of these.
IsKeyed(row, columns, cells) ==
    /\ DOMAIN row = columns
    /\ row = [k \in columns |-> row[k]]
    /\ \A k \in columns : \E j \in DOMAIN cells : row[k] = cells[j]

\* The cells of a row are those of its dictionary.
LEMMA KeyedCells ==
    ASSUME NEW s, IsStatement(s), s.columns # <<>>, NEW i \in DOMAIN s.rows
    PROVE  IsKeyed(Keyed(s.columns, s.rows[i]), ToSet(s.columns), s.rows[i])
  <1> DEFINE place(k) == CHOOSE j \in DOMAIN s.columns : s.columns[j] = k
             row == s.rows[i]
  <1>1. Keyed(s.columns, row) = [k \in ToSet(s.columns) |-> row[place(k)]]
    BY DEF Keyed
  <1>2. DOMAIN row = DOMAIN s.columns
    BY DEF IsStatement
  <1>3. ASSUME NEW k \in ToSet(s.columns) PROVE place(k) \in DOMAIN row
    <2>1. \E j \in DOMAIN s.columns : s.columns[j] = k
      BY DEF ToSet
    <2> QED BY <1>2, <2>1
  <1> HIDE DEF place, row
  <1>4. \A k \in ToSet(s.columns) : Keyed(s.columns, row)[k] = row[place(k)]
    BY <1>1
  <1>5. DOMAIN Keyed(s.columns, row) = ToSet(s.columns)
    BY <1>1
  <1>6. Keyed(s.columns, row) = [k \in ToSet(s.columns) |-> Keyed(s.columns, row)[k]]
    BY <1>1
  <1> QED BY <1>3, <1>4, <1>5, <1>6 DEF row, IsKeyed

\* There are as many columns in order as columns, and at least one.
LEMMA ColumnsSorted ==
    ASSUME NEW s, IsStatement(s), s.columns # <<>>
    PROVE  LET columns == Sorted(ToSet(s.columns)) IN
           /\ columns \in Seq(DOMAIN rank) /\ columns # <<>>
           /\ ToSet(columns) = ToSet(s.columns)
           /\ \A i, j \in DOMAIN columns : columns[i] = columns[j] => i = j
  <1> DEFINE S == ToSet(s.columns)
  <1>1. s.columns \in Seq(DOMAIN rank)
    BY DEF IsStatement
  <1>2. S \in SUBSET (DOMAIN rank) /\ S # {}
    <2> DEFINE c == s.columns
    <2>1. c \in Seq(DOMAIN rank) /\ c # <<>>
      BY <1>1
    <2> HIDE DEF c
    <2>2. 1 \in DOMAIN c /\ \A i \in DOMAIN c : c[i] \in DOMAIN rank
      BY <2>1
    <2>3. ToSet(c) \subseteq DOMAIN rank /\ c[1] \in ToSet(c)
      BY <2>2 DEF ToSet
    <2> QED BY <2>3 DEF c
  <1>3. IsFiniteSet(S)
    <2>1. IsFiniteSet(1 .. Len(s.columns))
      <3>1. 1 \in Int /\ Len(s.columns) \in Int
        BY <1>1
      <3> QED BY <3>1, FS_Interval
    <2>2. [i \in 1 .. Len(s.columns) |-> s.columns[i]] \in Surjection(1 .. Len(s.columns), S)
      <3>1. DOMAIN s.columns = 1 .. Len(s.columns)
        BY <1>1
      <3> QED BY <3>1 DEF ToSet, Surjection
    <2> HIDE DEF S
    <2> QED BY <2>1, <2>2, FS_Surjection
  <1> HIDE DEF S
  <1>4. /\ Sorted(S) \in Seq(DOMAIN rank) /\ ToSet(Sorted(S)) = S
        /\ \A i, j \in DOMAIN Sorted(S) : Sorted(S)[i] = Sorted(S)[j] => i = j
    BY <1>2, <1>3, SortedIsBijective
  <1>5. Sorted(S) # <<>>
    <2>1. ToSet(<<>>) = {}
      BY DEF ToSet
    <2> QED BY <1>2, <1>4, <2>1
  <1> QED BY <1>4, <1>5 DEF S

\* format() writes data as it should.
LEMMA DataWritten ==
    ASSUME NEW s, IsStatement(s), Formattable(s), s.form = "values", IsData(s.rows)
    PROVE  insert(Parse(s)) = DataText(s)
  <1> DEFINE keyed == [i \in DOMAIN s.rows |-> Keyed(s.columns, s.rows[i])]
             columns == SortedColumns(keyed)
             t == Parse(s)
  <1>1. s.columns # <<>>
    BY DEF Formattable
  <1>2. t = Statement(<<>>, s.exists, "dicts", keyed)
    BY <1>1, DataTree
  <1>3. t.rows = keyed /\ t.form = "dicts"
    BY <1>2 DEF Statement
  <1>cells. \A i \in DOMAIN s.rows : IsKeyed(keyed[i], ToSet(s.columns), s.rows[i])
    <2>1. \A i \in DOMAIN s.rows : IsKeyed(Keyed(s.columns, s.rows[i]), ToSet(s.columns), s.rows[i])
      BY <1>1, KeyedCells, Zenon
    <2> QED BY <2>1, Zenon
  <1>4. \A i \in DOMAIN s.rows : DOMAIN keyed[i] = ToSet(s.columns)
    <2> HIDE DEF keyed
    <2> QED BY <1>cells, Zenon DEF IsKeyed
  <1>5. DOMAIN keyed = DOMAIN s.rows /\ DOMAIN s.rows # {}
    <2> DEFINE r == s.rows
    <2>1. Len(r) > 1 /\ \E S : r \in Seq(S)
      BY DEF IsStatement, IsData
    <2> HIDE DEF r
    <2>2. 1 \in DOMAIN r
      BY <2>1
    <2> QED BY <2>2, Zenon DEF r
  <1>6. UNION {DOMAIN keyed[i] : i \in DOMAIN keyed} = ToSet(s.columns)
    <2> HIDE DEF keyed
    <2> QED BY <1>4, <1>5
  <1>7. columns = Sorted(ToSet(s.columns)) /\ ToSet(columns) = ToSet(s.columns)
    <2>1. columns = Sorted(ToSet(s.columns))
      BY <1>6 DEF SortedColumns
    <2> HIDE DEF columns
    <2> QED BY <1>1, <2>1, ColumnsSorted
  <1>9. insert(t) = WrittenDicts(t)
    BY <1>3 DEF insert
  <1> HIDE DEF t
  <1>10. WrittenDicts(t) = Statement(columns, FALSE, "values",
                             [i \in DOMAIN keyed |-> WrittenRow(columns, keyed[i])])
    <2>1. ~ \E i \in DOMAIN keyed : DOMAIN keyed[i] # ToSet(columns)
      <3> HIDE DEF columns, keyed
      <3> QED BY <1>4, <1>5, <1>7
    <2> HIDE DEF keyed
    <2> QED BY <1>3, <2>1 DEF WrittenDicts
  <1>11. [i \in DOMAIN keyed |-> WrittenRow(columns, keyed[i])]
           = [i \in DOMAIN s.rows |-> WrittenRow(columns, Keyed(s.columns, s.rows[i]))]
    <2> HIDE DEF columns
    <2> QED OBVIOUS
  <1> HIDE DEF keyed, columns
  <1> QED BY <1>7, <1>9, <1>10, <1>11 DEF DataText, t

\* The text of data is a statement of data.
LEMMA DataTextIsStatement ==
    ASSUME NEW s, IsStatement(s), s.form = "values", IsData(s.rows), s.columns # <<>>
    PROVE  /\ IsStatement(DataText(s)) /\ IsData(DataText(s).rows)
           /\ DataText(s).columns # <<>> /\ DataText(s).form = "values"
           /\ DataText(s).exists = FALSE
           /\ [i \in DOMAIN DataText(s).rows |-> Keyed(DataText(s).columns, DataText(s).rows[i])]
                = [i \in DOMAIN s.rows |-> Keyed(s.columns, s.rows[i])]
  <1> DEFINE columns == Sorted(ToSet(s.columns))
             row(i) == Keyed(s.columns, s.rows[i])
             written == [i \in DOMAIN s.rows |-> WrittenRow(columns, row(i))]
             t == DataText(s)
  <1>1. t.columns = columns /\ t.rows = written /\ t.form = "values" /\ t.exists = FALSE
    BY DEF DataText, Statement
  <1>2. /\ columns \in Seq(DOMAIN rank) /\ columns # <<>>
        /\ ToSet(columns) = ToSet(s.columns)
        /\ \A i, j \in DOMAIN columns : columns[i] = columns[j] => i = j
    BY ColumnsSorted
  <1> HIDE DEF columns
  <1>3. PICK S : s.rows \in Seq(Seq(S))
    BY DEF IsStatement
  <1>4. DOMAIN s.rows = 1 .. Len(s.rows) /\ Len(s.rows) \in Nat /\ Len(s.rows) > 1
    BY <1>3 DEF IsData
  <1>cells. \A i \in DOMAIN s.rows : IsKeyed(row(i), ToSet(columns), s.rows[i])
    <2>1. \A i \in DOMAIN s.rows : IsKeyed(Keyed(s.columns, s.rows[i]), ToSet(s.columns), s.rows[i])
      BY KeyedCells, Zenon
    <2> QED BY <1>2, <2>1, Zenon
  <1>5. ASSUME NEW i \in DOMAIN s.rows, NEW n \in DOMAIN columns
        PROVE  \E j \in DOMAIN s.rows[i] : written[i][n] = s.rows[i][j]
    <2>1. columns[n] \in ToSet(columns)
      BY DEF ToSet
    <2>2. written[i][n] = row(i)[columns[n]]
      BY DEF WrittenRow
    <2> HIDE DEF row, written
    <2> QED BY <1>cells, <2>1, <2>2, Zenon DEF IsKeyed
  <1>6. \A i \in DOMAIN s.rows : DOMAIN written[i] = DOMAIN columns
    BY DEF WrittenRow
  <1>7. \A i \in DOMAIN s.rows : written[i] \in Seq(S)
    <2> TAKE i \in DOMAIN s.rows
    <2>1. s.rows[i] \in Seq(S)
      BY <1>3
    <2>2. \A j \in DOMAIN s.rows[i] : s.rows[i][j] \in S
      BY <2>1
    <2>3. DOMAIN columns = 1 .. Len(columns) /\ Len(columns) \in Nat
      BY <1>2
    <2>4. written[i] = [n \in 1 .. Len(columns) |-> row(i)[columns[n]]]
      BY <2>3 DEF WrittenRow
    <2> HIDE DEF row, written
    <2>5. written[i] \in [1 .. Len(columns) -> S]
      <3>1. \A n \in 1 .. Len(columns) : written[i][n] \in S
        BY <1>5, <2>2, <2>3
      <3> QED BY <2>4, <3>1
    <2> QED BY <2>3, <2>5
  <1>8. written \in Seq(Seq(S)) /\ DOMAIN written = DOMAIN s.rows /\ Len(written) = Len(s.rows)
    <2>1. written \in [1 .. Len(s.rows) -> Seq(S)]
      BY <1>4, <1>7
    <2> HIDE DEF written
    <2> QED BY <1>4, <2>1
  <1> HIDE DEF written
  <1>9. IsStatement(t)
    BY <1>1, <1>2, <1>6, <1>8 DEF IsStatement
  <1>10. IsData(t.rows)
    <2>1. \A i \in DOMAIN s.rows : \A j \in DOMAIN s.rows[i] : Truthy(s.rows[i][j])
      BY DEF IsData
    <2> QED BY <1>1, <1>4, <1>5, <1>6, <1>8, <2>1 DEF IsData
  <1>11. \A i \in DOMAIN s.rows : Keyed(columns, written[i]) = row(i)
    <2> TAKE i \in DOMAIN s.rows
    <2>1. row(i) = [k \in ToSet(columns) |-> row(i)[k]]
      <3> HIDE DEF row
      <3> QED BY <1>cells, Zenon DEF IsKeyed
    <2>2. written[i] = WrittenRow(columns, row(i))
      BY DEF written
    <2> HIDE DEF row
    <2> QED BY <1>2, <2>1, <2>2, KeyedWritten
  <1>12. [i \in DOMAIN t.rows |-> Keyed(t.columns, t.rows[i])] = [i \in DOMAIN s.rows |-> row(i)]
    <2> HIDE DEF row
    <2> QED BY <1>1, <1>8, <1>11
  <1> QED BY <1>1, <1>2, <1>9, <1>10, <1>12

\* A statement that is a query is written as it is, and read as the same tree.
LEMMA QueryReadBack ==
    ASSUME NEW s, IsStatement(s), ~(s.form = "values" /\ IsData(s.rows))
    PROVE  LET text_ == insert(Parse(s)) IN
           /\ text_ # Failed
           /\ Added(text_) = Added(Parse(s))
           /\ ~s.exists => Parse(text_) = Parse(s)
  <1> DEFINE query == Statement(s.columns, s.exists, "query", s.rows)
             select == Statement(s.columns, FALSE, "select", s.rows)
  <1>1. Parse(s) = query
    <2>1. s # Failed
      BY DEF IsStatement, Failed, Statement
    <2> QED BY <2>1 DEF Parse, to_insert_call
  <1>2. insert(query) = select
    BY DEF insert, Statement
  <1>3. select # Failed
    BY DEF Failed, Statement
  <1>4. Added(select) = Added(query)
    BY DEF Added, Statement
  <1>5. ~s.exists => Parse(select) = query
    <2>1. Parse(select) = Statement(s.columns, FALSE, "query", s.rows)
      BY <1>3 DEF Parse, to_insert_call, Statement
    <2>2. s.exists \in BOOLEAN
      BY DEF IsStatement
    <2> QED BY <2>1, <2>2
  <1> HIDE DEF query, select
  <1> QED BY <1>1, <1>2, <1>3, <1>4, <1>5

\* Data is written with its columns sorted, and read as the same tree.
LEMMA DataReadBack ==
    ASSUME NEW s, IsStatement(s), Formattable(s), s.form = "values", IsData(s.rows)
    PROVE  LET text_ == insert(Parse(s)) IN
           /\ text_ # Failed
           /\ Added(text_) = Added(Parse(s))
           /\ ~s.exists => Parse(text_) = Parse(s)
  <1> DEFINE t == DataText(s)
             keyed == [i \in DOMAIN s.rows |-> Keyed(s.columns, s.rows[i])]
             dicts == Statement(<<>>, s.exists, "dicts", keyed)
  <1>1. s.columns # <<>>
    BY DEF Formattable
  <1>2. insert(Parse(s)) = t
    BY DataWritten
  <1>3. Parse(s) = dicts
    BY <1>1, DataTree
  <1>4. /\ IsStatement(t) /\ IsData(t.rows) /\ t.columns # <<>>
        /\ t.form = "values" /\ t.exists = FALSE
        /\ [i \in DOMAIN t.rows |-> Keyed(t.columns, t.rows[i])] = keyed
    BY <1>1, DataTextIsStatement
  <1> HIDE DEF t
  <1>5. Parse(t) = Statement(<<>>, t.exists, "dicts",
                     [i \in DOMAIN t.rows |-> Keyed(t.columns, t.rows[i])])
    BY <1>4, DataTree
  <1>6. ~s.exists => Parse(t) = dicts
    <2> HIDE DEF keyed
    <2>1. s.exists \in BOOLEAN
      BY DEF IsStatement
    <2> QED BY <1>4, <1>5, <2>1
  <1>7. Added(t) = keyed
    <2> HIDE DEF keyed
    <2>1. t.form # "dicts"
      BY <1>4
    <2> QED BY <1>4, <2>1 DEF Added
  <1>8. Added(dicts) = keyed
    BY DEF Added, Statement
  <1>9. t # Failed
    BY <1>4 DEF Failed, Statement
  <1> HIDE DEF dicts, keyed
  <1> QED BY <1>2, <1>3, <1>6, <1>7, <1>8, <1>9

\* Text, tree and text again follow from the statement, step by step.
Followed ==
    /\ sql \in Statements
    /\ stage \in {"written", "parsed", "formatted", "reparsed"}
    /\ stage # "written" => tree = Parse(sql)
    /\ stage \in {"formatted", "reparsed"} => text = insert(tree)
    /\ stage = "reparsed" => again = Parse(text)

LEMMA AlwaysFollowed == Spec => []Followed
  <1>1. Init => Followed
    BY DEF Init, Followed
  <1>2. Followed /\ [Next]_vars => Followed'
    <2> SUFFICES ASSUME Followed, [Next]_vars PROVE Followed'
      OBVIOUS
    <2>1. CASE ParseSql
      BY <2>1 DEF ParseSql, Followed
    <2>2. CASE FormatTree
      BY <2>2 DEF FormatTree, Followed
    <2>3. CASE ParseAgain
      BY <2>3 DEF ParseAgain, Followed
    <2>4. CASE UNCHANGED vars
      BY <2>4 DEF vars, Followed
    <2> QED BY <2>1, <2>2, <2>3, <2>4 DEF Next
  <1> QED BY <1>1, <1>2, PTL DEF Spec

\* What is written of a statement and read again.
LEMMA ReadBack ==
    ASSUME NEW s, IsStatement(s), Formattable(s)
    PROVE  /\ insert(Parse(s)) # Failed
           /\ Added(insert(Parse(s))) = Added(Parse(s))
           /\ ~s.exists => Parse(insert(Parse(s))) = Parse(s)
  <1>1. CASE s.form = "values" /\ IsData(s.rows)
    BY <1>1, DataReadBack
  <1>2. CASE ~(s.form = "values" /\ IsData(s.rows))
    BY <1>2, QueryReadBack
  <1> QED BY <1>1, <1>2

\* Whatever its columns are and however many rows there are, format() writes
\* for a tree the rows that the tree adds (insert, _literal).
THEOREM InsertTextKept ==
    ASSUME \A s \in Statements : IsStatement(s) /\ Formattable(s)
    PROVE  Spec => []TextKept
  <1>1. Followed => TextKept
    BY ReadBack DEF Followed, TextKept
  <1> QED BY <1>1, AlwaysFollowed, PTL

\* And parse() reads the text back as the tree it was written for, unless the
\* statement says IF EXISTS, which insert() does not write.
THEOREM InsertRoundTrip ==
    ASSUME \A s \in Statements : IsStatement(s) /\ Formattable(s)
    PROVE  Spec => []RoundTrip
  <1>1. Followed => RoundTrip
    BY ReadBack DEF Followed, RoundTrip
  <1> QED BY <1>1, AlwaysFollowed, PTL
=============================================================================
