-------------------------- MODULE WindowFrameProofs --------------------------
(***************************************************************************)
(* Proofs about WindowFrame: for frames between whole rows, with limits of *)
(* any size, parsing keeps the limits and formatting can be undone.        *)
(***************************************************************************)
EXTENDS WindowFrame, TLAPS

\* The marks for what is not a number of rows are told apart.
LEMMA Marks ==
    /\ Missing # Unbounded
    /\ \A n : Rows(n) # Missing /\ Rows(n) # Unbounded /\ Rows(n).n = n
              /\ Rows(n).of = "row" /\ ~IsData(Rows(n))
    /\ \A m, n : Rows(m) = Rows(n) <=> m = n
    /\ \A n : Neg(Rows(n)) = Rows(0 - n)
  BY ExprsAssumption DEF Missing, Unbounded, Rows, Offset, IsData, Neg

\* The shapes that a bound between whole rows can have.
LEMMA RowBoundCases ==
    ASSUME NEW b, IsRowBound(b)
    PROVE  \/ b.direction = "current row" /\ b.limit = Rows(0)
           \/ b.direction = "preceding" /\ b.limit = Unbounded
           \/ b.direction = "following" /\ b.limit = Unbounded
           \/ b.direction = "preceding" /\ \E n \in Nat : b.limit = Rows(n)
           \/ b.direction = "following" /\ \E n \in Nat : b.limit = Rows(n)
  <1>1. \A l \in [n : Nat, of : {"row"}] : l.n \in Nat /\ l = Rows(l.n)
    BY DEF Rows, Offset
  <1>2. CurrentRow.direction = "current row" /\ CurrentRow.limit = Rows(0)
    BY DEF CurrentRow, Bound, Rows, Offset
  <1> QED BY <1>1, <1>2 DEF IsRowBound

\* The range of a bound alone, and its place.
LEMMA BoundRange ==
    ASSUME NEW b, IsRowBound(b)
    PROVE  \/ /\ b.limit # Unbounded /\ Place(b) = Rows(0)
              /\ ToBound(b) = Range(Rows(0), Rows(0))
           \/ /\ b.limit = Unbounded /\ Place(b) = Missing /\ b.direction = "preceding"
              /\ ToBound(b) = Range(Missing, Rows(0))
           \/ /\ b.limit = Unbounded /\ Place(b) = Missing /\ b.direction = "following"
              /\ ToBound(b) = Range(Rows(0), Missing)
           \/ /\ b.limit # Unbounded /\ b.direction = "preceding"
              /\ \E n \in Nat : n > 0 /\ Place(b) = Rows(0 - n)
                                /\ ToBound(b) = Range(Rows(0 - n), Rows(0))
           \/ /\ b.limit # Unbounded /\ b.direction = "following"
              /\ \E n \in Nat : n > 0 /\ Place(b) = Rows(n)
                                /\ ToBound(b) = Range(Rows(0), Rows(n))
  <1>1. CASE b.direction = "current row" /\ b.limit = Rows(0)
    BY <1>1, Marks DEF Place, ToBound
  <1>2. CASE b.direction = "preceding" /\ b.limit = Unbounded
    BY <1>2 DEF Place, ToBound
  <1>3. CASE b.direction = "following" /\ b.limit = Unbounded
    BY <1>3 DEF Place, ToBound
  <1>4. ASSUME b.direction = "preceding", NEW n \in Nat, b.limit = Rows(n)
        PROVE  /\ b.limit # Unbounded
               /\ Place(b) = Rows(0 - n) /\ ToBound(b) = Range(Rows(0 - n), Rows(0))
    BY <1>4, Marks DEF Place, ToBound
  <1>5. ASSUME b.direction = "following", NEW n \in Nat, b.limit = Rows(n)
        PROVE  /\ b.limit # Unbounded
               /\ Place(b) = Rows(n) /\ ToBound(b) = Range(Rows(0), Rows(n))
    BY <1>5, Marks DEF Place, ToBound
  <1>6. \A n \in Nat : n > 0 \/ (n = 0 /\ 0 - n = 0)
    OBVIOUS
  <1> QED BY <1>1, <1>2, <1>3, <1>4, <1>5, <1>6, RowBoundCases

\* parse() gives every frame between whole rows its limits.
LEMMA ParseOffsets ==
    ASSUME NEW f, IsRowFrame(f)
    PROVE  Parse(f) = Offsets(f)
  <1> DEFINE lo == f.lo
             hi == f.hi
  <1>1. IsRowBound(lo) /\ IsRowBound(hi)
    BY DEF IsRowFrame
  <1>2. CASE ~f.between
    <2>1. Parse(f) = ToBound(lo)
      BY <1>2 DEF Parse
    <2>2. Offsets(f) = IF lo.direction = "following" THEN Range(Rows(0), Place(lo))
                       ELSE Range(Place(lo), Rows(0))
      BY <1>2 DEF Offsets
    <2> HIDE DEF lo, hi
    <2> QED BY <1>1, <2>1, <2>2, BoundRange
  <1>3. CASE f.between
    <2>1. Parse(f) = ToBetween(ToBound(lo), ToBound(hi))
          /\ Offsets(f) = Range(Place(lo), Place(hi))
      BY <1>3 DEF Parse, Offsets
    <2>2. /\ ~(lo.limit = Unbounded /\ lo.direction = "following")
          /\ ~(hi.limit = Unbounded /\ hi.direction = "preceding")
      BY <1>3 DEF IsRowFrame
    <2>3. lo.limit # Unbounded /\ hi.limit # Unbounded => Place(lo).n <= Place(hi).n
      BY <1>3 DEF IsRowFrame
    <2>4. \A a, b : Range(a, b).min = a /\ Range(a, b).max = b
      BY DEF Range
    <2> HIDE DEF lo, hi
    <2> QED BY <1>1, <2>1, <2>2, <2>3, <2>4, BoundRange, Marks DEF ToBetween
  <1> QED BY <1>2, <1>3

\* The range of a frame, ROWS or RANGE and whatever the size of its limits, has
\* the limits that SQL gives the frame (windows.py, for limits in rows).
THEOREM LimitsAlwaysKept ==
    ASSUME \A f \in Frames : IsRowFrame(f)
    PROVE  Spec => []LimitsKept
  <1> DEFINE Inv == /\ sql \in Frames
                    /\ stage \in {"written", "parsed", "formatted", "reparsed", "failed"}
                    /\ LimitsKept
  <1>1. Init => Inv
    BY DEF Init, LimitsKept
  <1>2. Inv /\ [Next]_vars => Inv'
    <2> SUFFICES ASSUME Inv, [Next]_vars PROVE Inv'
      OBVIOUS
    <2>1. CASE ParseFrame
      BY <2>1, ParseOffsets DEF ParseFrame, LimitsKept
    <2>2. CASE FormatFrame
      BY <2>2 DEF FormatFrame, LimitsKept
    <2>3. CASE ReparseFrame
      BY <2>3 DEF ReparseFrame, LimitsKept
    <2>4. CASE UNCHANGED vars
      BY <2>4 DEF vars, LimitsKept
    <2> QED BY <2>1, <2>2, <2>3, <2>4 DEF Next
  <1> QED BY <1>1, <1>2, PTL DEF Spec

-----------------------------------------------------------------------------
(* The way back.                                                           *)

\* The ranges that frames between whole rows mean.
RowRange(r) ==
    \E a, b :
        /\ r = Range(a, b)
        /\ a = Missing \/ \E m \in Int : a = Rows(m)
        /\ b = Missing \/ \E n \in Int : b = Rows(n)
        /\ \A m, n \in Int : a = Rows(m) /\ b = Rows(n) => m <= n

LEMMA OffsetsAreRowRange ==
    ASSUME NEW f, IsRowFrame(f)
    PROVE  RowRange(Offsets(f))
  <1>1. IsRowBound(f.lo) /\ IsRowBound(f.hi)
    BY DEF IsRowFrame
  <1>2. \A b : IsRowBound(b) =>
           /\ b.limit = Unbounded => Place(b) = Missing
           /\ b.limit # Unbounded => \E n \in Int : Place(b) = Rows(n)
           /\ b.limit # Unbounded /\ b.direction = "following" =>
                 \E n \in Int : n >= 0 /\ Place(b) = Rows(n)
           /\ b.limit # Unbounded /\ b.direction # "following" =>
                 \E n \in Int : n <= 0 /\ Place(b) = Rows(n)
    <2> SUFFICES ASSUME NEW b, IsRowBound(b)
                 PROVE  /\ b.limit = Unbounded => Place(b) = Missing
                        /\ b.limit # Unbounded /\ b.direction = "following" =>
                              \E n \in Int : n >= 0 /\ Place(b) = Rows(n)
                        /\ b.limit # Unbounded /\ b.direction # "following" =>
                              \E n \in Int : n <= 0 /\ Place(b) = Rows(n)
      OBVIOUS
    <2>1. b.limit = Unbounded => Place(b) = Missing
      BY DEF Place
    <2>2. ASSUME NEW n \in Nat, b.limit = Rows(n), b.direction = "following"
          PROVE  \E k \in Int : k >= 0 /\ Place(b) = Rows(k)
      BY <2>2, Marks DEF Place
    <2>3. ASSUME NEW n \in Nat, b.limit = Rows(n), b.direction = "preceding"
          PROVE  \E k \in Int : k <= 0 /\ Place(b) = Rows(k)
      <3>1. Place(b) = Rows(0 - n) /\ 0 - n \in Int /\ 0 - n <= 0
        BY <2>3, Marks DEF Place
      <3> QED BY <3>1
    <2>4. b.limit = Rows(0) /\ b.direction = "current row" => Place(b) = Rows(0)
      BY Marks DEF Place
    <2>5. \E k \in Int : k <= 0 /\ Rows(0) = Rows(k)
      OBVIOUS
    <2> QED BY <2>1, <2>2, <2>3, <2>4, <2>5, RowBoundCases
  <1>3. CASE f.between
    <2>1. Offsets(f) = Range(Place(f.lo), Place(f.hi))
      BY <1>3 DEF Offsets
    <2>2. f.lo.limit # Unbounded /\ f.hi.limit # Unbounded =>
             Place(f.lo).n <= Place(f.hi).n
      BY <1>3 DEF IsRowFrame
    <2>3. /\ Place(f.lo) = Missing \/ \E m \in Int : Place(f.lo) = Rows(m)
          /\ Place(f.hi) = Missing \/ \E m \in Int : Place(f.hi) = Rows(m)
      BY <1>1, <1>2
    <2>4. \A m, n \in Int : Place(f.lo) = Rows(m) /\ Place(f.hi) = Rows(n) => m <= n
      BY <1>1, <1>2, <2>2, Marks
    <2> QED BY <2>1, <2>3, <2>4 DEF RowRange
  <1>4. CASE ~f.between /\ f.lo.direction = "following"
    <2>1. Offsets(f) = Range(Rows(0), Place(f.lo))
      BY <1>4 DEF Offsets
    <2>2. \A m, n \in Int : Rows(0) = Rows(m) /\ Place(f.lo) = Rows(n) => m <= n
      BY <1>1, <1>2, <1>4, Marks
    <2>3. Place(f.lo) = Missing \/ \E m \in Int : Place(f.lo) = Rows(m)
      BY <1>1, <1>2
    <2> QED BY <2>1, <2>2, <2>3 DEF RowRange
  <1>5. CASE ~f.between /\ f.lo.direction # "following"
    <2>1. Offsets(f) = Range(Place(f.lo), Rows(0))
      BY <1>5 DEF Offsets
    <2>2. \A m, n \in Int : Place(f.lo) = Rows(m) /\ Rows(0) = Rows(n) => m <= n
      BY <1>1, <1>2, <1>5, Marks
    <2>3. Place(f.lo) = Missing \/ \E m \in Int : Place(f.lo) = Rows(m)
      BY <1>1, <1>2
    <2> QED BY <2>1, <2>2, <2>3 DEF RowRange
  <1> QED BY <1>3, <1>4, <1>5

\* A bound with words, and what it stands for.
LEMMA WordyBound ==
    ASSUME NEW n \in Int, n # 0
    PROVE  /\ HasWords(Rows(n))
           /\ IsRowBound(Wordy(Rows(n)))
           /\ Wordy(Rows(n)).limit # Unbounded
           /\ Place(Wordy(Rows(n))) = Rows(n)
           /\ n > 0 => Wordy(Rows(n)).direction = "following"
           /\ n < 0 => Wordy(Rows(n)).direction = "preceding"
  <1>1. HasWords(Rows(n))
    BY Marks DEF HasWords
  <1>2. \A l, d : Bound(l, d).limit = l /\ Bound(l, d).direction = d
    BY DEF Bound
  <1>3. \A k \in Nat : Rows(k) \in [n : Nat, of : {"row"}]
    BY DEF Rows, Offset
  <1>4. CASE n < 0
    <2>1. Wordy(Rows(n)) = Bound(Rows(0 - n), "preceding") /\ 0 - n \in Nat
      BY <1>4, Marks DEF Wordy
    <2>2. 0 - (0 - n) = n
      OBVIOUS
    <2> QED BY <1>1, <1>2, <1>3, <1>4, <2>1, <2>2, Marks DEF IsRowBound, Place
  <1>5. CASE n > 0
    <2>1. Wordy(Rows(n)) = Bound(Rows(n), "following") /\ n \in Nat
      BY <1>5, Marks DEF Wordy
    <2> QED BY <1>1, <1>2, <1>3, <1>5, <2>1, Marks DEF IsRowBound, Place
  <1> QED BY <1>4, <1>5

LEMMA FixedBounds ==
    /\ IsRowBound(Before) /\ Before.limit = Unbounded /\ Before.direction = "preceding"
    /\ IsRowBound(After) /\ After.limit = Unbounded /\ After.direction = "following"
    /\ IsRowBound(CurrentRow) /\ CurrentRow.limit = Rows(0)
    /\ CurrentRow.direction = "current row"
    /\ Place(Before) = Missing /\ Place(After) = Missing /\ Place(CurrentRow) = Rows(0)
  BY DEF IsRowBound, Before, After, CurrentRow, Bound, Unbounded, Place, Rows, Offset, Missing

\* The text of a range is a frame that means that range.
LEMMA WrittenOffsets ==
    ASSUME NEW r, RowRange(r), r # WholePartition
    PROVE  /\ Written(r) \notin {NoText, TypeError}
           /\ IsRowFrame(Written(r))
           /\ Offsets(Written(r)) = r
           /\ Written(r).unit = "ROWS"
  <1>1. PICK a, b : /\ r = Range(a, b)
                    /\ a = Missing \/ \E m \in Int : a = Rows(m)
                    /\ b = Missing \/ \E n \in Int : b = Rows(n)
                    /\ \A m, n \in Int : a = Rows(m) /\ b = Rows(n) => m <= n
    BY DEF RowRange
  <1>2. r.min = a /\ r.max = b
    BY <1>1 DEF Range
  <1>3. \A x : /\ Single("ROWS", x).unit = "ROWS" /\ Single("ROWS", x).between = FALSE
               /\ Single("ROWS", x).lo = x /\ Single("ROWS", x).hi = x
    BY DEF Single
  <1>4. \A x, y : /\ Between("ROWS", x, y).unit = "ROWS"
                  /\ Between("ROWS", x, y).between = TRUE
                  /\ Between("ROWS", x, y).lo = x /\ Between("ROWS", x, y).hi = y
    BY DEF Between
  <1>5. NoText.unit = "none" /\ TypeError.unit = "error"
    BY DEF NoText, TypeError, Single
  <1>6. \A x : IsRowBound(x) => IsRowFrame(Single("ROWS", x))
    BY <1>3 DEF IsRowFrame
  <1>7. \A x : Offsets(Single("ROWS", x)) =
                  IF x.direction = "following" THEN Range(Rows(0), Place(x))
                  ELSE Range(Place(x), Rows(0))
    BY <1>3 DEF Offsets
  <1>8. \A x, y : Offsets(Between("ROWS", x, y)) = Range(Place(x), Place(y))
    BY <1>4 DEF Offsets
  <1>9. \A x, y :
           /\ IsRowBound(x) /\ IsRowBound(y)
           /\ ~(x.limit = Unbounded /\ x.direction = "following")
           /\ ~(y.limit = Unbounded /\ y.direction = "preceding")
           /\ x.limit # Unbounded /\ y.limit # Unbounded => Place(x).n <= Place(y).n
           => IsRowFrame(Between("ROWS", x, y))
    BY <1>4 DEF IsRowFrame
  <1>10. Written(r).unit = "ROWS" => Written(r) \notin {NoText, TypeError}
    BY <1>5
  <1>11. CASE a = Missing
    <2>1. PICK n \in Int : b = Rows(n)
      BY <1>1, <1>11 DEF WholePartition
    <2>2. CASE n = 0
      <3>1. Written(r) = Single("ROWS", Before)
        BY <1>2, <1>11, <2>1, <2>2, Marks DEF Written
      <3> QED BY <1>1, <1>3, <1>6, <1>7, <1>10, <1>11, <2>1, <2>2, <3>1, FixedBounds, ZenonT(60)
    <2>3. CASE n # 0
      <3>1. Written(r) = Between("ROWS", Before, Wordy(Rows(n)))
        BY <1>2, <1>11, <2>1, <2>3, Marks, WordyBound DEF Written, With
      <3> DEFINE y == Wordy(Rows(n))
      <3>2. IsRowBound(y) /\ y.limit # Unbounded /\ Place(y) = Rows(n)
        BY <2>3, WordyBound
      <3> HIDE DEF y
      <3>3. IsRowFrame(Between("ROWS", Before, y))
        BY <1>9, <3>2, FixedBounds
      <3>4. Offsets(Between("ROWS", Before, y)) = r
        BY <1>1, <1>8, <1>11, <2>1, <3>2, FixedBounds
      <3> QED BY <1>4, <1>10, <3>1, <3>3, <3>4 DEF y
    <2> QED BY <2>2, <2>3
  <1>12. CASE a = Rows(0)
    <2>1. CASE b = Missing
      <3>1. Written(r) = Single("ROWS", After)
        BY <1>2, <1>12, <2>1, Marks DEF Written
      <3> QED BY <1>1, <1>3, <1>6, <1>7, <1>10, <1>12, <2>1, <3>1, FixedBounds, ZenonT(60)
    <2>2. CASE b = Rows(0)
      <3>1. Written(r) = Single("ROWS", CurrentRow)
        BY <1>2, <1>12, <2>2, Marks DEF Written
      <3> QED BY <1>1, <1>3, <1>6, <1>7, <1>10, <1>12, <2>2, <3>1, FixedBounds, ZenonT(60)
    <2>3. ASSUME NEW n \in Int, b = Rows(n), n # 0
          PROVE  /\ Written(r) \notin {NoText, TypeError}
                 /\ IsRowFrame(Written(r))
                 /\ Offsets(Written(r)) = r
                 /\ Written(r).unit = "ROWS"
      <3>1. Written(r) = Single("ROWS", Wordy(Rows(n)))
        BY <1>2, <1>12, <2>3, Marks, WordyBound DEF Written, With
      <3>2. n > 0
        BY <1>1, <1>12, <2>3
      <3> QED BY <1>1, <1>3, <1>6, <1>7, <1>10, <1>12, <2>3, <3>1, <3>2, WordyBound
    <2> QED BY <1>1, <2>1, <2>2, <2>3
  <1>13. ASSUME NEW m \in Int, a = Rows(m), m # 0
         PROVE  /\ Written(r) \notin {NoText, TypeError}
                /\ IsRowFrame(Written(r))
                /\ Offsets(Written(r)) = r
                /\ Written(r).unit = "ROWS"
    <2>0. a # Missing /\ a # Rows(0) /\ HasWords(a)
      BY <1>13, Marks, WordyBound
    <2>1. CASE b = Missing
      <3>1. Written(r) = Between("ROWS", Wordy(Rows(m)), After)
        BY <1>2, <1>13, <2>0, <2>1 DEF Written, With
      <3> DEFINE x == Wordy(Rows(m))
      <3>2. IsRowBound(x) /\ x.limit # Unbounded /\ Place(x) = Rows(m)
        BY <1>13, WordyBound
      <3> HIDE DEF x
      <3>3. IsRowFrame(Between("ROWS", x, After))
        BY <1>9, <3>2, FixedBounds
      <3>4. Offsets(Between("ROWS", x, After)) = r
        BY <1>1, <1>8, <1>13, <2>1, <3>2, FixedBounds
      <3> QED BY <1>4, <1>10, <3>1, <3>3, <3>4 DEF x
    <2>2. CASE b = Rows(0)
      <3>1. Written(r) = Single("ROWS", Wordy(Rows(m)))
        BY <1>2, <1>13, <2>0, <2>2, Marks DEF Written, With
      <3>2. m < 0
        BY <1>1, <1>13, <2>2
      <3> QED BY <1>1, <1>3, <1>6, <1>7, <1>10, <1>13, <2>2, <3>1, <3>2, WordyBound
    <2>3. ASSUME NEW n \in Int, b = Rows(n), n # 0
          PROVE  /\ Written(r) \notin {NoText, TypeError}
                 /\ IsRowFrame(Written(r))
                 /\ Offsets(Written(r)) = r
                 /\ Written(r).unit = "ROWS"
      <3>1. Written(r) = Between("ROWS", Wordy(Rows(m)), Wordy(Rows(n)))
        BY <1>2, <1>13, <2>0, <2>3, Marks, WordyBound DEF Written, With
      <3>2. m <= n
        BY <1>1, <1>13, <2>3
      <3> QED BY <1>1, <1>4, <1>8, <1>9, <1>10, <1>13, <2>3, <3>1, <3>2, WordyBound, Marks
    <2> QED BY <1>1, <2>1, <2>2, <2>3
  <1> QED BY <1>1, <1>11, <1>12, <1>13

\* Parsing, formatting and parsing again gives the same range, for frames of
\* any size that are not the whole partition, and formatting never fails.
THEOREM RoundTripHolds ==
    ASSUME \A f \in Frames : IsRowFrame(f) /\ Offsets(f) # WholePartition
    PROVE  Spec => [](RoundTrip /\ NoTypeError)
  <1> DEFINE Inv == /\ sql \in Frames
                    /\ stage \in {"written", "parsed", "formatted", "reparsed"}
                    /\ stage # "written" => range = Offsets(sql)
                    /\ stage \in {"formatted", "reparsed"} => text = Written(range)
                    /\ RoundTrip
  <1>1. Init => Inv
    BY DEF Init, RoundTrip
  <1>2. Inv /\ [Next]_vars => Inv'
    <2> SUFFICES ASSUME Inv, [Next]_vars PROVE Inv'
      OBVIOUS
    <2>0. /\ Written(Offsets(sql)) \notin {NoText, TypeError}
          /\ Parse(Written(Offsets(sql))) = Offsets(sql)
          /\ Parse(sql) = Offsets(sql)
      BY OffsetsAreRowRange, WrittenOffsets, ParseOffsets
    <2>1. CASE ParseFrame
      BY <2>0, <2>1 DEF ParseFrame, RoundTrip
    <2>2. CASE FormatFrame
      BY <2>0, <2>2 DEF FormatFrame, RoundTrip
    <2>3. CASE ReparseFrame
      BY <2>0, <2>3 DEF ReparseFrame, RoundTrip
    <2>4. CASE UNCHANGED vars
      BY <2>4 DEF vars, RoundTrip
    <2> QED BY <2>1, <2>2, <2>3, <2>4 DEF Next
  <1>3. Inv => RoundTrip /\ NoTypeError
    BY DEF NoTypeError
  <1> QED BY <1>1, <1>2, <1>3, PTL DEF Spec

\* A frame of ROWS means the same when it is written again, whatever the size
\* of its limits: the nine branches of value() undo the three of windows.py.
THEOREM FrameMeaningHolds ==
    ASSUME \A f \in Frames : IsRowFrame(f) /\ Offsets(f) # WholePartition
    PROVE  Spec => []FrameMeaning
  <1> DEFINE Inv == /\ sql \in Frames
                    /\ stage \in {"written", "parsed", "formatted", "reparsed", "failed"}
                    /\ stage # "written" => range = Offsets(sql)
                    /\ stage \in {"formatted", "reparsed"} => text = Written(range)
  <1>1. Init => Inv
    BY DEF Init
  <1>2. Inv /\ [Next]_vars => Inv'
    <2> SUFFICES ASSUME Inv, [Next]_vars PROVE Inv'
      OBVIOUS
    <2>1. CASE ParseFrame
      BY <2>1, ParseOffsets DEF ParseFrame
    <2>2. CASE FormatFrame
      BY <2>2 DEF FormatFrame
    <2>3. CASE ReparseFrame
      BY <2>3 DEF ReparseFrame
    <2>4. CASE UNCHANGED vars
      BY <2>4 DEF vars
    <2> QED BY <2>1, <2>2, <2>3, <2>4 DEF Next
  <1>3. Inv => FrameMeaning
    <2> SUFFICES ASSUME Inv, stage \in {"formatted", "reparsed"}, sql.unit = "ROWS"
                 PROVE  Meaning(text) = Meaning(sql)
      BY DEF FrameMeaning
    <2>1. IsRowFrame(sql) /\ Offsets(sql) # WholePartition
      OBVIOUS
    <2>2. text = Written(Offsets(sql))
      OBVIOUS
    <2>3. Offsets(text) = Offsets(sql) /\ text.unit = "ROWS"
      BY <2>1, <2>2, OffsetsAreRowRange, WrittenOffsets
    <2> QED BY <2>3 DEF Meaning
  <1> QED BY <1>1, <1>2, <1>3, PTL DEF Spec

\* Formatting fails for no frame between rows, the whole partition, which has
\* no text, included: no branch takes the limit that is missing for a number.
THEOREM NeverTypeError ==
    ASSUME \A f \in Frames : IsRowFrame(f)
    PROVE  Spec => []NoTypeError
  <1> DEFINE Inv == /\ sql \in Frames
                    /\ stage \in {"written", "parsed", "formatted", "reparsed"}
                    /\ stage # "written" => range = Offsets(sql)
  <1>1. Init => Inv
    BY DEF Init
  <1>2. Inv /\ [Next]_vars => Inv'
    <2> SUFFICES ASSUME Inv, [Next]_vars PROVE Inv'
      OBVIOUS
    <2>1. Written(Offsets(sql)) # TypeError
      <3>1. CASE Offsets(sql) = WholePartition
        <4>1. WholePartition.min = Missing /\ WholePartition.max = Missing
          BY DEF WholePartition, Range
        <4>2. Written(WholePartition) = NoText
          BY <4>1 DEF Written
        <4>3. NoText.unit = "none" /\ TypeError.unit = "error"
          BY DEF NoText, TypeError, Single
        <4> QED BY <3>1, <4>2, <4>3
      <3>2. CASE Offsets(sql) # WholePartition
        BY <3>2, OffsetsAreRowRange, WrittenOffsets
      <3> QED BY <3>1, <3>2
    <2>2. CASE ParseFrame
      BY <2>2, ParseOffsets DEF ParseFrame
    <2>3. CASE FormatFrame
      BY <2>1, <2>3 DEF FormatFrame
    <2>4. CASE ReparseFrame
      BY <2>4 DEF ReparseFrame
    <2>5. CASE UNCHANGED vars
      BY <2>5 DEF vars
    <2> QED BY <2>2, <2>3, <2>4, <2>5 DEF Next
  <1>3. Inv => NoTypeError
    BY DEF NoTypeError
  <1> QED BY <1>1, <1>2, <1>3, PTL DEF Spec
=============================================================================
