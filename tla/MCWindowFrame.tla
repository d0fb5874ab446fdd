---------------------------- MODULE MCWindowFrame ----------------------------
(***************************************************************************)
(* Frames with limits of up to MaxLimit rows, all but the whole partition, *)
(* and frames with an expression as limit.                                 *)
(***************************************************************************)
EXTENDS WindowFrame

CONSTANT MaxLimit

Directions == {"preceding", "following"}
Units      == {"ROWS", "RANGE"}

RowBounds ==
    {CurrentRow} \cup {Bound(l, d) : l \in {Rows(n) : n \in 0 .. MaxLimit} \cup {Unbounded},
                                     d \in Directions}

AllRowFrames ==
    {f \in {Single(u, b) : u \in Units, b \in RowBounds}
           \cup {Between(u, lo, hi) : u \in Units, lo \in RowBounds, hi \in RowBounds} :
       IsRowFrame(f)}

RowFrames == {f \in AllRowFrames : Offsets(f) # WholePartition}

MCExprs == {"interval"}

ExprBounds == {Bound(Offset(1, "interval"), d) : d \in Directions}
ExprFrames == {Single("RANGE", b) : b \in ExprBounds}
=============================================================================
