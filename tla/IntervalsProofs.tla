--------------------------- MODULE IntervalsProofs ---------------------------
(***************************************************************************)
(* Which pieces of a duration to_interval_call() gets right: for any       *)
(* number of amounts of any size, exactly those that lose no sign.         *)
(***************************************************************************)
EXTENDS Intervals, TLAPS

Amounts == [amount : Int, unit : STRING]

\* A piece other than a number alone.  Only years and months have days with a
\* sign of their own after them, and "ago" comes after another form.
Pieces ==
    {p \in [sign : Signs, day_sign : DaySigns, amounts : Seq(Amounts) \ {<<>>}] :
       /\ p.sign = "ago" => p.day_sign = ""
       /\ \A i \in DOMAIN p.amounts : p.amounts[i].unit # "expr"}

\* The amounts whose sign is turned: under a plus, and days with a minus of
\* their own after years and months without a sign.
Turned(p, x) ==
    IF x.unit = "day" /\ p.day_sign # "" THEN p.sign = "" /\ p.day_sign = "-" ELSE p.sign = "+"

\* An amount that is turned is still right only when it is 0.
LosesNoSign(p) == \A i \in DOMAIN p.amounts : Turned(p, p.amounts[i]) => p.amounts[i].amount = 0

\* What is made of a piece that is not a number alone.
LEMMA CallOfPiece ==
    ASSUME NEW p \in Pieces
    PROVE  to_interval_call(p) =
             [i \in DOMAIN p.amounts |-> Signed(IsNegated(p, p.amounts[i]), p.amounts[i])]
  <1>1. 1 \in DOMAIN p.amounts
    <2>1. p.amounts \in Seq(Amounts) /\ p.amounts # <<>>
      BY DEF Pieces
    <2> QED
      BY <2>1
  <1>2. p.amounts[1].unit # "expr"
    BY <1>1 DEF Pieces
  <1> QED
    BY <1>2 DEF to_interval_call

\* The two signs of an amount differ exactly when it is turned.
LEMMA TurnedSign ==
    ASSUME NEW p \in Pieces, NEW x \in Amounts
    PROVE  (IsNegated(p, x) = (SaidNegative(p, x) # (p.sign = "ago"))) <=> ~Turned(p, x)
  <1>1. p.sign \in {"", "+", "-", "ago"} /\ p.day_sign \in {"", "+", "-"}
    BY DEF Pieces, Signs, DaySigns
  <1>2. p.sign = "ago" => p.day_sign = ""
    BY DEF Pieces
  <1>3. CASE x.unit = "day" /\ p.day_sign = "+"
    BY <1>1, <1>2, <1>3 DEF IsNegated, IsAgo, SaidNegative, Turned
  <1>4. CASE x.unit = "day" /\ p.day_sign = "-"
    BY <1>1, <1>2, <1>4 DEF IsNegated, IsAgo, SaidNegative, Turned
  <1>5. CASE ~(x.unit = "day" /\ p.day_sign # "")
    BY <1>1, <1>2, <1>5 DEF IsNegated, IsAgo, SaidNegative, Turned
  <1> QED
    BY <1>1, <1>3, <1>4, <1>5

\* An amount is the same under both signs exactly when it is 0.
LEMMA SignedTwice ==
    ASSUME NEW x \in Amounts, NEW b \in BOOLEAN, NEW c \in BOOLEAN
    PROVE  Signed(b, x) = Signed(c, x) <=> (b = c \/ x.amount = 0)
  <1>1. x.amount \in Int /\ x = [amount |-> x.amount, unit |-> x.unit]
    BY DEF Amounts
  <1>2. [x EXCEPT !.amount = -@].amount = -x.amount
    BY <1>1 DEF Amounts
  <1>3. x.amount = 0 => [x EXCEPT !.amount = -@] = x
    BY <1>1 DEF Amounts
  <1>4. [x EXCEPT !.amount = -@] = x => x.amount = 0
    BY <1>1, <1>2
  <1> QED
    BY <1>3, <1>4 DEF Signed

\* to_interval_call() says what a piece says if and only if the piece loses no
\* sign.  The day of 1-2 -3 does, and all of +4:05:06: the sign is kept, in
\* tokens["ago"] and tokens["day-ago"], and read only for what it seems to be.
THEOREM SignsKept ==
    ASSUME NEW p \in Pieces
    PROVE  to_interval_call(p) = Said(p, p.sign = "ago") <=> LosesNoSign(p)
  <1> DEFINE x(i) == p.amounts[i]
             Made == [i \in DOMAIN p.amounts |-> Signed(IsNegated(p, x(i)), x(i))]
  <1>1. to_interval_call(p) = Made
    BY CallOfPiece
  <1>2. ASSUME NEW i \in DOMAIN p.amounts
        PROVE  /\ x(i) \in Amounts
               /\ IsNegated(p, x(i)) \in BOOLEAN
               /\ (SaidNegative(p, x(i)) # (p.sign = "ago")) \in BOOLEAN
    <2>1. p.amounts \in Seq(Amounts)
      BY DEF Pieces
    <2>2. x(i) \in Amounts
      BY <2>1
    <2>3. IsNegated(p, x(i)) \in BOOLEAN
      BY DEF IsNegated, IsAgo
    <2> QED
      BY <2>2, <2>3
  <1>3. ASSUME NEW i \in DOMAIN p.amounts
        PROVE  Made[i] = Said(p, p.sign = "ago")[i] <=> (Turned(p, x(i)) => x(i).amount = 0)
    <2>1. Made[i] = Signed(IsNegated(p, x(i)), x(i))
      OBVIOUS
    <2>2. Said(p, p.sign = "ago")[i] = Signed(SaidNegative(p, x(i)) # (p.sign = "ago"), x(i))
      BY DEF Said
    <2>3. Signed(IsNegated(p, x(i)), x(i)) = Signed(SaidNegative(p, x(i)) # (p.sign = "ago"), x(i))
            <=> \/ IsNegated(p, x(i)) = (SaidNegative(p, x(i)) # (p.sign = "ago"))
                \/ x(i).amount = 0
      BY <1>2, SignedTwice
    <2> QED
      BY <1>2, <2>1, <2>2, <2>3, TurnedSign
  <1>4. Made = Said(p, p.sign = "ago")
          <=> \A i \in DOMAIN p.amounts : Made[i] = Said(p, p.sign = "ago")[i]
    BY DEF Said
  <1> HIDE DEF Made
  <1> QED
    BY <1>1, <1>3, <1>4 DEF LosesNoSign
=============================================================================
