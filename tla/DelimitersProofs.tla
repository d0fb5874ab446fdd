-------------------------- MODULE DelimitersProofs --------------------------
(***************************************************************************)
(* Two proofs about parse_delimiters(), for scripts and delimiters of any  *)
(* kind and length.                                                        *)
(*                                                                         *)
(* ScriptKept: nothing of a script is lost but space and delimiters.       *)
(*                                                                         *)
(* StatementsOfClient: what comes out are the statements that the client   *)
(* reads line by line.  The client is taken apart to read token by token,  *)
(* so that it can stand within a line.  Then each step of the code leaves  *)
(* something to read that comes to the same statements: the client that    *)
(* has read what was yielded, and goes on with the rest, always ends where *)
(* the client of the whole script does.                                    *)
(***************************************************************************)
EXTENDS Delimiters, SequenceTheorems, NatSetInduction

-----------------------------------------------------------------------------
(* What remains of a sequence without some of its elements.                *)

\* They are left out one by one.
LEMMA WithoutSteps ==
    ASSUME NEW S, NEW s \in Seq(S), NEW D
    PROVE  /\ WithoutUpTo(s, D) \in [0 .. Len(s) -> Seq(S)]
           /\ WithoutUpTo(s, D)[0] = <<>>
           /\ \A n \in 1 .. Len(s) :
                 WithoutUpTo(s, D)[n] = IF s[n] \in D THEN WithoutUpTo(s, D)[n - 1]
                                  ELSE Append(WithoutUpTo(s, D)[n - 1], s[n])
  <1> DEFINE last == Len(s)
             Next1(n, v) == IF s[n] \in D THEN v ELSE Append(v, s[n])
             step == [p \in (1 .. last) \X Seq(S) |-> Next1(p[1], p[2])]
             Is(f) == f = [n \in 0 .. last |-> IF n = 0 THEN <<>> ELSE Next1(n, f[n - 1])]
  <1>1. /\ last \in Nat /\ <<>> \in Seq(S)
        /\ \A n \in 0 .. last : n = 0 \/ n \in 1 .. last
        /\ \A n \in 1 .. last : n - 1 \in 0 .. last
    OBVIOUS
  <1>2. step \in [(1 .. last) \X Seq(S) -> Seq(S)]
    OBVIOUS
  <1>3. PICK f : Recursion(f, last, Seq(S), <<>>, step)
    <2> HIDE DEF step, last
    <2> QED BY <1>1, <1>2, RecursionExists
  <1>4. ASSUME NEW n \in 1 .. last PROVE f[n] = Next1(n, f[n - 1])
    <2> HIDE DEF Next1, last
    <2>1. f[n - 1] \in Seq(S)
      BY <1>1, <1>3 DEF Recursion
    <2>2. f[n] = step[<<n, f[n - 1]>>]
      <3> HIDE DEF step
      <3> QED BY <1>3 DEF Recursion
    <2> QED BY <2>1, <2>2
  <1>5. Is(f)
    <2>1. f \in [0 .. last -> Seq(S)] /\ f[0] = <<>>
      BY <1>3 DEF Recursion
    <2> HIDE DEF Next1, last
    <2>2. \A n \in 0 .. last : f[n] = IF n = 0 THEN <<>> ELSE Next1(n, f[n - 1])
      BY <1>1, <1>4, <2>1
    <2> QED BY <2>1, <2>2
  <1>6. Is(WithoutUpTo(s, D))
    BY <1>5, Zenon DEF WithoutUpTo
  <1> DEFINE k == WithoutUpTo(s, D)
  <1>7. /\ k[0] = <<>>
        /\ DOMAIN k = 0 .. last
        /\ \A n \in 1 .. last : k[n] = Next1(n, k[n - 1])
    <2> HIDE DEF Next1
    <2> QED BY <1>1, <1>6
  <1>8. \A n \in 0 .. last : k[n] \in Seq(S)
    <2> DEFINE T == {n \in 0 .. last : k[n] \in Seq(S)}
    <2> HIDE DEF k, last
    <2>1. 0 \in T
      <3>1. 0 \in 0 .. last /\ <<>> \in Seq(S) /\ k[0] = <<>>
        <4> HIDE DEF Next1
        <4> QED BY <1>1, <1>7
      <3> QED BY ONLY <3>1 DEF T
    <2>2. ASSUME NEW n \in 0 .. last, n \in T, n < last PROVE n + 1 \in T
      <3>1. n + 1 \in 1 .. last /\ n + 1 - 1 = n
        BY <1>1, <2>2
      <3>2. k[n + 1] = Next1(n + 1, k[n])
        BY <1>7, <3>1
      <3>3. Next1(n + 1, k[n]) \in Seq(S)
        BY <2>2, <3>1 DEF last
      <3>4. n + 1 \in 0 .. last
        BY <1>1, <2>2
      <3> HIDE DEF Next1
      <3> QED BY <3>2, <3>3, <3>4
    <2>3. 0 .. last \subseteq T
      <3> HIDE DEF T, k, last
      <3> QED BY <1>1, <2>1, <2>2, UpToInduction
    <2> QED BY <2>3
  <1>9. k \in [0 .. last -> Seq(S)]
    BY <1>6, <1>7, <1>8
  <1> QED BY <1>7, <1>9

LEMMA WithoutFacts ==
    ASSUME NEW S, NEW s \in Seq(S), NEW D
    PROVE  /\ WithoutUpTo(s, D)[0] = <<>>
           /\ \A n \in 0 .. Len(s) : WithoutUpTo(s, D)[n] \in Seq(S)
           /\ \A n \in 1 .. Len(s) :
                 WithoutUpTo(s, D)[n] = IF s[n] \in D THEN WithoutUpTo(s, D)[n - 1]
                                        ELSE Append(WithoutUpTo(s, D)[n - 1], s[n])
  <1> DEFINE k == WithoutUpTo(s, D)
  <1>1. /\ k \in [0 .. Len(s) -> Seq(S)] /\ k[0] = <<>>
        /\ \A n \in 1 .. Len(s) : k[n] = IF s[n] \in D THEN k[n - 1] ELSE Append(k[n - 1], s[n])
    BY WithoutSteps
  <1> HIDE DEF k
  <1> QED BY <1>1 DEF k

\* Nothing remains without all of them.
LEMMA WithoutAll ==
    ASSUME NEW S, NEW s \in Seq(S), NEW D, \A i \in 1 .. Len(s) : s[i] \in D
    PROVE  Without(s, D) = <<>>
  <1> DEFINE last == Len(s)
             k == WithoutUpTo(s, D)
             T == {n \in 0 .. last : k[n] = <<>>}
  <1>1. 0 \in T
    BY WithoutSteps
  <1>2. ASSUME NEW n \in 0 .. last, n \in T, n < last PROVE n + 1 \in T
    <2>1. n + 1 \in 1 .. last /\ n + 1 - 1 = n
      BY <1>2
    <2>2. k[n + 1] = k[n]
      BY <2>1, WithoutSteps
    <2> QED BY <1>2, <2>1, <2>2
  <1>3. last \in Nat
    OBVIOUS
  <1>4. 0 .. last \subseteq T
    <2> HIDE DEF T, k, last
    <2> QED BY <1>1, <1>2, <1>3, UpToInduction
  <1> QED BY <1>3, <1>4 DEF Without

LEMMA TwoParts ==
    ASSUME NEW S, NEW a \in Seq(S), NEW b \in Seq(S)
    PROVE  /\ a \o b \in Seq(S) /\ Len(a \o b) = Len(a) + Len(b)
           /\ \A i \in 1 .. Len(a) : (a \o b)[i] = a[i]
           /\ \A i \in 1 .. Len(b) : (a \o b)[Len(a) + i] = b[i]
           /\ \A i \in 1 .. Len(a) + Len(b) :
                 \/ i \in 1 .. Len(a)
                 \/ i - Len(a) \in 1 .. Len(b) /\ (a \o b)[i] = b[i - Len(a)]
  OBVIOUS

\* What remains of two sequences, one after the other, is what remains of each.
LEMMA WithoutConcat ==
    ASSUME NEW S, NEW a \in Seq(S), NEW b \in Seq(S), NEW D
    PROVE  Without(a \o b, D) = Without(a, D) \o Without(b, D)
  <1> DEFINE s == a \o b
             la == Len(a)
             lb == Len(b)
  <1>1. /\ la \in Nat /\ lb \in Nat
        /\ s \in Seq(S) /\ Len(s) = la + lb
        /\ \A i \in 1 .. la : s[i] = a[i]
        /\ \A i \in 1 .. lb : s[la + i] = b[i]
    OBVIOUS
  <1> HIDE DEF s
  <1> DEFINE k == WithoutUpTo(s, D)
             ka == WithoutUpTo(a, D)
             kb == WithoutUpTo(b, D)
             A == {n \in 0 .. la : k[n] = ka[n]}
             B == {n \in 0 .. lb : k[la + n] = ka[la] \o kb[n]}
  <1>2. /\ k[0] = <<>>
        /\ \A n \in 1 .. la + lb :
              k[n] = IF s[n] \in D THEN k[n - 1] ELSE Append(k[n - 1], s[n])
    <2>1. s \in Seq(S) /\ Len(s) = la + lb
      BY <1>1
    <2>2. /\ k[0] = <<>>
          /\ \A n \in 1 .. Len(s) :
                k[n] = IF s[n] \in D THEN k[n - 1] ELSE Append(k[n - 1], s[n])
      BY ONLY <2>1, WithoutFacts
    <2> HIDE DEF k, la, lb
    <2> QED BY ONLY <2>1, <2>2
  <1>3. /\ ka[0] = <<>>
        /\ \A n \in 0 .. la : ka[n] \in Seq(S)
        /\ \A n \in 1 .. la :
              ka[n] = IF a[n] \in D THEN ka[n - 1] ELSE Append(ka[n - 1], a[n])
    BY WithoutFacts
  <1>4. /\ kb[0] = <<>>
        /\ \A n \in 0 .. lb : kb[n] \in Seq(S)
        /\ \A n \in 1 .. lb :
              kb[n] = IF b[n] \in D THEN kb[n - 1] ELSE Append(kb[n - 1], b[n])
    BY WithoutFacts
  <1>5. \A i \in 1 .. lb : b[i] \in S
    OBVIOUS
  <1> HIDE DEF k, ka, kb, la, lb
  <1>6. 0 .. la \subseteq A
    <2>1. 0 \in A
      BY <1>1, <1>2, <1>3
    <2>2. ASSUME NEW n \in 0 .. la, n \in A, n < la PROVE n + 1 \in A
      <3>1. n + 1 \in 1 .. la /\ n + 1 \in 1 .. la + lb /\ n + 1 - 1 = n
        BY <1>1, <2>2
      <3>2. k[n + 1] = IF s[n + 1] \in D THEN k[n] ELSE Append(k[n], s[n + 1])
        BY <1>2, <3>1
      <3>3. ka[n + 1] = IF a[n + 1] \in D THEN ka[n] ELSE Append(ka[n], a[n + 1])
        BY <1>3, <3>1
      <3> QED BY <1>1, <2>2, <3>1, <3>2, <3>3
    <2> HIDE DEF A
    <2> QED BY <1>1, <2>1, <2>2, UpToInduction
  <1>7. k[la] = ka[la]
    BY <1>1, <1>6
  <1>8. 0 .. lb \subseteq B
    <2>1. 0 \in B
      <3>1. ka[la] \in Seq(S) /\ la + 0 = la /\ 0 \in 0 .. lb
        <4>1. la \in Nat /\ lb \in Nat
          BY <1>1
        <4>2. la \in 0 .. la /\ la + 0 = la /\ 0 \in 0 .. lb
          BY ONLY <4>1
        <4>3. \A n \in 0 .. la : ka[n] \in Seq(S)
          BY <1>3
        <4>4. ka[la] \in Seq(S)
          BY ONLY <4>2, <4>3, Zenon
        <4> QED BY <4>2, <4>4
      <3>2. ka[la] \o <<>> = ka[la]
        BY <3>1
      <3> QED BY <1>4, <1>7, <3>1, <3>2
    <2>2. ASSUME NEW n \in 0 .. lb, n \in B, n < lb PROVE n + 1 \in B
      <3>1. /\ n + 1 \in 1 .. lb /\ n + 1 - 1 = n
            /\ la + (n + 1) \in 1 .. la + lb /\ la + (n + 1) - 1 = la + n
        BY <1>1, <2>2
      <3>2. k[la + (n + 1)] = IF b[n + 1] \in D THEN k[la + n]
                              ELSE Append(k[la + n], b[n + 1])
        <4>1. s[la + (n + 1)] = b[n + 1]
          BY <1>1, <3>1
        <4> PICK m : m = la + (n + 1)
          OBVIOUS
        <4>2. m \in 1 .. la + lb /\ m - 1 = la + n /\ s[m] = b[n + 1]
          BY <1>1, <3>1, <4>1
        <4>3. k[m] = IF s[m] \in D THEN k[m - 1] ELSE Append(k[m - 1], s[m])
          BY <1>2, <4>2
        <4> QED BY <4>2, <4>3
      <3>3. kb[n + 1] = IF b[n + 1] \in D THEN kb[n] ELSE Append(kb[n], b[n + 1])
        BY <1>4, <3>1
      <3>4. k[la + n] = ka[la] \o kb[n]
        BY <2>2
      <3>5. ka[la] \in Seq(S) /\ kb[n] \in Seq(S) /\ b[n + 1] \in S
        BY <1>1, <1>3, <1>4, <1>5, <3>1
      <3>6. Append(ka[la] \o kb[n], b[n + 1]) = ka[la] \o Append(kb[n], b[n + 1])
        <4> DEFINE u == ka[la]
                   v == kb[n]
                   x == b[n + 1]
        <4>1. u \in Seq(S) /\ v \in Seq(S) /\ x \in S
          BY <3>5
        <4> HIDE DEF u, v, x
        <4>2. u \o v \in Seq(S) /\ <<x>> \in Seq(S)
          BY <4>1
        <4>3. Append(u \o v, x) = (u \o v) \o <<x>> /\ Append(v, x) = v \o <<x>>
          BY <4>1, <4>2, AppendIsConcat
        <4>4. (u \o v) \o <<x>> = u \o (v \o <<x>>)
          BY ONLY <4>1, <4>2, ConcatAssociative, SMTT(30)
        <4>5. Append(u \o v, x) = u \o Append(v, x)
          BY <4>3, <4>4
        <4> QED BY <4>5 DEF u, v, x
      <3>7. k[la + (n + 1)] = ka[la] \o kb[n + 1]
        BY <3>2, <3>3, <3>4, <3>6
      <3>8. n + 1 \in 0 .. lb
        BY <1>1, <2>2
      <3> QED BY <3>7, <3>8
    <2> HIDE DEF B
    <2> QED BY <1>1, <2>1, <2>2, UpToInduction
  <1>9. k[la + lb] = ka[la] \o kb[lb]
    <2>1. lb \in B
      <3> HIDE DEF B
      <3> QED BY <1>1, <1>8
    <2> QED BY <2>1
  <1> QED BY <1>1, <1>9 DEF Without, s, k, ka, kb, la, lb

LEMMA WithoutType ==
    ASSUME NEW S, NEW s \in Seq(S), NEW D
    PROVE  Without(s, D) \in Seq(S)
  BY WithoutSteps DEF Without

LEMMA KeptDropped ==
    ASSUME NEW S, NEW s \in Seq(S), \A i \in 1 .. Len(s) : s[i] \in Dropped
    PROVE  Kept(s) = <<>>
  BY WithoutAll DEF Kept

LEMMA KeptConcat ==
    ASSUME NEW S, NEW a \in Seq(S), NEW b \in Seq(S)
    PROVE  Kept(a \o b) = Kept(a) \o Kept(b)
  BY WithoutConcat DEF Kept

LEMMA KeptType ==
    ASSUME NEW S, NEW s \in Seq(S)
    PROVE  Kept(s) \in Seq(S)
  BY WithoutType DEF Kept

\* A text in three parts, of which nothing is kept in the middle.
LEMMA KeptParts ==
    ASSUME NEW S, NEW s \in Seq(S), NEW i \in 1 .. Len(s) + 1, NEW j \in i - 1 .. Len(s),
           \A n \in i .. j : s[n] \in Dropped
    PROVE  /\ SubSeq(s, 1, i - 1) \in Seq(S) /\ SubSeq(s, j + 1, Len(s)) \in Seq(S)
           /\ Kept(s) = Kept(SubSeq(s, 1, i - 1)) \o Kept(SubSeq(s, j + 1, Len(s)))
  <1> DEFINE a == SubSeq(s, 1, i - 1)
             b == SubSeq(s, i, j)
             c == SubSeq(s, j + 1, Len(s))
  <1>1. a \in Seq(S) /\ b \in Seq(S) /\ c \in Seq(S)
    OBVIOUS
  <1>2. b \o c = SubSeq(s, i, Len(s))
    <2>1. j \in i - 1 .. Len(s) /\ Len(s) \in j .. Len(s)
      OBVIOUS
    <2> QED BY <2>1, ConcatAdjacentSubSeq
  <1>3. a \o SubSeq(s, i, Len(s)) = s
    <2>1. 1 \in 1 .. Len(s) + 1 /\ i - 1 \in 1 - 1 .. Len(s) /\ Len(s) \in i - 1 .. Len(s)
      OBVIOUS
    <2>2. a \o SubSeq(s, (i - 1) + 1, Len(s)) = SubSeq(s, 1, Len(s))
      BY <2>1, ConcatAdjacentSubSeq
    <2>3. (i - 1) + 1 = i
      OBVIOUS
    <2>4. SubSeq(s, 1, Len(s)) = s
      BY SubSeqFull
    <2> HIDE DEF a
    <2> QED BY <2>2, <2>3, <2>4
  <1>4. \A n \in 1 .. Len(b) : b[n] \in Dropped
    <2>1. \A n \in 1 .. Len(b) : b[n] = s[i + n - 1] /\ i + n - 1 \in i .. j
      OBVIOUS
    <2> QED BY <2>1
  <1> HIDE DEF a, b, c
  <1>5. Kept(b) = <<>>
    BY <1>1, <1>4, KeptDropped
  <1>6. Kept(s) = Kept(a) \o Kept(b \o c)
    <2>1. b \o c \in Seq(S)
      BY <1>1
    <2>2. Kept(a \o (b \o c)) = Kept(a) \o Kept(b \o c)
      BY ONLY <1>1, <2>1, KeptConcat
    <2> QED BY <1>2, <1>3, <2>2
  <1>7. Kept(b \o c) = Kept(b) \o Kept(c)
    BY <1>1, KeptConcat
  <1>8. Kept(c) \in Seq(S)
    BY <1>1, KeptType
  <1>9. <<>> \o Kept(c) = Kept(c)
    BY <1>8
  <1> QED BY <1>1, <1>5, <1>6, <1>7, <1>9 DEF a, c

-----------------------------------------------------------------------------
(* What was yielded, as one text.                                          *)

FlatUpTo(s) ==
    LET flatten[i \in 1 .. Len(s)] ==
            IF i = 1 THEN s[i] ELSE flatten[i - 1] \o s[i]
    IN  flatten

LEMMA FlatSteps ==
    ASSUME NEW S, NEW s \in Seq(Seq(S)), s # <<>>
    PROVE  /\ FlattenSeq(s) = FlatUpTo(s)[Len(s)]
           /\ FlatUpTo(s)[1] = s[1]
           /\ \A n \in 2 .. Len(s) : FlatUpTo(s)[n] = FlatUpTo(s)[n - 1] \o s[n]
           /\ \A n \in 1 .. Len(s) : FlatUpTo(s)[n] \in Seq(S)
  <1> DEFINE last == Len(s)
             More(n, v) == IF n = 1 THEN s[n] ELSE v \o s[n]
             step == [p \in (1 .. last) \X Seq(S) |-> More(p[1], p[2])]
             Is(f) == f = [n \in 1 .. last |-> More(n, f[n - 1])]
  <1>1. /\ last \in Nat /\ last # 0 /\ <<>> \in Seq(S)
        /\ \A n \in 1 .. last : n \in 0 .. last /\ n - 1 \in 0 .. last
        /\ \A n \in 2 .. last : n \in 1 .. last /\ n - 1 \in 1 .. last /\ n # 1
        /\ 1 \in 1 .. last
    OBVIOUS
  <1>2. step \in [(1 .. last) \X Seq(S) -> Seq(S)]
    <2>1. \A n \in 1 .. last : s[n] \in Seq(S)
      OBVIOUS
    <2>2. \A n \in 1 .. last, v \in Seq(S) : More(n, v) \in Seq(S)
      BY <2>1
    <2> HIDE DEF More
    <2> QED BY <2>2
  <1>3. PICK g : Recursion(g, last, Seq(S), <<>>, step)
    <2> HIDE DEF step, last
    <2> QED BY <1>1, <1>2, RecursionExists
  <1> DEFINE f == [n \in 1 .. last |-> g[n]]
  <1>4. ASSUME NEW n \in 1 .. last PROVE g[n] = More(n, g[n - 1]) /\ g[n] \in Seq(S)
    <2> HIDE DEF More, last
    <2>1. g[n - 1] \in Seq(S) /\ g[n] \in Seq(S)
      BY <1>1, <1>3 DEF Recursion
    <2>2. g[n] = step[<<n, g[n - 1]>>]
      <3> HIDE DEF step
      <3> QED BY <1>3 DEF Recursion
    <2> QED BY <2>1, <2>2
  <1>5. Is(f)
    <2> HIDE DEF last
    <2>1. ASSUME NEW n \in 1 .. last PROVE f[n] = More(n, f[n - 1])
      <3>1. CASE n = 1
        BY <1>4, <3>1
      <3>2. CASE n # 1
        <4>1. n - 1 \in 1 .. last
          BY <1>1, <3>2
        <4>2. f[n - 1] = g[n - 1] /\ f[n] = g[n]
          BY <4>1
        <4> QED BY <1>4, <4>2
      <3> QED BY <3>1, <3>2
    <2> HIDE DEF More
    <2> QED BY <2>1
  <1> HIDE DEF f
  <1>6. Is(FlatUpTo(s))
    BY <1>5, Zenon DEF FlatUpTo
  <1>7. FlattenSeq(s) = FlatUpTo(s)[last]
    BY <1>1 DEF FlattenSeq, FlatUpTo
  <1> DEFINE k == FlatUpTo(s)
  <1>8. \A n \in 1 .. last : k[n] = More(n, k[n - 1])
    <2> HIDE DEF More
    <2> QED BY <1>6
  <1>9. \A n \in 1 .. last : k[n] \in Seq(S)
    <2> DEFINE T == {n \in 0 .. last : n = 0 \/ k[n] \in Seq(S)}
    <2> HIDE DEF k, last
    <2>1. 0 \in T
      BY <1>1
    <2>2. ASSUME NEW n \in 0 .. last, n \in T, n < last PROVE n + 1 \in T
      <3>1. n + 1 \in 1 .. last /\ n + 1 - 1 = n /\ s[n + 1] \in Seq(S)
        BY <1>1, <2>2 DEF last
      <3>2. k[n + 1] = More(n + 1, k[n])
        BY <1>8, <3>1
      <3>3. More(n + 1, k[n]) \in Seq(S)
        BY <2>2, <3>1
      <3> HIDE DEF More
      <3> QED BY <1>1, <3>1, <3>2, <3>3
    <2>3. 0 .. last \subseteq T
      <3> HIDE DEF T
      <3> QED BY <1>1, <2>1, <2>2, UpToInduction
    <2> QED BY <1>1, <2>3
  <1> QED BY <1>1, <1>7, <1>8, <1>9

LEMMA FlattenType ==
    ASSUME NEW S, NEW s \in Seq(Seq(S))
    PROVE  FlattenSeq(s) \in Seq(S)
  <1>1. CASE s = <<>>
    BY <1>1 DEF FlattenSeq
  <1>2. CASE s # <<>>
    <2>1. Len(s) \in 1 .. Len(s)
      BY <1>2
    <2> QED BY <1>2, <2>1, FlatSteps
  <1> QED BY <1>1, <1>2

\* What is yielded next comes at the end.
LEMMA FlattenAppend ==
    ASSUME NEW S, NEW s \in Seq(Seq(S)), NEW x \in Seq(S)
    PROVE  FlattenSeq(Append(s, x)) = FlattenSeq(s) \o x
  <1> DEFINE t == Append(s, x)
             last == Len(s)
             fs == FlatUpTo(s)
             ft == FlatUpTo(t)
  <1>1. /\ t \in Seq(Seq(S)) /\ t # <<>> /\ Len(t) = last + 1 /\ last \in Nat
        /\ \A n \in 1 .. last : t[n] = s[n]
        /\ t[last + 1] = x
    BY AppendProperties
  <1> HIDE DEF t
  <1>2. /\ FlattenSeq(t) = ft[last + 1]
        /\ ft[1] = t[1]
        /\ \A n \in 2 .. last + 1 : ft[n] = ft[n - 1] \o t[n]
    BY <1>1, FlatSteps
  <1>3. CASE s = <<>>
    <2>1. last = 0 /\ FlattenSeq(s) = <<>>
      BY <1>3 DEF FlattenSeq
    <2>2. FlattenSeq(t) = x
      BY <1>1, <1>2, <2>1
    <2> QED BY <2>1, <2>2 DEF t
  <1>4. CASE s # <<>>
    <2>1. /\ FlattenSeq(s) = fs[last]
          /\ fs[1] = s[1]
          /\ \A n \in 2 .. last : fs[n] = fs[n - 1] \o s[n]
      BY <1>4, FlatSteps
    <2> DEFINE T == {n \in 0 .. last : n = 0 \/ ft[n] = fs[n]}
    <2>2. last \in 1 .. last
      BY <1>4
    <2> HIDE DEF last, fs, ft
    <2>3. 0 \in T
      BY <1>1
    <2>4. ASSUME NEW n \in 0 .. last, n \in T, n < last PROVE n + 1 \in T
      <3>1. n + 1 \in 1 .. last /\ n + 1 \in 0 .. last
        BY <1>1, <2>4
      <3>2. CASE n = 0
        BY <1>1, <1>2, <2>1, <3>1, <3>2
      <3>3. CASE n # 0
        <4>1. n + 1 \in 2 .. last /\ n + 1 \in 2 .. last + 1 /\ n + 1 - 1 = n
          BY <1>1, <2>4, <3>3
        <4> PICK m : m = n + 1
          OBVIOUS
        <4>2. m \in 2 .. last /\ m \in 2 .. last + 1 /\ m - 1 = n
          BY <4>1
        <4>3. ft[m] = ft[m - 1] \o t[m] /\ fs[m] = fs[m - 1] \o s[m]
          BY <1>2, <2>1, <4>2
        <4> QED BY <1>1, <2>4, <3>1, <3>3, <4>2, <4>3
      <3> QED BY <3>2, <3>3
    <2>5. 0 .. last \subseteq T
      <3> HIDE DEF T
      <3> QED BY <1>1, <2>3, <2>4, UpToInduction
    <2>6. ft[last] = fs[last]
      BY <1>1, <2>2, <2>5
    <2>7. ft[last + 1] = ft[last] \o t[last + 1]
      <3> PICK m : m = last + 1
        OBVIOUS
      <3>1. m \in 2 .. last + 1 /\ m - 1 = last
        BY <1>1, <2>2
      <3>2. ft[m] = ft[m - 1] \o t[m]
        BY <1>2, <3>1
      <3> QED BY <3>1, <3>2
    <2> QED BY <1>1, <1>2, <2>1, <2>6, <2>7 DEF t
  <1> QED BY <1>3, <1>4

-----------------------------------------------------------------------------
(* The searches.                                                           *)

\* What is at a place of a text is in the part around it.
LEMMA InSubSeq ==
    ASSUME NEW S, NEW s \in Seq(S), NEW a \in 1 .. Len(s) + 1, NEW b \in 0 .. Len(s),
           NEW n \in a .. b
    PROVE  \E i \in DOMAIN SubSeq(s, a, b) : SubSeq(s, a, b)[i] = s[n]
  <1> DEFINE t == SubSeq(s, a, b)
             i == n + 1 - a
  <1>1. DOMAIN t = 1 .. b + 1 - a /\ i \in 1 .. b + 1 - a
    OBVIOUS
  <1>2. t[i] = s[n]
    <2>1. \A j \in 1 .. b + 1 - a : t[j] = s[a + j - 1]
      OBVIOUS
    <2> HIDE DEF t
    <2> PICK j : j = i
      OBVIOUS
    <2>2. t[j] = s[a + j - 1] /\ a + j - 1 = n
      BY <1>1, <2>1
    <2> QED BY <2>2
  <1> QED BY <1>1, <1>2

LEMMA KeptEmpty == Kept(<<>>) = <<>>
  <1> DEFINE s == <<>>
             S == {}
  <1>1. s \in Seq(S) /\ \A i \in 1 .. Len(s) : s[i] \in Dropped
    OBVIOUS
  <1> HIDE DEF s, S
  <1>2. Kept(s) = <<>>
    BY <1>1, KeptDropped
  <1> QED BY <1>2 DEF s

LEMMA KeptSuffix ==
    ASSUME NEW S, NEW s \in Seq(S), NEW a \in 1 .. Len(s) + 1,
           \A n \in 1 .. a - 1 : s[n] \in Dropped
    PROVE  Kept(s) = Kept(SubSeq(s, a, Len(s)))
  <1>1. 1 \in 1 .. Len(s) + 1 /\ a - 1 \in 1 - 1 .. Len(s) /\ (a - 1) + 1 = a
    OBVIOUS
  <1>2. Kept(s) = Kept(SubSeq(s, 1, 1 - 1)) \o Kept(SubSeq(s, (a - 1) + 1, Len(s)))
    BY <1>1, KeptParts
  <1>3. SubSeq(s, 1, 1 - 1) = <<>>
    OBVIOUS
  <1>4. Kept(SubSeq(s, a, Len(s))) \in Seq(S)
    <2>1. SubSeq(s, a, Len(s)) \in Seq(S)
      OBVIOUS
    <2> QED BY <2>1, KeptType
  <1>5. <<>> \o Kept(SubSeq(s, a, Len(s))) = Kept(SubSeq(s, a, Len(s)))
    BY <1>4
  <1> QED BY <1>1, <1>2, <1>3, <1>5, KeptEmpty

\* str.strip() takes space alone, from both ends.
LEMMA KeptStrip ==
    ASSUME NEW S, NEW s \in Seq(S)
    PROVE  Strip(s) \in Seq(S) /\ Kept(Strip(s)) = Kept(s)
  <1> DEFINE words == {i \in DOMAIN s : s[i] \notin Space}
  <1>1. Len(s) \in Nat /\ DOMAIN s = 1 .. Len(s) /\ words \subseteq 1 .. Len(s)
    OBVIOUS
  <1>2. \A i \in 1 .. Len(s) : i \notin words => s[i] \in Dropped
    BY DEF Dropped
  <1>3. CASE words = {}
    <2>1. Strip(s) = <<>>
      BY <1>3 DEF Strip
    <2>2. Kept(s) = <<>>
      BY <1>2, <1>3, KeptDropped
    <2> QED BY <2>1, <2>2, KeptEmpty
  <1>4. CASE words # {}
    <2> DEFINE a == CHOOSE i \in words : \A j \in words : i <= j
               b == CHOOSE i \in words : \A j \in words : i >= j
    <2> HIDE DEF words
    <2>1. a \in words /\ \A j \in words : a <= j
      <3>1. words \in SUBSET Nat
        BY <1>1
      <3> QED BY <1>4, <3>1, LeastNumber
    <2>2. b \in words /\ \A j \in words : b >= j
      <3>1. words \in SUBSET (0 .. Len(s))
        BY <1>1
      <3>2. \E i \in words : \A j \in words : j <= i
        BY <1>1, <1>4, <3>1, GreatestNumber
      <3>3. \E i \in words : \A j \in words : i >= j
        BY <1>1, <3>2
      <3> QED BY <3>3
    <2>3. Strip(s) = SubSeq(s, a, b)
      BY <1>4 DEF Strip, words
    <2> HIDE DEF a, b
    <2>4. a \in 1 .. Len(s) /\ b \in 1 .. Len(s) /\ a <= b
      BY <1>1, <2>1, <2>2
    <2>5. \A n \in 1 .. a - 1 : s[n] \in Dropped
      BY <1>1, <1>2, <2>1, <2>4
    <2>6. Kept(s) = Kept(SubSeq(s, a, Len(s)))
      BY <2>4, <2>5, KeptSuffix
    <2> DEFINE left == SubSeq(s, a, b)
               right == SubSeq(s, b + 1, Len(s))
    <2>7. left \o right = SubSeq(s, a, Len(s))
      <3>1. a \in 1 .. Len(s) + 1 /\ b \in a - 1 .. Len(s) /\ Len(s) \in b .. Len(s)
        BY <1>1, <2>4
      <3> QED BY <3>1, ConcatAdjacentSubSeq
    <2>8. left \in Seq(S) /\ right \in Seq(S)
      BY <1>1, <2>4
    <2>9. Kept(right) = <<>>
      <3>1. \A n \in 1 .. Len(right) : right[n] = s[b + n] /\ b + n \in 1 .. Len(s) /\ b + n > b
        BY <1>1, <2>4
      <3>2. \A n \in 1 .. Len(right) : right[n] \in Dropped
        <4> HIDE DEF right
        <4> TAKE n \in 1 .. Len(right)
        <4>1. b + n \notin words
          <5> PICK m : m = b + n
            OBVIOUS
          <5>1. m \in 1 .. Len(s) /\ m > b /\ b \in 1 .. Len(s)
            BY <2>4, <3>1
          <5> QED BY <2>2, <5>1
        <4> QED BY <1>2, <3>1, <4>1
      <3> HIDE DEF right
      <3> QED BY <2>8, <3>2, KeptDropped
    <2> HIDE DEF left, right
    <2>10. Kept(left \o right) = Kept(left) \o Kept(right)
      BY <2>8, KeptConcat
    <2>11. Kept(left) \o <<>> = Kept(left)
      <3>1. Kept(left) \in Seq(S)
        BY <2>8, KeptType
      <3> QED BY <3>1
    <2> QED BY <2>3, <2>6, <2>7, <2>8, <2>9, <2>10, <2>11 DEF left
  <1> QED BY <1>3, <1>4

\* The DELIMITER command that is found is one, with space before it.
LEMMA FirstCommand ==
    ASSUME NEW S, sql \in Seq(S), Commands # {}
    PROVE  LET m == First(Commands) IN
           /\ m[1] \in 1 .. Len(sql) /\ m[2] \in m[1] .. Len(sql)
           /\ sql[m[2]] \in DOMAIN argument
           /\ \A n \in m[1] .. m[2] - 1 : sql[n] \in Space
  <1> DEFINE starts == {m[1] : m \in Commands}
             c == First(Commands)
  <1>1. starts \in SUBSET Nat /\ starts # {}
    BY DEF Commands
  <1>2. PICK first \in starts : \A n \in starts : first <= n
    <2> HIDE DEF starts
    <2> QED BY <1>1, LeastNumber
  <1>3. \E m \in Commands : \A n \in Commands : m[1] <= n[1]
    BY <1>2
  <1>4. c \in Commands
    BY <1>3 DEF First
  <1> HIDE DEF c
  <1>5. /\ c[1] \in 1 .. Len(sql) /\ c[2] \in 1 .. Len(sql) /\ c[1] <= c[2]
        /\ sql[c[2]] \in DOMAIN argument
        /\ IsBlank(SubSeq(sql, c[1], c[2] - 1))
    <2>1. /\ c[1] \in DOMAIN sql /\ c[2] \in DOMAIN sql /\ sql[c[2]] \in DOMAIN argument
          /\ c[1] <= c[2] /\ IsBlank(SubSeq(sql, c[1], c[2] - 1))
      BY <1>4, SMTT(30) DEF Commands
    <2>2. DOMAIN sql = 1 .. Len(sql)
      OBVIOUS
    <2> QED BY <2>1, <2>2
  <1>6. ASSUME NEW n \in c[1] .. c[2] - 1 PROVE sql[n] \in Space
    <2> DEFINE a == c[1]
               b == c[2] - 1
    <2>1. a \in 1 .. Len(sql) + 1 /\ b \in 0 .. Len(sql) /\ n \in a .. b
      <3> DEFINE last == Len(sql)
      <3>1. /\ last \in Nat /\ n \in a .. b
            /\ a \in 1 .. last /\ b + 1 \in 1 .. last /\ b \in Int
        BY <1>5
      <3> HIDE DEF a, b, last
      <3>2. a \in 1 .. last + 1 /\ b \in 0 .. last
        BY ONLY <3>1
      <3> QED BY <3>1, <3>2 DEF last
    <2> HIDE DEF a, b
    <2>2. PICK i \in DOMAIN SubSeq(sql, a, b) : SubSeq(sql, a, b)[i] = sql[n]
      BY <2>1, InSubSeq
    <2>3. SubSeq(sql, a, b)[i] \in Space
      BY <1>5 DEF IsBlank, a, b
    <2> QED BY <2>2, <2>3
  <1> QED BY <1>5, <1>6 DEF c

\* The delimiter that is found is one, and what follows it is space.
LEMMA FirstEnder ==
    ASSUME NEW S, NEW D, block \in Seq(S), delimiter \in Seq(D), Enders # {},
           ToSet(delimiter) \subseteq Dropped
    PROVE  /\ Ender[1] \in 1 .. Len(block) + 1
           /\ Ender[2] \in Ender[1] - 1 .. Len(block)
           /\ \A n \in Ender[1] .. Ender[2] : block[n] \in Dropped
  <1> DEFINE ld == Len(delimiter)
             starts == {m[1] : m \in Enders}
  <1>1. Len(block) \in Nat /\ ld \in Nat
    OBVIOUS
  <1>2. \A m \in Enders : m[1] \in 1 .. Len(block) + 1 - ld /\ m[2] \in 1 .. Len(block)
    BY DEF Enders, DelimitersAt
  <1>3. starts \in SUBSET Nat /\ starts # {}
    BY <1>1, <1>2
  <1>4. PICK a \in starts : \A n \in starts : a <= n
    <2> HIDE DEF starts
    <2> QED BY <1>3, LeastNumber
  <1> DEFINE ends == {m[2] : m \in {n \in Enders : n[1] = a}}
  <1>5. ends \in SUBSET (0 .. Len(block)) /\ ends # {}
    BY <1>2, <1>4
  <1>6. PICK b \in ends : \A n \in ends : n <= b
    <2> HIDE DEF ends
    <2> QED BY <1>1, <1>5, GreatestNumber
  <1>7. PICK m \in Enders : m[1] = a /\ m[2] = b
    BY <1>6
  <1>8. \A n \in Enders : m[1] < n[1] \/ (m[1] = n[1] /\ m[2] >= n[2])
    <2> TAKE n \in Enders
    <2>1. a <= n[1] /\ (n[1] = a => n[2] <= b)
      BY <1>4, <1>6
    <2>2. a \in Nat /\ b \in Nat /\ n[1] \in Nat /\ n[2] \in Nat
      BY <1>1, <1>2, <1>7
    <2> QED BY <1>7, <2>1, <2>2
  <1>9. Ender \in Enders
    <2> HIDE DEF ends
    <2> QED BY <1>8 DEF Ender
  <1> DEFINE d1 == Ender[1]
             d2 == Ender[1] + ld - 1
             e2 == Ender[2]
  <1>10. /\ d1 \in 1 .. Len(block) + 1 - ld
         /\ SubSeq(block, d1, d2) = delimiter
         /\ e2 \in 1 .. Len(block)
         /\ d2 <= e2
         /\ IsBlank(SubSeq(block, Ender[1] + ld, e2))
    <2>1. Ender[1] \in DelimitersAt /\ e2 \in DOMAIN block
      BY <1>9 DEF Enders
    <2>2. d1 \in 1 .. Len(block) + 1 - ld /\ SubSeq(block, d1, d2) = delimiter
      BY <2>1 DEF DelimitersAt
    <2>3. d2 <= e2 /\ IsBlank(SubSeq(block, Ender[1] + ld, e2))
      BY <1>9 DEF Enders, Delimited
    <2>4. DOMAIN block = 1 .. Len(block)
      OBVIOUS
    <2> QED BY <2>1, <2>2, <2>3, <2>4
  <1>11. ASSUME NEW n \in d1 .. e2 PROVE block[n] \in Dropped
    <2> DEFINE after == Ender[1] + ld
    <2>1. /\ d1 \in 1 .. Len(block) + 1 /\ d2 \in 0 .. Len(block)
          /\ after \in 1 .. Len(block) + 1 /\ e2 \in 0 .. Len(block)
          /\ n \in d1 .. d2 \/ n \in after .. e2
      <3> DEFINE lb == Len(block)
      <3>1. /\ lb \in Nat /\ ld \in Nat /\ n \in d1 .. e2
            /\ d1 \in 1 .. lb + 1 - ld /\ e2 \in 1 .. lb /\ d1 + ld - 1 <= e2
        BY <1>1, <1>10
      <3>2. d2 = d1 + ld - 1 /\ after = d1 + ld
        OBVIOUS
      <3> HIDE DEF lb, ld, d1, d2, e2, after
      <3>3. /\ d1 \in 1 .. lb + 1 /\ d2 \in 0 .. lb
            /\ after \in 1 .. lb + 1 /\ e2 \in 0 .. lb
        BY ONLY <3>1, <3>2
      <3>4. n \in d1 .. d2 \/ n \in after .. e2
        BY ONLY <3>1, <3>2
      <3> QED BY <3>3, <3>4 DEF lb
    <2> HIDE DEF d1, d2, e2, after
    <2>2. CASE n \in d1 .. d2
      <3>1. PICK i \in DOMAIN SubSeq(block, d1, d2) : SubSeq(block, d1, d2)[i] = block[n]
        BY <2>1, <2>2, InSubSeq
      <3>2. i \in DOMAIN delimiter /\ delimiter[i] = block[n]
        BY <1>10, <3>1
      <3> QED BY <3>2 DEF ToSet
    <2>3. CASE n \in after .. e2
      <3>1. PICK i \in DOMAIN SubSeq(block, after, e2) : SubSeq(block, after, e2)[i] = block[n]
        BY <2>1, <2>3, InSubSeq
      <3>2. SubSeq(block, after, e2)[i] \in Space
        BY <1>10 DEF IsBlank, after
      <3> QED BY <3>1, <3>2 DEF Dropped
    <2> QED BY ONLY <2>1, <2>2, <2>3, Zenon
  <1>12. d1 \in 1 .. Len(block) + 1 /\ e2 \in d1 - 1 .. Len(block)
    BY <1>1, <1>10
  <1> QED BY <1>11, <1>12

-----------------------------------------------------------------------------
(* The invariant.                                                          *)

Typed ==
    /\ script \in Scripts
    /\ sql \in Seq(Tokens)
    /\ block \in Seq(Tokens)
    /\ found \in ((DOMAIN argument) \cap Tokens) \cup {none}
    /\ delimiter \in Seq(Tokens \cup {";"})
    /\ ToSet(delimiter) \subseteq Dropped
    /\ yielded \in Seq(Seq(Tokens))
    /\ pc \in {"search", "block", "command", "done"}

Inv == Typed /\ NothingLost

LEMMA AfterType ==
    ASSUME Typed
    PROVE  AfterBlock \in Seq(Tokens)
  <1>1. sql \in Seq(Tokens) /\ (found # none => found \in Tokens)
    BY DEF Typed
  <1>2. CASE found = none
    BY <1>2 DEF AfterBlock
  <1>3. CASE found # none
    <2>1. AfterBlock = <<found>> \o sql /\ found \in Tokens
      BY <1>1, <1>3 DEF AfterBlock
    <2> QED BY <1>1, <2>1
  <1> QED BY <1>2, <1>3

\* One name for the two sides of the law, for the provers to match.
Associate(a, b, c) == (a \o b) \o c = a \o (b \o c)

LEMMA AnyAssociate ==
    ASSUME NEW S, NEW a \in Seq(S), NEW b \in Seq(S), NEW c \in Seq(S)
    PROVE  Associate(a, b, c)
  BY ConcatAssociative DEF Associate

\* What is yielded is no longer left.
LEMMA KeptMoves ==
    ASSUME NEW S, NEW y \in Seq(Seq(S)), NEW x \in Seq(S), NEW r \in Seq(S)
    PROVE  Kept(FlattenSeq(Append(y, x)) \o r)
             = Kept(FlattenSeq(y)) \o (Kept(x) \o Kept(r))
  <1> DEFINE f == FlattenSeq(y)
  <1>1. f \in Seq(S)
    BY FlattenType
  <1>2. FlattenSeq(Append(y, x)) = f \o x
    BY FlattenAppend
  <1> HIDE DEF f
  <1>3. f \o x \in Seq(S)
    BY <1>1
  <1>4. Kept((f \o x) \o r) = Kept(f \o x) \o Kept(r)
    BY <1>3, KeptConcat
  <1>5. Kept(f \o x) = Kept(f) \o Kept(x)
    BY <1>1, KeptConcat
  <1>7. Kept(f) \in Seq(S) /\ Kept(x) \in Seq(S) /\ Kept(r) \in Seq(S)
    BY <1>1, KeptType
  <1>8. Associate(Kept(f), Kept(x), Kept(r))
    BY <1>7, AnyAssociate
  <1> QED BY <1>2, <1>4, <1>5, <1>8 DEF f, Associate

-----------------------------------------------------------------------------
(* The steps.                                                              *)

LEMMA TextType ==
    ASSUME NEW lines \in Scripts
    PROVE  Text(lines) \in Seq(Tokens)
  <1> DEFINE ended == [i \in DOMAIN lines |->
                         IF i = Len(lines) THEN lines[i] ELSE Append(lines[i], Newline)]
  <1>1. lines \in Seq(Seq(Tokens)) /\ Newline \in Tokens
    BY ScriptsAssumption
  <1>2. \A i \in DOMAIN lines : ended[i] \in Seq(Tokens)
    BY <1>1
  <1>3. ended \in Seq(Seq(Tokens))
    <2> HIDE DEF ended
    <2>1. DOMAIN lines = 1 .. Len(lines) /\ Len(lines) \in Nat
      BY <1>1
    <2>2. DOMAIN ended = DOMAIN lines /\ ended = [i \in DOMAIN lines |-> ended[i]]
      BY DEF ended
    <2>3. ended \in [1 .. Len(lines) -> Seq(Tokens)]
      BY <1>2, <2>1, <2>2
    <2> QED BY <2>1, <2>3
  <1> HIDE DEF ended
  <1>4. FlattenSeq(ended) \in Seq(Tokens)
    BY <1>3, FlattenType
  <1> QED BY <1>4 DEF Text, ended

LEMMA InitInv == Init => Inv
  <1> SUFFICES ASSUME Init PROVE Inv
    OBVIOUS
  <1>1. Typed
    <2>1. sql \in Seq(Tokens)
      BY TextType DEF Init
    <2>2. Semicolon \in Seq(Tokens \cup {";"})
      BY DEF Semicolon
    <2>3. ToSet(Semicolon) \subseteq Dropped
      BY Zenon DEF Dropped
    <2>4. <<>> \in Seq(Tokens) /\ <<>> \in Seq(Seq(Tokens))
      OBVIOUS
    <2> QED BY <2>1, <2>2, <2>3, <2>4 DEF Init, Typed
  <1>2. FlattenSeq(yielded) \o Left = Text(script)
    <2>1. FlattenSeq(yielded) = <<>>
      BY DEF Init, FlattenSeq
    <2>2. Left = Text(script) /\ Text(script) \in Seq(Tokens)
      BY TextType DEF Init, Left
    <2> HIDE DEF Left
    <2> QED BY <2>1, <2>2
  <1> QED BY <1>1, <1>2 DEF Inv, NothingLost

\* A step keeps everything if what it takes from what is left it yields.
LEMMA StepKeeps ==
    ASSUME Inv, Typed', UNCHANGED script,
           \/ UNCHANGED yielded /\ Kept(Left') = Kept(Left) /\ Left \in Seq(Tokens)
                                /\ Left' \in Seq(Tokens)
           \/ \E x \in Seq(Tokens) :
                 /\ yielded' = Append(yielded, x)
                 /\ Kept(Left) = Kept(x) \o Kept(Left')
                 /\ Left \in Seq(Tokens) /\ Left' \in Seq(Tokens)
    PROVE  Inv'
  <1>1. Kept(FlattenSeq(yielded) \o Left) = Kept(Text(script))
    BY DEF Inv, NothingLost
  <1>2. yielded \in Seq(Seq(Tokens))
    BY DEF Inv, Typed
  <1> DEFINE f == FlattenSeq(yielded)
             l == Left
             ln == Left'
  <1> HIDE DEF l, ln
  <1>3. Kept(FlattenSeq(yielded') \o ln) = Kept(f \o l)
    <2>1. CASE UNCHANGED yielded /\ Kept(ln) = Kept(l) /\ l \in Seq(Tokens)
                                 /\ ln \in Seq(Tokens)
      <3>1. f \in Seq(Tokens)
        BY <1>2, FlattenType
      <3> HIDE DEF f
      <3>2. Kept(f \o l) = Kept(f) \o Kept(l) /\ Kept(f \o ln) = Kept(f) \o Kept(ln)
        BY <2>1, <3>1, KeptConcat
      <3>3. FlattenSeq(yielded') = f
        BY <2>1 DEF f
      <3> QED BY <2>1, <3>2, <3>3
    <2>2. CASE \E x \in Seq(Tokens) :
                 /\ yielded' = Append(yielded, x)
                 /\ Kept(l) = Kept(x) \o Kept(ln)
                 /\ l \in Seq(Tokens) /\ ln \in Seq(Tokens)
      <3>1. PICK x \in Seq(Tokens) :
                 /\ yielded' = Append(yielded, x)
                 /\ Kept(l) = Kept(x) \o Kept(ln)
                 /\ l \in Seq(Tokens) /\ ln \in Seq(Tokens)
        BY <2>2
      <3>2. Kept(FlattenSeq(Append(yielded, x)) \o ln) = Kept(f) \o (Kept(x) \o Kept(ln))
        <4>1. ln \in Seq(Tokens)
          BY <3>1
        <4> QED BY ONLY <1>2, <4>1, KeptMoves DEF f
      <3>3. f \in Seq(Tokens)
        BY <1>2, FlattenType
      <3> HIDE DEF f
      <3>4. Kept(f \o l) = Kept(f) \o Kept(l)
        BY <3>1, <3>3, KeptConcat
      <3> QED BY <3>1, <3>2, <3>4
    <2> QED BY <2>1, <2>2 DEF l, ln
  <1> QED BY <1>1, <1>3 DEF Inv, NothingLost, l, ln

LEMMA SearchKeeps ==
    ASSUME Inv, Search
    PROVE  Inv'
  <1>1. Typed /\ sql \in Seq(Tokens) /\ Left = sql
    BY DEF Inv, Typed, Search, Left
  <1>2. CASE Commands = {}
    <2>1. /\ block' = Strip(sql) /\ found' = none /\ sql' = sql
          /\ pc' = IF block' = <<>> THEN "command" ELSE "block"
          /\ UNCHANGED <<script, ignore, delimiter, yielded>>
      BY <1>2 DEF Search
    <2>2. Strip(sql) \in Seq(Tokens) /\ Kept(Strip(sql)) = Kept(sql)
      BY <1>1, KeptStrip
    <2>3. Typed'
      BY <1>1, <2>1, <2>2 DEF Typed
    <2>4. Left' = Strip(sql)
      <3> DEFINE b == Strip(sql)
      <3>1. b \in Seq(Tokens) /\ block' = b
        BY <2>1, <2>2
      <3> HIDE DEF b
      <3>2. b \o <<>> = b
        BY <3>1
      <3>3. Left' = b
        BY <2>1, <3>1, <3>2 DEF Left, AfterBlock
      <3> QED BY <3>3 DEF b
    <2> QED BY <1>1, <2>1, <2>2, <2>3, <2>4, StepKeeps
  <1>3. CASE Commands # {}
    <2> DEFINE m == First(Commands)
               before == SubSeq(sql, 1, m[1] - 1)
               rest == SubSeq(sql, m[2] + 1, Len(sql))
               command == sql[m[2]]
               b == Strip(before)
    <2>1. /\ block' = b /\ found' = command /\ sql' = rest
          /\ pc' = IF block' = <<>> THEN "command" ELSE "block"
          /\ UNCHANGED <<script, ignore, delimiter, yielded>>
      BY <1>3 DEF Search
    <2>2. /\ m[1] \in 1 .. Len(sql) /\ m[2] \in m[1] .. Len(sql)
          /\ command \in DOMAIN argument
          /\ \A n \in m[1] .. m[2] - 1 : sql[n] \in Space
      BY <1>1, <1>3, FirstCommand
    <2> HIDE DEF m
    <2>3. /\ before \in Seq(Tokens) /\ rest \in Seq(Tokens)
          /\ command \in (DOMAIN argument) \cap Tokens /\ command # none
      <3> PICK i, j : i = m[1] /\ j = m[2]
        OBVIOUS
      <3>1. sql \in Seq(Tokens) /\ i \in 1 .. Len(sql) /\ j \in i .. Len(sql)
        BY <1>1, <2>2
      <3>2. SubSeq(sql, 1, i - 1) \in Seq(Tokens) /\ SubSeq(sql, j + 1, Len(sql)) \in Seq(Tokens)
        BY ONLY <3>1
      <3>3. sql[j] \in Tokens
        BY ONLY <3>1
      <3>4. command # none
        BY <2>2, DelimitersAssumption
      <3> QED BY <2>2, <3>2, <3>3, <3>4
    <2>4. b \in Seq(Tokens) /\ Kept(b) = Kept(before)
      <3> HIDE DEF before
      <3> QED BY <2>3, KeptStrip
    <2>5. SubSeq(sql, m[2], Len(sql)) = <<command>> \o rest
      <3> DEFINE a == m[2]
      <3>1. a \in 1 .. Len(sql) /\ Len(sql) \in a .. Len(sql)
        BY <1>1, <2>2
      <3> HIDE DEF a
      <3>2. SubSeq(sql, a, Len(sql)) = <<sql[a]>> \o SubSeq(sql, a + 1, Len(sql))
        BY <1>1, <3>1, SubSeqRecursiveFirst
      <3> QED BY <3>2 DEF a
    <2>6. Kept(sql) = Kept(before) \o Kept(<<command>> \o rest)
      <3> DEFINE i == m[1]
                 j == m[2] - 1
      <3>1. /\ i \in 1 .. Len(sql) + 1 /\ j \in i - 1 .. Len(sql)
            /\ \A n \in i .. j : sql[n] \in Dropped
        BY <2>2 DEF Dropped
      <3> HIDE DEF i, j
      <3>2. Kept(sql) = Kept(SubSeq(sql, 1, i - 1)) \o Kept(SubSeq(sql, j + 1, Len(sql)))
        BY <1>1, <3>1, KeptParts
      <3>3. j + 1 = m[2]
        BY <2>2 DEF j
      <3> QED BY <2>5, <3>2, <3>3 DEF i
    <2> HIDE DEF before, rest, command, b
    <2>7. Typed'
      BY <1>1, <2>1, <2>3, <2>4 DEF Typed
    <2> DEFINE after == <<command>> \o rest
    <2>8. after \in Seq(Tokens)
      BY <2>3
    <2>9. AfterBlock' = after
      BY <2>1, <2>3 DEF AfterBlock
    <2> HIDE DEF after
    <2>10. Left' = b \o after
      <3>1. <<>> \o after = after
        BY <2>8
      <3> QED BY <2>1, <2>9, <3>1 DEF Left
    <2>11. Kept(b \o after) = Kept(b) \o Kept(after)
      BY <2>4, <2>8, KeptConcat
    <2>12. Left' \in Seq(Tokens)
      BY <2>4, <2>8, <2>10
    <2>13. Kept(Left') = Kept(Left)
      BY <1>1, <2>4, <2>6, <2>10, <2>11 DEF after
    <2> QED BY <1>1, <2>1, <2>7, <2>12, <2>13, StepKeeps
  <1> QED BY <1>2, <1>3

LEMMA YieldType ==
    ASSUME yielded \in Seq(Seq(Tokens)), NEW x \in Seq(Tokens)
    PROVE  Append(yielded, x) \in Seq(Seq(Tokens))
  BY AppendProperties

LEMMA YieldWholeKeeps ==
    ASSUME Inv, YieldWhole
    PROVE  Inv'
  <1>1. Typed /\ AfterBlock \in Seq(Tokens) /\ block \in Seq(Tokens)
    BY AfterType DEF Inv, Typed
  <1>2. Typed'
    <2>1. Append(yielded, block) \in Seq(Seq(Tokens))
      BY <1>1, YieldType DEF Typed
    <2> QED BY <1>1, <2>1 DEF Typed, YieldWhole
  <1>3. AfterBlock' = AfterBlock
    BY DEF YieldWhole, AfterBlock
  <1>4. Left = block \o AfterBlock /\ Left' = AfterBlock
    BY <1>3 DEF YieldWhole, Left
  <1>5. Kept(block \o AfterBlock) = Kept(block) \o Kept(AfterBlock)
    BY <1>1, KeptConcat
  <1>6. block \o AfterBlock \in Seq(Tokens)
    BY <1>1
  <1>7. yielded' = Append(yielded, block) /\ UNCHANGED script
    BY DEF YieldWhole
  <1> QED BY <1>1, <1>2, <1>4, <1>5, <1>6, <1>7, StepKeeps

LEMMA YieldRestKeeps ==
    ASSUME Inv, YieldRest
    PROVE  Inv'
  <1>1. Typed /\ AfterBlock \in Seq(Tokens) /\ block \in Seq(Tokens)
    BY AfterType DEF Inv, Typed
  <1>2. Typed'
    <2>1. Append(yielded, block) \in Seq(Seq(Tokens))
      BY <1>1, YieldType DEF Typed
    <2>2. <<>> \in Seq(Tokens)
      OBVIOUS
    <2> QED BY <1>1, <2>1, <2>2 DEF Typed, YieldRest
  <1>3. AfterBlock' = AfterBlock
    BY DEF YieldRest, AfterBlock
  <1>4. Left = block \o AfterBlock /\ Left' = AfterBlock
    BY <1>3 DEF YieldRest, Left
  <1>5. Kept(block \o AfterBlock) = Kept(block) \o Kept(AfterBlock)
    BY <1>1, KeptConcat
  <1>6. block \o AfterBlock \in Seq(Tokens)
    BY <1>1
  <1>7. yielded' = Append(yielded, block) /\ UNCHANGED script
    BY DEF YieldRest
  <1> QED BY <1>1, <1>2, <1>4, <1>5, <1>6, <1>7, StepKeeps

LEMMA YieldStatementKeeps ==
    ASSUME Inv, YieldStatement
    PROVE  Inv'
  <1> DEFINE i == Ender[1]
             j == Ender[2]
             x == SubSeq(block, 1, i - 1)
             b == SubSeq(block, j + 1, Len(block))
  <1>1. /\ Typed /\ AfterBlock \in Seq(Tokens) /\ block \in Seq(Tokens)
        /\ delimiter \in Seq(Tokens \cup {";"}) /\ ToSet(delimiter) \subseteq Dropped
    BY AfterType DEF Inv, Typed
  <1>2. /\ yielded' = Append(yielded, x) /\ block' = b
        /\ pc = "block" /\ Enders # {}
        /\ UNCHANGED <<script, ignore, sql, found, delimiter, pc>>
    BY DEF YieldStatement
  <1>3. /\ i \in 1 .. Len(block) + 1 /\ j \in i - 1 .. Len(block)
        /\ \A n \in i .. j : block[n] \in Dropped
    BY <1>1, <1>2, FirstEnder
  <1> HIDE DEF i, j
  <1>4. x \in Seq(Tokens) /\ b \in Seq(Tokens) /\ Kept(block) = Kept(x) \o Kept(b)
    BY <1>1, <1>3, KeptParts
  <1>5. Append(yielded, x) \in Seq(Seq(Tokens))
    <2> HIDE DEF x, b
    <2> QED BY <1>1, <1>4, YieldType DEF Typed
  <1> HIDE DEF x, b
  <1>6. Typed'
    BY <1>1, <1>2, <1>4, <1>5 DEF Typed
  <1> DEFINE a == AfterBlock
  <1>7. AfterBlock' = a
    BY <1>2 DEF AfterBlock
  <1>8. Left = block \o a /\ Left' = b \o a
    BY <1>2, <1>7 DEF Left
  <1>9. a \in Seq(Tokens)
    BY <1>1
  <1> HIDE DEF a
  <1>10. Kept(block \o a) = Kept(block) \o Kept(a) /\ Kept(b \o a) = Kept(b) \o Kept(a)
    BY <1>1, <1>4, <1>9, KeptConcat
  <1>11. Associate(Kept(x), Kept(b), Kept(a))
    <2>1. Kept(x) \in Seq(Tokens) /\ Kept(b) \in Seq(Tokens) /\ Kept(a) \in Seq(Tokens)
      BY <1>4, <1>9, KeptType
    <2> QED BY <2>1, AnyAssociate
  <1>12. block \o a \in Seq(Tokens) /\ b \o a \in Seq(Tokens)
    <2>1. block \in Seq(Tokens)
      BY <1>1
    <2> QED BY ONLY <2>1, <1>4, <1>9
  <1>13. Kept(Left) = Kept(x) \o Kept(Left')
    BY <1>4, <1>8, <1>10, <1>11 DEF Associate
  <1>14. Left \in Seq(Tokens) /\ Left' \in Seq(Tokens)
    BY <1>8, <1>12
  <1> QED BY <1>2, <1>4, <1>6, <1>13, <1>14, StepKeeps

LEMMA YieldCommandKeeps ==
    ASSUME Inv, YieldCommand
    PROVE  Inv'
  <1>1. /\ Typed /\ AfterBlock \in Seq(Tokens)
        /\ found \in (DOMAIN argument) \cap Tokens /\ sql \in Seq(Tokens)
    BY AfterType DEF Inv, Typed, YieldCommand
  <1> DEFINE x == <<found>>
  <1>2. /\ yielded' = Append(yielded, x) /\ delimiter' = argument[found]
        /\ pc = "command" /\ pc' = "search" /\ found # none
        /\ UNCHANGED <<script, ignore, sql, block, found>>
    BY DEF YieldCommand
  <1>3. x \in Seq(Tokens)
    BY <1>1
  <1>4. Typed'
    <2>1. argument[found] \in Seq(Tokens)
      BY <1>1, DelimitersAssumption
    <2>2. argument[found] \in Seq(Tokens \cup {";"})
      BY <2>1, SeqMonotonic
    <2>3. ToSet(argument[found]) \subseteq Dropped
      <3>1. ToSet(argument[found]) \subseteq UNION {ToSet(argument[d]) : d \in DOMAIN argument}
        <4>1. found \in DOMAIN argument
          BY <1>1
        <4> QED BY <4>1, Zenon
      <3> QED BY <3>1, Zenon DEF Dropped
    <2>4. Append(yielded, x) \in Seq(Seq(Tokens))
      <3> HIDE DEF x
      <3> QED BY <1>1, <1>3, YieldType DEF Typed
    <2> HIDE DEF x
    <2> QED BY <1>1, <1>2, <2>2, <2>3, <2>4 DEF Typed
  <1>5. Left = x \o sql /\ Left' = sql
    BY <1>2 DEF Left, AfterBlock
  <1> HIDE DEF x
  <1>6. Kept(x \o sql) = Kept(x) \o Kept(sql)
    BY <1>1, <1>3, KeptConcat
  <1>7. x \o sql \in Seq(Tokens)
    BY <1>1, <1>3
  <1> QED BY <1>1, <1>2, <1>3, <1>4, <1>5, <1>6, <1>7, StepKeeps

LEMMA FinishKeeps ==
    ASSUME Inv, Finish
    PROVE  Inv'
  <1>1. Typed /\ AfterBlock \in Seq(Tokens)
    BY AfterType DEF Inv
  <1>2. Typed' /\ UNCHANGED <<script, yielded>>
    BY <1>1 DEF Finish, Typed
  <1>3. Left = AfterBlock /\ Left' = AfterBlock
    BY DEF Finish, Left, AfterBlock
  <1> QED BY <1>1, <1>2, <1>3, StepKeeps

LEMMA NextKeeps ==
    ASSUME Inv, [Next]_vars
    PROVE  Inv'
  <1>1. CASE Search
    BY <1>1, SearchKeeps
  <1>2. CASE YieldWhole
    BY <1>2, YieldWholeKeeps
  <1>3. CASE YieldStatement
    BY <1>3, YieldStatementKeeps
  <1>4. CASE YieldRest
    BY <1>4, YieldRestKeeps
  <1>5. CASE YieldCommand
    BY <1>5, YieldCommandKeeps
  <1>6. CASE Finish
    BY <1>6, FinishKeeps
  <1>7. CASE UNCHANGED vars
    <2>1. Typed'
      BY <1>7 DEF Inv, Typed, vars
    <2>2. UNCHANGED <<script, yielded, Left>>
      BY <1>7 DEF vars, Left, AfterBlock
    <2> QED BY <2>1, <2>2 DEF Inv, NothingLost
  <1> QED BY <1>1, <1>2, <1>3, <1>4, <1>5, <1>6, <1>7 DEF Next

\* Whatever the scripts, the delimiters and the value of `ignore`, no word of
\* a script is lost, added or put out of order by parse_delimiters(): what was
\* yielded, followed by what is left, has the words of the script.
THEOREM ScriptKept == Spec => []NothingLost
  <1>1. Inv /\ [Next]_vars => Inv'
    BY NextKeeps
  <1>2. Inv => NothingLost
    BY DEF Inv
  <1> QED BY <1>1, <1>2, InitInv, PTL DEF Spec

-----------------------------------------------------------------------------
(* Texts in parts.                                                         *)

\* One name for the two sides of the law, for the provers to match.
AppendsToLast(a, b, x) == Append(a \o b, x) = a \o Append(b, x)

LEMMA AppendToConcat ==
    ASSUME NEW S, NEW a \in Seq(S), NEW b \in Seq(S), NEW x \in S
    PROVE  AppendsToLast(a, b, x)
  <1>1. a \o b \in Seq(S) /\ <<x>> \in Seq(S)
    OBVIOUS
  <1>2. Append(a \o b, x) = (a \o b) \o <<x>> /\ Append(b, x) = b \o <<x>>
    BY <1>1, AppendIsConcat
  <1>3. Associate(a, b, <<x>>)
    BY <1>1, AnyAssociate
  <1> QED BY <1>2, <1>3 DEF Associate, AppendsToLast

\* What is between two places.
LEMMA WithinText ==
    ASSUME NEW S, NEW s \in Seq(S), NEW i \in 1 .. Len(s), NEW j \in 1 .. Len(s), i <= j
    PROVE  LET t == SubSeq(s, i, j) IN
           /\ t \in Seq(S) /\ Len(t) = j - i + 1
           /\ \A n \in 1 .. j - i + 1 : t[n] = s[i + n - 1]
  OBVIOUS

\* A text is its start up to any place, and what follows.
LEMMA SplitAt ==
    ASSUME NEW S, NEW s \in Seq(S), NEW k \in 0 .. Len(s)
    PROVE  /\ SubSeq(s, 1, k) \in Seq(S) /\ SubSeq(s, k + 1, Len(s)) \in Seq(S)
           /\ s = SubSeq(s, 1, k) \o SubSeq(s, k + 1, Len(s))
           /\ Len(SubSeq(s, 1, k)) = k
           /\ Len(SubSeq(s, k + 1, Len(s))) = Len(s) - k
  <1>1. 1 \in 1 .. Len(s) + 1 /\ k \in 1 - 1 .. Len(s) /\ Len(s) \in k .. Len(s)
    OBVIOUS
  <1>2. SubSeq(s, 1, k) \o SubSeq(s, k + 1, Len(s)) = SubSeq(s, 1, Len(s))
    BY <1>1, ConcatAdjacentSubSeq
  <1>3. SubSeq(s, 1, Len(s)) = s
    BY SubSeqFull
  <1>4. /\ SubSeq(s, 1, k) \in Seq(S) /\ Len(SubSeq(s, 1, k)) = k
        /\ SubSeq(s, k + 1, Len(s)) \in Seq(S) /\ Len(SubSeq(s, k + 1, Len(s))) = Len(s) - k
    OBVIOUS
  <1>5. s = SubSeq(s, 1, k) \o SubSeq(s, k + 1, Len(s))
    BY ONLY <1>2, <1>3, Zenon
  <1> QED BY ONLY <1>4, <1>5, Zenon

\* No line ends in the text.
Plain(text) == \A i \in DOMAIN text : text[i] # Newline

\* str.strip() leaves it as it is.
Trimmed(text) == text = <<>> \/ (text[1] \notin Space /\ text[Len(text)] \notin Space)

\* A text is blank when its parts are.
LEMMA BlankParts ==
    ASSUME NEW S, NEW a \in Seq(S), NEW b \in Seq(S)
    PROVE  IsBlank(a \o b) <=> IsBlank(a) /\ IsBlank(b)
  <1> DEFINE s == a \o b
  <1>1. /\ DOMAIN s = 1 .. Len(a) + Len(b) /\ DOMAIN a = 1 .. Len(a) /\ DOMAIN b = 1 .. Len(b)
        /\ Len(a) \in Nat /\ Len(b) \in Nat
    BY TwoParts
  <1>2. /\ \A i \in 1 .. Len(a) : s[i] = a[i]
        /\ \A i \in 1 .. Len(b) : s[Len(a) + i] = b[i]
        /\ \A i \in 1 .. Len(a) + Len(b) :
              \/ i \in 1 .. Len(a)
              \/ i - Len(a) \in 1 .. Len(b) /\ s[i] = b[i - Len(a)]
    BY TwoParts
  <1> HIDE DEF s
  <1>3. ASSUME IsBlank(s) PROVE IsBlank(a) /\ IsBlank(b)
    <2>1. \A i \in 1 .. Len(a) : i \in 1 .. Len(a) + Len(b)
      BY <1>1
    <2>2. \A i \in 1 .. Len(b) : Len(a) + i \in 1 .. Len(a) + Len(b)
      BY <1>1
    <2>3. \A i \in 1 .. Len(a) : a[i] \in Space
      BY <1>1, <1>2, <1>3, <2>1 DEF IsBlank
    <2>4. \A i \in 1 .. Len(b) : b[i] \in Space
      BY <1>1, <1>2, <1>3, <2>2 DEF IsBlank
    <2> QED BY <1>1, <2>3, <2>4 DEF IsBlank
  <1>4. ASSUME IsBlank(a), IsBlank(b) PROVE IsBlank(s)
    BY <1>1, <1>2, <1>4 DEF IsBlank
  <1> QED BY <1>3, <1>4 DEF s

\* A text that starts and ends with words, with space around it, is what
\* str.strip() leaves of the whole.
LEMMA StripIs ==
    ASSUME NEW S, NEW p \in Seq(S), NEW c \in Seq(S), NEW q \in Seq(S),
           IsBlank(p), IsBlank(q), Trimmed(c)
    PROVE  Strip(p \o (c \o q)) = c
  <1> DEFINE s == p \o (c \o q)
             lp == Len(p)
             lc == Len(c)
             lq == Len(q)
             words == {i \in DOMAIN s : s[i] \notin Space}
  <1>1. /\ lp \in Nat /\ lc \in Nat /\ lq \in Nat
        /\ s \in Seq(S) /\ DOMAIN s = 1 .. lp + lc + lq /\ Len(s) = lp + lc + lq
    OBVIOUS
  <1>2. /\ \A i \in 1 .. lp : s[i] = p[i]
        /\ \A i \in 1 .. lc : s[lp + i] = c[i]
        /\ \A i \in 1 .. lq : s[lp + lc + i] = q[i]
    OBVIOUS
  <1>3. ASSUME NEW i \in words PROVE i \in lp + 1 .. lp + lc
    <2>1. i \in 1 .. lp + lc + lq /\ s[i] \notin Space
      BY <1>1
    <2>2. ASSUME i \in 1 .. lp PROVE FALSE
      <3>1. s[i] = p[i] /\ i \in DOMAIN p
        BY <1>2, <2>2
      <3> HIDE DEF s
      <3> QED BY <2>1, <3>1 DEF IsBlank
    <2>3. ASSUME i \in lp + lc + 1 .. lp + lc + lq PROVE FALSE
      <3> DEFINE j == i - (lp + lc)
      <3>1. j \in 1 .. lq /\ lp + lc + j = i
        BY <1>1, <2>3
      <3>2. s[lp + lc + j] = q[j]
        <4> HIDE DEF j, s
        <4> QED BY <1>2, <3>1
      <3>3. s[i] = q[j] /\ j \in DOMAIN q
        <4> HIDE DEF s
        <4> QED BY <3>1, <3>2
      <3> HIDE DEF s, j
      <3> QED BY <2>1, <3>3 DEF IsBlank
    <2> HIDE DEF lp, lc, lq, words, s
    <2> QED BY <1>1, <2>1, <2>2, <2>3
  <1>4. CASE c = <<>>
    <2>1. lc = 0
      BY <1>4
    <2>2. words = {}
      <3> HIDE DEF words, lp, lc
      <3> QED BY <1>1, <1>3, <2>1
    <2>3. Strip(s) = <<>>
      <3> HIDE DEF s
      <3> QED BY <2>2 DEF Strip
    <2> QED BY <1>4, <2>3
  <1>5. CASE c # <<>>
    <2>1. lc \in 1 .. lc /\ 1 \in 1 .. lc /\ c[1] \notin Space /\ c[lc] \notin Space
      BY <1>5 DEF Trimmed
    <2> DEFINE a == lp + 1
               b == lp + lc
    <2>2. s[a] = c[1] /\ s[b] = c[lc]
      <3> HIDE DEF s
      <3> QED BY <1>2, <2>1
    <2>3. a \in 1 .. lp + lc + lq /\ b \in 1 .. lp + lc + lq /\ a <= b
      <3> HIDE DEF lp, lc, lq
      <3> QED BY <1>1, <2>1
    <2>4. a \in words /\ b \in words
      BY <1>1, <2>1, <2>2, <2>3
    <2>5. \A i \in words : a <= i /\ b >= i /\ i \in Nat
      <3> HIDE DEF words, lp, lc, lq
      <3> QED BY <1>1, <1>3
    <2>6. (CHOOSE i \in words : \A j \in words : i <= j) = a
      <3> HIDE DEF words, lp, lc, lq
      <3>1. \A i \in words : (\A j \in words : i <= j) <=> i = a
        <4>1. a \in Nat /\ b \in Nat
          BY <1>1
        <4> HIDE DEF a, b
        <4> QED BY <2>4, <2>5, <4>1
      <3> HIDE DEF a, b
      <3> QED BY <2>4, <3>1
    <2>7. (CHOOSE i \in words : \A j \in words : i >= j) = b
      <3> HIDE DEF words, lp, lc, lq
      <3>1. \A i \in words : (\A j \in words : i >= j) <=> i = b
        <4>1. a \in Nat /\ b \in Nat
          BY <1>1
        <4> HIDE DEF a, b
        <4> QED BY <2>4, <2>5, <4>1
      <3> HIDE DEF a, b
      <3> QED BY <2>4, <3>1
    <2>8. Strip(s) = SubSeq(s, a, b)
      <3>1. words # {}
        <4> HIDE DEF words
        <4> QED BY <2>4
      <3> HIDE DEF s, a, b
      <3> QED BY <2>6, <2>7, <3>1 DEF Strip
    <2>9. SubSeq(s, a, b) = c
      <3>1. \A i \in 1 .. lc : SubSeq(s, a, b)[i] = s[a + i - 1] /\ a + i - 1 = lp + i
        BY <1>1, <2>3
      <3>2. SubSeq(s, a, b) \in Seq(S) /\ Len(SubSeq(s, a, b)) = lc
        <4>1. \A i \in a .. b : s[i] \in S
          BY <1>1, <2>3
        <4>2. b - a + 1 = lc /\ a \in Int /\ b \in Int
          BY <1>1
        <4> HIDE DEF s, a, b
        <4> QED BY <2>3, <4>1, <4>2, SubSeqProperties
      <3>3. \A i \in 1 .. lc : SubSeq(s, a, b)[i] = c[i]
        <4> HIDE DEF s
        <4> QED BY <1>2, <3>1
      <3> DEFINE t == SubSeq(s, a, b)
      <3> HIDE DEF t
      <3> QED BY <3>2, <3>3, SeqEqual DEF t
    <2> QED BY <2>8, <2>9
  <1> QED BY <1>4, <1>5

\* What str.strip() takes is space, from both ends.
LEMMA StripParts ==
    ASSUME NEW S, NEW s \in Seq(S)
    PROVE  \E p, c, q \in Seq(S) :
              /\ s = p \o (c \o q) /\ Strip(s) = c
              /\ IsBlank(p) /\ IsBlank(q) /\ Trimmed(c)
  <1> DEFINE words == {i \in DOMAIN s : s[i] \notin Space}
             last == Len(s)
  <1>1. /\ last \in Nat /\ DOMAIN s = 1 .. last /\ words \subseteq 1 .. last
        /\ <<>> \in Seq(S) /\ IsBlank(<<>>) /\ Trimmed(<<>>)
    BY DEF IsBlank, Trimmed
  <1>2. CASE words = {}
    <2>1. IsBlank(s)
      BY <1>2 DEF IsBlank
    <2>2. s = s \o (<<>> \o <<>>)
      OBVIOUS
    <2>3. Strip(s) = <<>>
      BY <1>2 DEF Strip
    <2> QED BY <1>1, <2>1, <2>2, <2>3, Zenon
  <1>3. CASE words # {}
    <2> HIDE DEF words
    <2>1. PICK a \in words : \A j \in words : a <= j
      <3>1. words \in SUBSET Nat
        BY <1>1
      <3> QED BY <1>3, <3>1, LeastNumber
    <2>2. PICK b \in words : \A j \in words : j <= b
      <3>1. words \in SUBSET (0 .. last)
        BY <1>1
      <3> QED BY <1>1, <1>3, <3>1, GreatestNumber
    <2>3. a \in 1 .. last /\ b \in 1 .. last /\ a <= b
      BY <1>1, <2>1, <2>2
    <2> DEFINE p == SubSeq(s, 1, a - 1)
               c == SubSeq(s, a, b)
               q == SubSeq(s, b + 1, last)
    <2>4. p \in Seq(S) /\ c \in Seq(S) /\ q \in Seq(S)
      BY <2>3
    <2>5. s = p \o (c \o q)
      <3>1. s = p \o SubSeq(s, (a - 1) + 1, last)
        <4>1. a - 1 \in 0 .. last
          BY <2>3
        <4> HIDE DEF p
        <4> QED BY <4>1, SplitAt DEF p
      <3>2. c \o q = SubSeq(s, a, last)
        <4>1. a \in 1 .. last + 1 /\ b \in a - 1 .. last /\ last \in b .. last
          BY <1>1, <2>3
        <4> QED BY <4>1, ConcatAdjacentSubSeq
      <3>3. (a - 1) + 1 = a
        BY <2>3
      <3> HIDE DEF p, c, q
      <3> QED BY <3>1, <3>2, <3>3
    <2>6. IsBlank(p)
      <3>1. ASSUME NEW i \in DOMAIN p PROVE p[i] \in Space
        <4>1. i \in 1 .. last /\ p[i] = s[i] /\ i < a
          BY <2>3
        <4>2. i \notin words
          <5> HIDE DEF p
          <5> QED BY <2>1, <2>3, <4>1
        <4> QED BY <1>1, <4>1, <4>2 DEF words
      <3> QED BY <3>1 DEF IsBlank
    <2>7. IsBlank(q)
      <3>1. ASSUME NEW i \in DOMAIN q PROVE q[i] \in Space
        <4>1. b + i \in 1 .. last /\ q[i] = s[b + i] /\ b < b + i
          BY <2>3
        <4>2. b + i \notin words
          <5> HIDE DEF q
          <5> PICK k : k = b + i
            OBVIOUS
          <5> QED BY <2>2, <2>3, <4>1
        <4> HIDE DEF q
        <4> QED BY <1>1, <4>1, <4>2 DEF words
      <3> QED BY <3>1 DEF IsBlank
    <2>8. Trimmed(c)
      <3>1. c[1] = s[a] /\ c[Len(c)] = s[b]
        <4>1. Len(c) = b - a + 1 /\ b - a + 1 \in 1 .. b - a + 1 /\ 1 \in 1 .. b - a + 1
          BY <2>3
        <4>2. \A i \in 1 .. b - a + 1 : c[i] = s[a + i - 1]
          BY <2>3
        <4>3. a + 1 - 1 = a /\ a + (b - a + 1) - 1 = b
          BY <2>3
        <4> HIDE DEF c
        <4>4. c[1] = s[a + 1 - 1] /\ c[b - a + 1] = s[a + (b - a + 1) - 1]
          BY <4>1, <4>2
        <4> QED BY <4>1, <4>3, <4>4
      <3>2. s[a] \notin Space /\ s[b] \notin Space
        BY DEF words
      <3> QED BY <3>1, <3>2 DEF Trimmed
    <2>9. Strip(s) = c
      <3> HIDE DEF p, c, q
      <3> QED BY <2>4, <2>5, <2>6, <2>7, <2>8, StripIs
    <2> HIDE DEF p, c, q
    <2> QED BY <2>4, <2>5, <2>6, <2>7, <2>8, <2>9
  <1> QED BY <1>2, <1>3, Zenon

\* What str.strip() leaves has no space at its ends.
LEMMA StripType ==
    ASSUME NEW S, NEW s \in Seq(S)
    PROVE  Strip(s) \in Seq(S) /\ Trimmed(Strip(s))
  <1>1. PICK p, c, q \in Seq(S) : Strip(s) = c /\ Trimmed(c)
    BY StripParts
  <1> QED BY <1>1

\* Space around a text makes no difference to str.strip().
LEMMA StripAround ==
    ASSUME NEW S, NEW s \in Seq(S), NEW a \in Seq(S), NEW b \in Seq(S),
           IsBlank(a), IsBlank(b)
    PROVE  Strip(a \o s) = Strip(s) /\ Strip(s \o b) = Strip(s)
  <1>1. PICK p, c, q \in Seq(S) :
              /\ s = p \o (c \o q) /\ Strip(s) = c
              /\ IsBlank(p) /\ IsBlank(q) /\ Trimmed(c)
    BY StripParts
  <1>2. a \o p \in Seq(S) /\ q \o b \in Seq(S) /\ c \o q \in Seq(S)
    OBVIOUS
  <1>3. IsBlank(a \o p) /\ IsBlank(q \o b)
    BY <1>1, BlankParts
  <1>4. a \o s = (a \o p) \o (c \o q)
    <2>1. Associate(a, p, c \o q)
      BY <1>2, AnyAssociate
    <2> QED BY <1>1, <2>1 DEF Associate
  <1>5. s \o b = p \o (c \o (q \o b))
    <2>1. Associate(p, c \o q, b) /\ Associate(c, q, b)
      BY <1>2, AnyAssociate
    <2> QED BY <1>1, <2>1 DEF Associate
  <1>6. Strip((a \o p) \o (c \o q)) = c
    <2> DEFINE u == a \o p
    <2> HIDE DEF u
    <2>1. u \in Seq(S) /\ IsBlank(u)
      BY <1>2, <1>3 DEF u
    <2>2. Strip(u \o (c \o q)) = c
      BY <1>1, <2>1, StripIs
    <2> QED BY <2>2 DEF u
  <1>7. Strip(p \o (c \o (q \o b))) = c
    <2> DEFINE u == q \o b
    <2> HIDE DEF u
    <2>1. u \in Seq(S) /\ IsBlank(u)
      BY <1>2, <1>3 DEF u
    <2>2. Strip(p \o (c \o u)) = c
      BY <1>1, <2>1, StripIs
    <2> QED BY <2>2 DEF u
  <1>8. Strip(a \o s) = c
    BY ONLY <1>4, <1>6, Zenon
  <1>9. Strip(s \o b) = c
    BY ONLY <1>5, <1>7, Zenon
  <1> QED BY <1>1, <1>8, <1>9

\* A text that ends like another, and what is before the end.
LEMMA SuffixOf ==
    ASSUME NEW S, NEW T, NEW e \in Seq(T), NEW t \in Seq(S), IsSuffix(e, t)
    PROVE  /\ Len(e) <= Len(t)
           /\ \A i \in 1 .. Len(e) : t[Len(t) - Len(e) + i] = e[i]
  <1> DEFINE le == Len(e)
             lt == Len(t)
             re == Reverse(e)
             rt == Reverse(t)
  <1>1. le \in Nat /\ lt \in Nat
    OBVIOUS
  <1>2. /\ re \in Seq(T) /\ Len(re) = le /\ rt \in Seq(S) /\ Len(rt) = lt
        /\ \A i \in 1 .. le : re[i] = e[le - i + 1]
        /\ \A i \in 1 .. lt : rt[i] = t[lt - i + 1]
    BY DEF Reverse
  <1>3. le <= lt /\ SubSeq(re, 1, le) = SubSeq(rt, 1, le)
    <2> HIDE DEF re, rt
    <2> QED BY <1>2 DEF IsSuffix, IsPrefix, re, rt
  <1> HIDE DEF re, rt
  <1>4. ASSUME NEW j \in 1 .. le PROVE re[j] = rt[j]
    <2>1. SubSeq(re, 1, le)[j] = re[j]
      BY <1>1, <1>2
    <2>2. SubSeq(rt, 1, le)[j] = rt[j]
      BY <1>1, <1>2, <1>3
    <2> QED BY <1>3, <2>1, <2>2
  <1>5. ASSUME NEW i \in 1 .. le PROVE t[lt - le + i] = e[i]
    <2> HIDE DEF le, lt
    <2> PICK j : j = le - i + 1
      OBVIOUS
    <2>1. j \in 1 .. le /\ j \in 1 .. lt /\ le - j + 1 = i /\ lt - j + 1 = lt - le + i
      BY <1>1, <1>3
    <2>2. re[j] = e[le - j + 1] /\ rt[j] = t[lt - j + 1] /\ re[j] = rt[j]
      BY <1>2, <1>4, <2>1
    <2> QED BY <2>1, <2>2
  <1> QED BY <1>3, <1>5

\* A text that was put after another is a suffix, and the other remains without it.
LEMMA OfSuffix ==
    ASSUME NEW S, NEW y \in Seq(S), NEW e \in Seq(S)
    PROVE  /\ IsSuffix(e, y \o e)
           /\ SubSeq(y \o e, 1, Len(y \o e) - Len(e)) = y
  <1> DEFINE t == y \o e
             le == Len(e)
             ly == Len(y)
             re == Reverse(e)
             rt == Reverse(t)
  <1>1. le \in Nat /\ ly \in Nat /\ t \in Seq(S) /\ Len(t) = ly + le
    OBVIOUS
  <1>2. /\ \A i \in 1 .. le : t[ly + i] = e[i]
        /\ \A i \in 1 .. ly : t[i] = y[i]
    OBVIOUS
  <1> HIDE DEF t
  <1>3. /\ re \in Seq(S) /\ Len(re) = le /\ rt \in Seq(S) /\ Len(rt) = ly + le
        /\ \A i \in 1 .. le : re[i] = e[le - i + 1]
        /\ \A i \in 1 .. ly + le : rt[i] = t[ly + le - i + 1]
    BY <1>1 DEF Reverse
  <1> HIDE DEF re, rt
  <1>4. ASSUME NEW j \in 1 .. le PROVE re[j] = rt[j]
    <2> HIDE DEF le, ly
    <2> PICK i : i = le - j + 1
      OBVIOUS
    <2>1. i \in 1 .. le /\ j \in 1 .. ly + le /\ ly + le - j + 1 = ly + i
      BY <1>1
    <2>2. re[j] = e[i] /\ rt[j] = t[ly + i] /\ t[ly + i] = e[i]
      BY <1>2, <1>3, <2>1
    <2> QED BY <2>2
  <1>5. SubSeq(re, 1, le) = SubSeq(rt, 1, le)
    <2>1. /\ SubSeq(re, 1, le) \in Seq(S) /\ SubSeq(rt, 1, le) \in Seq(S)
          /\ Len(SubSeq(re, 1, le)) = le /\ Len(SubSeq(rt, 1, le)) = le
          /\ \A j \in 1 .. le : SubSeq(re, 1, le)[j] = re[j] /\ SubSeq(rt, 1, le)[j] = rt[j]
      BY <1>1, <1>3
    <2> DEFINE u == SubSeq(re, 1, le)
               v == SubSeq(rt, 1, le)
    <2> HIDE DEF u, v
    <2>2. u \in Seq(S) /\ v \in Seq(S) /\ Len(u) = Len(v) /\ \A j \in 1 .. Len(u) : u[j] = v[j]
      BY <1>4, <2>1 DEF u, v
    <2> QED BY <2>2, SeqEqual DEF u, v
  <1>6. IsSuffix(e, t)
    BY <1>1, <1>3, <1>5 DEF IsSuffix, IsPrefix, re, rt
  <1>7. SubSeq(t, 1, Len(t) - Len(e)) = y
    <2>1. Len(t) - Len(e) = ly
      BY <1>1
    <2>2. /\ SubSeq(t, 1, ly) \in Seq(S) /\ Len(SubSeq(t, 1, ly)) = ly
          /\ \A j \in 1 .. ly : SubSeq(t, 1, ly)[j] = t[j]
      BY <1>1
    <2> DEFINE u == SubSeq(t, 1, ly)
    <2> HIDE DEF u
    <2>3. u \in Seq(S) /\ Len(u) = Len(y) /\ \A j \in 1 .. Len(u) : u[j] = y[j]
      BY <1>2, <2>2 DEF u
    <2>4. u = y
      BY <2>3, SeqEqual
    <2> QED BY <2>1, <2>4 DEF u
  <1> QED BY <1>6, <1>7 DEF t

-----------------------------------------------------------------------------
(* The client.                                                             *)

Delims == {d \in Seq(Tokens \cup {";"}) : IsDelimiter(d)}

\* What the client may be, at any time.
Readers == [statements : Seq(Seq(Tokens)), pending : Seq(Tokens), ender : Delims,
            whole : Ignores]

LEMMA ReaderType ==
    ASSUME NEW r \in Readers
    PROVE  /\ r.statements \in Seq(Seq(Tokens)) /\ r.pending \in Seq(Tokens)
           /\ r.ender \in Seq(Tokens \cup {";"}) /\ IsDelimiter(r.ender) /\ r.ender \in Delims
           /\ r.whole \in Ignores
           /\ r = Reader(r.statements, r.pending, r.ender, r.whole)
  BY DEF Readers, Reader, Delims

LEMMA ReaderIs ==
    ASSUME NEW statements \in Seq(Seq(Tokens)), NEW pending \in Seq(Tokens),
           NEW ender \in Delims, NEW whole \in Ignores
    PROVE  LET r == Reader(statements, pending, ender, whole) IN
           /\ r \in Readers
           /\ r.statements = statements /\ r.pending = pending
           /\ r.ender = ender /\ r.whole = whole
  BY DEF Readers, Reader

\* The delimiters that a script can set, and the one it starts with.
LEMMA DelimitersAre ==
    /\ Semicolon \in Delims
    /\ \A d \in DOMAIN argument : argument[d] \in Delims
  <1>1. Semicolon \in Seq(Tokens \cup {";"}) /\ IsDelimiter(Semicolon)
    <2>1. Semicolon \in Seq(Tokens \cup {";"})
      BY DEF Semicolon
    <2> QED BY <2>1, DelimitersAssumption
  <1>2. ASSUME NEW d \in DOMAIN argument PROVE argument[d] \in Delims
    <2>1. argument[d] \in Seq(Tokens) /\ IsDelimiter(argument[d])
      BY DelimitersAssumption
    <2>2. argument[d] \in Seq(Tokens \cup {";"})
      BY <2>1, SeqMonotonic
    <2> QED BY <2>1, <2>2 DEF Delims
  <1> QED BY <1>1, <1>2 DEF Delims

\* The words of a text: of its parts, and of space.
LEMMA WordsType ==
    ASSUME NEW S, NEW text \in Seq(S)
    PROVE  Words(text) \in Seq(S)
  BY WithoutType DEF Words

LEMMA WordsConcat ==
    ASSUME NEW S, NEW a \in Seq(S), NEW b \in Seq(S)
    PROVE  Words(a \o b) = Words(a) \o Words(b)
  BY WithoutConcat DEF Words

LEMMA WordsBlank ==
    ASSUME NEW S, NEW text \in Seq(S), IsBlank(text)
    PROVE  Words(text) = <<>>
  <1>1. \A i \in 1 .. Len(text) : text[i] \in Space
    BY DEF IsBlank
  <1> QED BY <1>1, WithoutAll DEF Words

LEMMA FlushedType ==
    ASSUME NEW r \in Readers, NEW text \in Seq(Tokens)
    PROVE  Flushed(r, text) \in Seq(Seq(Tokens))
  <1>1. r.statements \in Seq(Seq(Tokens))
    BY ReaderType
  <1>2. Append(r.statements, text) \in Seq(Seq(Tokens))
    BY <1>1, AppendProperties
  <1> QED BY <1>1, <1>2 DEF Flushed

\* A line that changes the delimiter.
IsCommand(line) == Len(Strip(line)) = 1 /\ Strip(line)[1] \in DOMAIN argument

\* A line that ends a statement.
IsEnding(r, line) == r.ender # r.whole /\ IsSuffix(r.ender, Strip(line))

\* The three cases of a line.
LEMMA ReadCommand ==
    ASSUME NEW r, NEW line, IsCommand(line)
    PROVE  ReadLine(r, line) = Reader(Append(Flushed(r, r.pending), Strip(line)), <<>>,
                                      argument[Strip(line)[1]], r.whole)
  BY DEF ReadLine, IsCommand

LEMMA ReadEnding ==
    ASSUME NEW r, NEW line, ~IsCommand(line), IsEnding(r, line)
    PROVE  ReadLine(r, line) =
             Reader(Flushed(r, r.pending \o
                              Words(SubSeq(Strip(line), 1, Len(Strip(line)) - Len(r.ender)))),
                    <<>>, r.ender, r.whole)
  BY DEF ReadLine, IsCommand, IsEnding

LEMMA ReadOther ==
    ASSUME NEW r, NEW line, ~IsCommand(line), ~IsEnding(r, line)
    PROVE  ReadLine(r, line) =
             Reader(r.statements, r.pending \o Words(Strip(line)), r.ender, r.whole)
  BY DEF ReadLine, IsCommand, IsEnding

\* Space around a line says nothing.
LEMMA ReadSame ==
    ASSUME NEW r, NEW a, NEW b, Strip(a) = Strip(b)
    PROVE  ReadLine(r, a) = ReadLine(r, b)
  BY DEF ReadLine

LEMMA ReadLineType ==
    ASSUME NEW r \in Readers, NEW line \in Seq(Tokens)
    PROVE  ReadLine(r, line) \in Readers
  <1> DEFINE text == Strip(line)
  <1>1. text \in Seq(Tokens)
    BY StripType
  <1>2. /\ r.pending \in Seq(Tokens) /\ r.ender \in Delims /\ r.whole \in Ignores
        /\ r.statements \in Seq(Seq(Tokens))
        /\ r.ender \in Seq(Tokens \cup {";"})
    BY ReaderType
  <1>3. CASE IsCommand(line)
    <2>1. Flushed(r, r.pending) \in Seq(Seq(Tokens))
      BY <1>2, FlushedType
    <2> HIDE DEF text
    <2>2. Append(Flushed(r, r.pending), text) \in Seq(Seq(Tokens))
      BY <1>1, <2>1, AppendProperties
    <2>3. argument[text[1]] \in Delims /\ <<>> \in Seq(Tokens)
      BY <1>3, DelimitersAre DEF IsCommand, text
    <2>4. Reader(Append(Flushed(r, r.pending), text), <<>>, argument[text[1]], r.whole) \in Readers
      BY ONLY <1>2, <2>2, <2>3, ReaderIs
    <2> QED BY ONLY <1>3, <2>4, ReadCommand DEF text
  <1>4. CASE ~IsCommand(line) /\ IsEnding(r, line)
    <2> DEFINE start == SubSeq(text, 1, Len(text) - Len(r.ender))
    <2>1. Len(r.ender) <= Len(text)
      <3> HIDE DEF text
      <3> QED BY <1>1, <1>2, <1>4, SuffixOf DEF IsEnding, text
    <2>2. start \in Seq(Tokens)
      <3>1. Len(r.ender) \in Nat /\ Len(text) \in Nat
        <4> HIDE DEF text
        <4> QED BY ONLY <1>1, <1>2, LenProperties
      <3> DEFINE k == Len(text) - Len(r.ender)
      <3>2. k \in 0 .. Len(text)
        BY <2>1, <3>1
      <3> HIDE DEF k, text
      <3>3. SubSeq(text, 1, k) \in Seq(Tokens)
        BY <1>1, <3>2, SplitAt
      <3> QED BY <3>3 DEF k
    <2> HIDE DEF start
    <2>3. r.pending \o Words(start) \in Seq(Tokens)
      <3>1. Words(start) \in Seq(Tokens)
        BY <2>2, WordsType
      <3> QED BY ONLY <1>2, <3>1, ConcatProperties
    <2>4. Flushed(r, r.pending \o Words(start)) \in Seq(Seq(Tokens))
      <3> DEFINE u == r.pending \o Words(start)
      <3> HIDE DEF u
      <3> QED BY <2>3, FlushedType DEF u
    <2>5. <<>> \in Seq(Tokens)
      OBVIOUS
    <2>6. Reader(Flushed(r, r.pending \o Words(start)), <<>>, r.ender, r.whole) \in Readers
      BY ONLY <1>2, <2>4, <2>5, ReaderIs
    <2> QED BY <1>4, <2>6, ReadEnding DEF start, text
  <1>5. CASE ~IsCommand(line) /\ ~IsEnding(r, line)
    <2> HIDE DEF text
    <2>1. r.pending \o Words(text) \in Seq(Tokens)
      <3>1. Words(text) \in Seq(Tokens)
        BY <1>1, WordsType
      <3> QED BY ONLY <1>2, <3>1, ConcatProperties
    <2>2. Reader(r.statements, r.pending \o Words(text), r.ender, r.whole) \in Readers
      BY ONLY <1>2, <2>1, ReaderIs
    <2> QED BY <1>5, <2>2, ReadOther DEF text
  <1> QED BY <1>3, <1>4, <1>5

\* A line of space makes no difference.
LEMMA ReadBlankLine ==
    ASSUME NEW r \in Readers, NEW line \in Seq(Tokens), IsBlank(line)
    PROVE  ReadLine(r, line) = r
  <1>1. Strip(line) = <<>>
    <2>1. <<>> \in Seq(Tokens) /\ Trimmed(<<>>) /\ IsBlank(<<>>)
      BY DEF Trimmed, IsBlank
    <2>2. Strip(<<>> \o (<<>> \o line)) = <<>>
      BY ONLY <2>1, IsBlank(line), line \in Seq(Tokens), StripIs
    <2>3. <<>> \o (<<>> \o line) = line
      OBVIOUS
    <2> QED BY ONLY <2>2, <2>3, Zenon
  <1>2. /\ r.pending \in Seq(Tokens) /\ r.ender \in Seq(Tokens \cup {";"}) /\ r.ender # <<>>
        /\ r = Reader(r.statements, r.pending, r.ender, r.whole)
    BY ReaderType DEF IsDelimiter
  <1>3. ~IsCommand(line)
    BY <1>1 DEF IsCommand
  <1>4. ~IsEnding(r, line)
    <2>1. <<>> \in Seq(Tokens)
      OBVIOUS
    <2>2. IsSuffix(r.ender, <<>>) => Len(r.ender) <= Len(<<>>)
      BY ONLY <1>2, <2>1, SuffixOf
    <2>3. Len(r.ender) \in Nat /\ Len(r.ender) # 0
      BY ONLY <1>2, LenProperties, EmptySeq
    <2>4. ~IsSuffix(r.ender, <<>>)
      <3>1. Len(<<>>) = 0
        OBVIOUS
      <3> QED BY ONLY <2>2, <2>3, <3>1
    <2> QED BY <1>1, <2>4 DEF IsEnding
  <1>5. r.pending \o Words(<<>>) = r.pending
    <2>1. <<>> \in Seq(Tokens) /\ IsBlank(<<>>)
      BY DEF IsBlank
    <2>2. Words(<<>>) = <<>>
      BY ONLY <2>1, WordsBlank
    <2>3. r.pending \o <<>> = r.pending
      BY ONLY <1>2, ConcatEmptySeq
    <2> QED BY ONLY <2>2, <2>3, Zenon
  <1> QED BY <1>1, <1>2, <1>3, <1>4, <1>5, ReadOther

-----------------------------------------------------------------------------
(* The client, token by token.                                             *)

\* Before a token: the reader that has the lines before, and the start of the
\* line that it does not have yet.
At(r, line) == [reader |-> r, line |-> line]

\* The end of the line is when it is read.
ReadToken(at, x) ==
    IF x = Newline THEN At(ReadLine(at.reader, at.line), <<>>)
    ELSE At(at.reader, Append(at.line, x))

ReadUpTo(at, text) ==
    LET upTo[n \in 0 .. Len(text)] ==
            IF n = 0 THEN at ELSE ReadToken(upTo[n - 1], text[n])
    IN  upTo

\* After the whole text.
Read(at, text) == ReadUpTo(at, text)[Len(text)]

\* What the client has read when the script ends.
End(at) ==
    LET r == ReadLine(at.reader, at.line) IN Flushed(r, r.pending)

\* Where a client may be in a script.
Places == [reader : Readers, line : Seq(Tokens)]

LEMMA AtType ==
    ASSUME NEW r \in Readers, NEW line \in Seq(Tokens)
    PROVE  At(r, line) \in Places /\ At(r, line).reader = r /\ At(r, line).line = line
  BY DEF At, Places

LEMMA PlaceType ==
    ASSUME NEW at \in Places
    PROVE  at.reader \in Readers /\ at.line \in Seq(Tokens) /\ at = At(at.reader, at.line)
  BY DEF At, Places

LEMMA ReadTokenType ==
    ASSUME NEW at \in Places, NEW x \in Tokens
    PROVE  ReadToken(at, x) \in Places
  <1>1. at.reader \in Readers /\ at.line \in Seq(Tokens)
    BY PlaceType
  <1>2. ReadLine(at.reader, at.line) \in Readers
    BY <1>1, ReadLineType
  <1>3. Append(at.line, x) \in Seq(Tokens) /\ <<>> \in Seq(Tokens)
    BY <1>1
  <1>4. At(ReadLine(at.reader, at.line), <<>>) \in Places
    BY ONLY <1>2, <1>3, AtType
  <1>5. At(at.reader, Append(at.line, x)) \in Places
    BY ONLY <1>1, <1>3, AtType
  <1> QED BY <1>4, <1>5 DEF ReadToken

\* Reading goes token by token.
LEMMA ReadFacts ==
    ASSUME NEW at \in Places, NEW text \in Seq(Tokens)
    PROVE  /\ ReadUpTo(at, text)[0] = at
           /\ \A n \in 0 .. Len(text) : ReadUpTo(at, text)[n] \in Places
           /\ \A n \in 1 .. Len(text) :
                 ReadUpTo(at, text)[n] = ReadToken(ReadUpTo(at, text)[n - 1], text[n])
  <1> DEFINE last == Len(text)
             step == [p \in (1 .. last) \X Places |-> ReadToken(p[2], text[p[1]])]
             Is(f) == f = [n \in 0 .. last |-> IF n = 0 THEN at ELSE ReadToken(f[n - 1], text[n])]
  <1>1. /\ last \in Nat
        /\ \A n \in 0 .. last : n = 0 \/ n \in 1 .. last
        /\ \A n \in 1 .. last : /\ n - 1 \in 0 .. last /\ n \in 0 .. last
                                 /\ text[n] \in Tokens /\ n # 0
        /\ 0 \in 0 .. last
    OBVIOUS
  <1>2. step \in [(1 .. last) \X Places -> Places]
    <2>1. \A n \in 1 .. last, v \in Places : ReadToken(v, text[n]) \in Places
      BY <1>1, ReadTokenType
    <2> HIDE DEF last
    <2> QED BY <2>1
  <1>3. PICK f : Recursion(f, last, Places, at, step)
    <2> HIDE DEF step, last
    <2> QED BY <1>1, <1>2, RecursionExists
  <1> HIDE DEF last
  <1>4. ASSUME NEW n \in 1 .. last PROVE f[n] = ReadToken(f[n - 1], text[n])
    <2>1. f[n - 1] \in Places
      BY <1>1, <1>3 DEF Recursion
    <2>2. f[n] = step[<<n, f[n - 1]>>]
      <3> HIDE DEF step
      <3> QED BY <1>3 DEF Recursion
    <2> QED BY <2>1, <2>2
  <1>5. f \in [0 .. last -> Places] /\ f[0] = at
    BY <1>3 DEF Recursion
  <1>6. Is(f)
    <2>1. \A n \in 0 .. last : f[n] = IF n = 0 THEN at ELSE ReadToken(f[n - 1], text[n])
      BY <1>1, <1>4, <1>5
    <2> QED BY <1>5, <2>1
  <1> DEFINE k == ReadUpTo(at, text)
  <1>7. Is(k)
    BY <1>6 DEF ReadUpTo, last
  <1> HIDE DEF k
  <1>8. k[0] = at
    BY <1>1, <1>7
  <1>9. \A n \in 1 .. last : k[n] = ReadToken(k[n - 1], text[n])
    BY <1>1, <1>7
  <1>10. \A n \in 0 .. last : k[n] \in Places
    <2> DEFINE T == {n \in 0 .. last : k[n] \in Places}
    <2>1. 0 \in T
      BY <1>1, <1>8
    <2>2. ASSUME NEW n \in 0 .. last, n \in T, n < last PROVE n + 1 \in T
      <3> PICK m : m = n + 1
        OBVIOUS
      <3>1. m \in 1 .. last /\ m - 1 = n /\ m \in 0 .. last
        BY <1>1, <2>2
      <3>2. k[m] = ReadToken(k[n], text[m]) /\ text[m] \in Tokens
        BY <1>1, <1>9, <3>1
      <3>3. k[m] \in Places
        BY <2>2, <3>2, ReadTokenType
      <3> QED BY <3>1, <3>3
    <2> HIDE DEF T
    <2>3. 0 .. last \subseteq T
      BY <1>1, <2>1, <2>2, UpToInduction
    <2> QED BY <2>3 DEF T
  <1> QED BY <1>8, <1>9, <1>10 DEF k, last

LEMMA ReadType ==
    ASSUME NEW at \in Places, NEW text \in Seq(Tokens)
    PROVE  Read(at, text) \in Places
  <1>1. Len(text) \in 0 .. Len(text)
    OBVIOUS
  <1> QED BY <1>1, ReadFacts DEF Read

\* No token, and one.
LEMMA ReadNothing ==
    ASSUME NEW at \in Places
    PROVE  Read(at, <<>>) = at
  <1> DEFINE text == <<>>
  <1>1. text \in Seq(Tokens) /\ Len(text) = 0
    OBVIOUS
  <1> HIDE DEF text
  <1>2. ReadUpTo(at, text)[0] = at
    BY <1>1, ReadFacts
  <1> QED BY <1>1, <1>2 DEF Read, text

LEMMA ReadOne ==
    ASSUME NEW at \in Places, NEW x \in Tokens
    PROVE  Read(at, <<x>>) = ReadToken(at, x)
  <1> DEFINE text == <<x>>
  <1>1. text \in Seq(Tokens) /\ Len(text) = 1 /\ text[1] = x /\ 1 \in 1 .. Len(text) /\ 1 - 1 = 0
    OBVIOUS
  <1> HIDE DEF text
  <1>2. /\ ReadUpTo(at, text)[0] = at
        /\ ReadUpTo(at, text)[1] = ReadToken(ReadUpTo(at, text)[1 - 1], text[1])
    BY <1>1, ReadFacts
  <1> QED BY <1>1, <1>2 DEF Read, text

\* Two texts are read one after the other.
LEMMA ReadConcat ==
    ASSUME NEW at \in Places, NEW a \in Seq(Tokens), NEW b \in Seq(Tokens)
    PROVE  Read(at, a \o b) = Read(Read(at, a), b)
  <1> DEFINE s == a \o b
             la == Len(a)
             lb == Len(b)
             mid == Read(at, a)
             k == ReadUpTo(at, s)
             ka == ReadUpTo(at, a)
             kb == ReadUpTo(mid, b)
             A == {n \in 0 .. la : k[n] = ka[n]}
             B == {n \in 0 .. lb : k[la + n] = kb[n]}
  <1>1. /\ la \in Nat /\ lb \in Nat
        /\ s \in Seq(Tokens) /\ Len(s) = la + lb
        /\ \A i \in 1 .. la : s[i] = a[i]
        /\ \A i \in 1 .. lb : s[la + i] = b[i]
    OBVIOUS
  <1>2. mid \in Places
    BY ReadType
  <1> HIDE DEF s, mid
  <1>3. k[0] = at /\ \A n \in 1 .. la + lb : k[n] = ReadToken(k[n - 1], s[n])
    <2>1. s \in Seq(Tokens)
      BY <1>1
    <2>2. k[0] = at /\ \A n \in 1 .. Len(s) : k[n] = ReadToken(k[n - 1], s[n])
      BY ONLY <2>1, ReadFacts, at \in Places
    <2> HIDE DEF k
    <2> QED BY <1>1, <2>2
  <1>4. ka[0] = at /\ \A n \in 1 .. la : ka[n] = ReadToken(ka[n - 1], a[n])
    BY ReadFacts
  <1>5. kb[0] = mid /\ \A n \in 1 .. lb : kb[n] = ReadToken(kb[n - 1], b[n])
    BY <1>2, ReadFacts
  <1>6. mid = ka[la]
    BY DEF Read, mid
  <1> HIDE DEF k, ka, kb, la, lb
  <1>7. 0 .. la \subseteq A
    <2>1. 0 \in A
      BY <1>1, <1>3, <1>4
    <2>2. ASSUME NEW n \in 0 .. la, n \in A, n < la PROVE n + 1 \in A
      <3> PICK m : m = n + 1
        OBVIOUS
      <3>1. m \in 1 .. la /\ m \in 1 .. la + lb /\ m - 1 = n /\ m \in 0 .. la
        BY <1>1, <2>2
      <3>2. k[m] = ReadToken(k[n], s[m]) /\ ka[m] = ReadToken(ka[n], a[m]) /\ s[m] = a[m]
        BY <1>1, <1>3, <1>4, <3>1
      <3> QED BY <2>2, <3>1, <3>2
    <2> HIDE DEF A
    <2> QED BY <1>1, <2>1, <2>2, UpToInduction
  <1>8. k[la] = mid
    BY <1>1, <1>6, <1>7
  <1>9. 0 .. lb \subseteq B
    <2>1. 0 \in B
      <3>1. 0 \in 0 .. lb /\ la + 0 = la
        BY <1>1
      <3> QED BY <1>5, <1>8, <3>1
    <2>2. ASSUME NEW n \in 0 .. lb, n \in B, n < lb PROVE n + 1 \in B
      <3> PICK m : m = n + 1
        OBVIOUS
      <3> PICK j : j = la + m
        OBVIOUS
      <3>1. /\ m \in 1 .. lb /\ m - 1 = n /\ m \in 0 .. lb
            /\ j \in 1 .. la + lb /\ j - 1 = la + n
        BY <1>1, <2>2
      <3>2. k[j] = ReadToken(k[la + n], s[j]) /\ s[j] = b[m]
        BY <1>1, <1>3, <3>1
      <3>3. kb[m] = ReadToken(kb[n], b[m])
        BY <1>5, <3>1
      <3>4. k[la + m] = kb[m]
        BY <2>2, <3>2, <3>3
      <3> QED BY <3>1, <3>4
    <2> HIDE DEF B
    <2> QED BY <1>1, <2>1, <2>2, UpToInduction
  <1>10. k[la + lb] = kb[lb]
    <2>1. lb \in 0 .. lb
      BY <1>1
    <2> QED BY <1>9, <2>1
  <1> QED BY <1>1, <1>10 DEF Read, s, k, kb, la, lb, mid

\* What the client has when the line ends.
Finished(at) == ReadLine(at.reader, at.line)

LEMMA FinishedType ==
    ASSUME NEW at \in Places
    PROVE  /\ Finished(at) \in Readers
           /\ At(Finished(at), <<>>) \in Places
           /\ ReadToken(at, Newline) = At(Finished(at), <<>>)
           /\ End(at) = Flushed(Finished(at), Finished(at).pending)
  <1>1. Finished(at) \in Readers
    BY PlaceType, ReadLineType DEF Finished
  <1>2. <<>> \in Seq(Tokens)
    OBVIOUS
  <1>3. At(Finished(at), <<>>) \in Places
    BY ONLY <1>1, <1>2, AtType
  <1> QED BY <1>1, <1>3 DEF ReadToken, End, Finished

LEMMA FinishedAt ==
    ASSUME NEW r, NEW line
    PROVE  Finished(At(r, line)) = ReadLine(r, line)
  BY DEF Finished, At

\* At the start of a line nothing waits to be read.
LEMMA FinishedStart ==
    ASSUME NEW r \in Readers
    PROVE  Finished(At(r, <<>>)) = r /\ At(r, <<>>) \in Places
  <1>1. <<>> \in Seq(Tokens) /\ IsBlank(<<>>)
    BY DEF IsBlank
  <1>2. ReadLine(r, <<>>) = r
    BY ONLY <1>1, r \in Readers, ReadBlankLine
  <1>3. At(r, <<>>) \in Places
    BY ONLY <1>1, r \in Readers, AtType
  <1> QED BY <1>2, <1>3, FinishedAt

\* A line that goes on with space.
LEMMA ReadSpace ==
    ASSUME NEW at \in Places, NEW x \in Tokens, x \in Space
    PROVE  ReadToken(at, x) \in Places /\ Finished(ReadToken(at, x)) = Finished(at)
  <1>1. at.reader \in Readers /\ at.line \in Seq(Tokens) /\ at = At(at.reader, at.line)
    BY PlaceType
  <1>2. ReadToken(at, x) \in Places
    BY ReadTokenType
  <1>3. CASE x = Newline
    <2>1. ReadToken(at, x) = At(Finished(at), <<>>) /\ Finished(at) \in Readers
      BY <1>3, FinishedType
    <2>2. Finished(At(Finished(at), <<>>)) = Finished(at)
      BY <2>1, FinishedStart
    <2> QED BY <1>2, <2>1, <2>2
  <1>4. CASE x # Newline
    <2> DEFINE l == at.line
               m == Append(l, x)
    <2>1. ReadToken(at, x) = At(at.reader, m)
      BY <1>4 DEF ReadToken
    <2>2. Strip(m) = Strip(l)
      <3>1. l \in Seq(Tokens) /\ <<x>> \in Seq(Tokens) /\ <<>> \in Seq(Tokens)
        BY <1>1
      <3>2. IsBlank(<<x>>) /\ IsBlank(<<>>)
        BY DEF IsBlank
      <3> HIDE DEF l
      <3>3. m = l \o <<x>>
        BY <3>1, AppendIsConcat
      <3>4. Strip(l \o <<x>>) = Strip(l)
        BY ONLY <3>1, <3>2, StripAround
      <3> QED BY ONLY <3>3, <3>4, Zenon
    <2> HIDE DEF m, l
    <2>3. ReadLine(at.reader, m) = ReadLine(at.reader, l)
      BY <2>2, ReadSame
    <2>4. Finished(At(at.reader, m)) = ReadLine(at.reader, m)
      BY FinishedAt
    <2> QED BY <1>2, <2>1, <2>3, <2>4 DEF Finished, l
  <1> QED BY <1>3, <1>4

\* Space after a line makes no difference to what has been read when it ends.
LEMMA BlankAfter ==
    ASSUME NEW at \in Places, NEW text \in Seq(Tokens), IsBlank(text)
    PROVE  Read(at, text) \in Places /\ Finished(Read(at, text)) = Finished(at)
  <1> DEFINE last == Len(text)
             k == ReadUpTo(at, text)
             T == {n \in 0 .. last : Finished(k[n]) = Finished(at)}
  <1>1. last \in Nat /\ \A n \in 1 .. last : text[n] \in Tokens /\ text[n] \in Space
    BY DEF IsBlank
  <1>2. k[0] = at /\ \A n \in 0 .. last : k[n] \in Places
    BY ReadFacts
  <1>3. \A n \in 1 .. last : k[n] = ReadToken(k[n - 1], text[n])
    BY ReadFacts
  <1> HIDE DEF k, last
  <1>4. 0 \in T
    BY <1>1, <1>2
  <1>5. ASSUME NEW n \in 0 .. last, n \in T, n < last PROVE n + 1 \in T
    <2> PICK m : m = n + 1
      OBVIOUS
    <2>1. m \in 1 .. last /\ m - 1 = n /\ m \in 0 .. last
      BY <1>1, <1>5
    <2>2. k[m] = ReadToken(k[n], text[m]) /\ text[m] \in Tokens /\ text[m] \in Space
      BY <1>1, <1>3, <2>1
    <2>3. k[n] \in Places
      BY <1>2
    <2>4. Finished(k[m]) = Finished(k[n])
      BY <2>2, <2>3, ReadSpace
    <2> QED BY <1>5, <2>1, <2>4
  <1> HIDE DEF T
  <1>6. 0 .. last \subseteq T
    BY <1>1, <1>4, <1>5, UpToInduction
  <1>7. Finished(k[last]) = Finished(at)
    BY <1>1, <1>6 DEF T
  <1>8. Read(at, text) \in Places
    BY ReadType
  <1> QED BY <1>7, <1>8 DEF Read, k, last

\* The end of a line is where the line is read.
LEMMA ReadNewline ==
    ASSUME NEW at \in Places
    PROVE  /\ <<Newline>> \in Seq(Tokens)
           /\ Read(at, <<Newline>>) = At(Finished(at), <<>>)
           /\ At(Finished(at), <<>>) \in Places
  <1>1. Newline \in Tokens
    BY ScriptsAssumption
  <1>2. Read(at, <<Newline>>) = ReadToken(at, Newline)
    BY <1>1, ReadOne
  <1> QED BY <1>1, <1>2, FinishedType

\* Space up to the end of a line, and empty lines, read as the end of the line.
LEMMA BlankEnds ==
    ASSUME NEW at \in Places, NEW text \in Seq(Tokens), IsBlank(text),
           text # <<>>, text[Len(text)] = Newline
    PROVE  Read(at, text) = Read(at, <<Newline>>)
  <1> DEFINE k == Len(text) - 1
             a == SubSeq(text, 1, k)
             b == SubSeq(text, k + 1, Len(text))
  <1>1. k \in 0 .. Len(text) /\ Len(text) \in 1 .. Len(text)
    OBVIOUS
  <1>2. a \in Seq(Tokens) /\ b \in Seq(Tokens) /\ text = a \o b
    <2> HIDE DEF k
    <2> QED BY <1>1, SplitAt
  <1>3. b = <<Newline>>
    <2> PICK n : n = Len(text)
      OBVIOUS
    <2>1. k + 1 = n /\ n \in 1 .. Len(text) /\ n \in n .. Len(text) /\ text[n] = Newline
      BY <1>1
    <2>2. SubSeq(text, n, n) = <<text[n]>> \o SubSeq(text, n + 1, n)
      BY ONLY <2>1, text \in Seq(Tokens), SubSeqRecursiveFirst
    <2>3. SubSeq(text, n + 1, n) = <<>>
      BY ONLY <2>1, SubSeqEmpty
    <2>4. <<Newline>> \o <<>> = <<Newline>>
      OBVIOUS
    <2> QED BY <2>1, <2>2, <2>3, <2>4
  <1> HIDE DEF a, b
  <1>4. IsBlank(a)
    BY <1>2, BlankParts
  <1>5. Read(at, text) = Read(Read(at, a), b)
    <2>1. Read(at, a \o b) = Read(Read(at, a), b)
      BY <1>2, ReadConcat
    <2> QED BY <1>2, <2>1
  <1>6. Read(at, a) \in Places /\ Finished(Read(at, a)) = Finished(at)
    BY <1>2, <1>4, BlankAfter
  <1>7. Read(Read(at, a), <<Newline>>) = At(Finished(Read(at, a)), <<>>)
    BY <1>6, ReadNewline
  <1>8. Read(at, <<Newline>>) = At(Finished(at), <<>>)
    BY ReadNewline
  <1> QED BY <1>3, <1>5, <1>6, <1>7, <1>8

\* Empty lines leave the reader as it is.
LEMMA ReadBlank ==
    ASSUME NEW r \in Readers, NEW text \in Seq(Tokens), IsBlank(text)
    PROVE  \E b \in Seq(Tokens) : IsBlank(b) /\ Read(At(r, <<>>), text) = At(r, b)
  <1> DEFINE at == At(r, <<>>)
             last == Len(text)
             k == ReadUpTo(at, text)
             T == {n \in 0 .. last : \E b \in Seq(Tokens) : IsBlank(b) /\ k[n] = At(r, b)}
  <1>1. last \in Nat /\ \A n \in 1 .. last : text[n] \in Tokens /\ text[n] \in Space
    BY DEF IsBlank
  <1>2. at \in Places
    BY FinishedStart
  <1>3. k[0] = at /\ \A n \in 1 .. last : k[n] = ReadToken(k[n - 1], text[n])
    BY <1>2, ReadFacts
  <1>4. <<>> \in Seq(Tokens) /\ IsBlank(<<>>)
    BY DEF IsBlank
  <1> HIDE DEF k, last
  <1>5. 0 \in T
    <2>1. 0 \in 0 .. last /\ k[0] = At(r, <<>>)
      BY <1>1, <1>3
    <2> QED BY <1>4, <2>1
  <1>6. ASSUME NEW n \in 0 .. last, n \in T, n < last PROVE n + 1 \in T
    <2> PICK m : m = n + 1
      OBVIOUS
    <2>1. m \in 1 .. last /\ m - 1 = n /\ m \in 0 .. last
      BY <1>1, <1>6
    <2> PICK x : x = text[m]
      OBVIOUS
    <2>2. k[m] = ReadToken(k[n], x) /\ x \in Tokens /\ x \in Space
      BY <1>1, <1>3, <2>1
    <2>3. PICK b \in Seq(Tokens) : IsBlank(b) /\ k[n] = At(r, b)
      BY <1>6
    <2>4. At(r, b).reader = r /\ At(r, b).line = b
      BY AtType
    <2>5. CASE x = Newline
      <3>1. k[m] = At(ReadLine(r, b), <<>>)
        BY <2>2, <2>3, <2>4, <2>5 DEF ReadToken
      <3>2. ReadLine(r, b) = r
        BY <2>3, ReadBlankLine
      <3> QED BY <1>4, <2>1, <3>1, <3>2
    <2>6. CASE x # Newline
      <3>1. k[m] = At(r, Append(b, x))
        BY <2>2, <2>3, <2>4, <2>6 DEF ReadToken
      <3>2. Append(b, x) \in Seq(Tokens)
        BY <2>2
      <3>3. IsBlank(Append(b, x))
        BY <2>2, <2>3 DEF IsBlank
      <3> QED BY <2>1, <3>1, <3>2, <3>3
    <2> QED BY <2>5, <2>6
  <1> HIDE DEF T
  <1>7. 0 .. last \subseteq T
    BY <1>1, <1>5, <1>6, UpToInduction
  <1>8. last \in T
    BY <1>1, <1>7
  <1> HIDE DEF at
  <1> QED BY <1>8 DEF T, Read, k, last, at

\* Space at the start of a line makes no difference.
LEMMA ReadIndented ==
    ASSUME NEW r \in Readers, NEW b \in Seq(Tokens), NEW l \in Seq(Tokens),
           NEW text \in Seq(Tokens), IsBlank(b)
    PROVE  End(Read(At(r, b \o l), text)) = End(Read(At(r, l), text))
  <1> DEFINE last == Len(text)
             p == At(r, b \o l)
             q == At(r, l)
             kp == ReadUpTo(p, text)
             kq == ReadUpTo(q, text)
             Alike(x, y) == /\ x \in Places /\ y \in Places /\ x.reader = y.reader
                            /\ \E c \in Seq(Tokens) : IsBlank(c) /\ x.line = c \o y.line
             T == {n \in 0 .. last : Alike(kp[n], kq[n])}
  <1>1. b \o l \in Seq(Tokens)
    OBVIOUS
  <1>2. /\ p \in Places /\ p.reader = r /\ p.line = b \o l
        /\ q \in Places /\ q.reader = r /\ q.line = l
    <2> DEFINE bl == b \o l
    <2> HIDE DEF bl
    <2>1. At(r, bl) \in Places /\ At(r, bl).reader = r /\ At(r, bl).line = bl
      BY <1>1, AtType DEF bl
    <2>2. q \in Places /\ q.reader = r /\ q.line = l
      BY AtType
    <2> QED BY <2>1, <2>2 DEF bl
  <1>3. last \in Nat /\ \A n \in 1 .. last : text[n] \in Tokens
    OBVIOUS
  <1> HIDE DEF p, q
  <1>4. kp[0] = p /\ \A n \in 1 .. last : kp[n] = ReadToken(kp[n - 1], text[n])
    BY <1>2, ReadFacts
  <1>5. kq[0] = q /\ \A n \in 1 .. last : kq[n] = ReadToken(kq[n - 1], text[n])
    BY <1>2, ReadFacts
  <1> HIDE DEF kp, kq, last
  <1>6. ASSUME NEW x, NEW y, Alike(x, y) PROVE Finished(x) = Finished(y)
    <2>1. PICK c \in Seq(Tokens) : IsBlank(c) /\ x.line = c \o y.line
      BY <1>6
    <2>2. y.line \in Seq(Tokens) /\ <<>> \in Seq(Tokens) /\ IsBlank(<<>>)
      BY <1>6, PlaceType DEF IsBlank
    <2>3. Strip(c \o y.line) = Strip(y.line)
      BY ONLY <2>1, <2>2, StripAround
    <2>4. ReadLine(x.reader, x.line) = ReadLine(y.reader, y.line)
      <3>1. Strip(x.line) = Strip(y.line)
        BY <2>1, <2>3
      <3> QED BY <1>6, <3>1, ReadSame
    <2> QED BY <2>4 DEF Finished
  <1>7. 0 \in T
    <2>1. Alike(p, q)
      BY <1>2
    <2> HIDE DEF Alike
    <2> QED BY <1>3, <1>4, <1>5, <2>1
  <1>8. ASSUME NEW n \in 0 .. last, n \in T, n < last PROVE n + 1 \in T
    <2> PICK m : m = n + 1
      OBVIOUS
    <2>1. m \in 1 .. last /\ m - 1 = n /\ m \in 0 .. last
      BY <1>3, <1>8
    <2> PICK x : x = kp[n]
      OBVIOUS
    <2> PICK y : y = kq[n]
      OBVIOUS
    <2> PICK t : t = text[m]
      OBVIOUS
    <2>2. kp[m] = ReadToken(x, t) /\ kq[m] = ReadToken(y, t) /\ t \in Tokens
      BY <1>3, <1>4, <1>5, <2>1
    <2>3. Alike(x, y)
      BY <1>8
    <2>4. x \in Places /\ y \in Places /\ x.reader = y.reader
      BY <2>3
    <2>5. CASE t = Newline
      <3>1. Finished(x) = Finished(y)
        BY <1>6, <2>3
      <3>2. kp[m] = At(Finished(x), <<>>) /\ kq[m] = At(Finished(y), <<>>)
        BY <2>2, <2>4, <2>5, FinishedType
      <3>3. kp[m] \in Places /\ kq[m] = kp[m]
        BY <2>4, <3>1, <3>2, FinishedType
      <3>4. kp[m].line = <<>> /\ <<>> \in Seq(Tokens) /\ IsBlank(<<>>) /\ <<>> \o <<>> = <<>>
        BY <3>2 DEF At, IsBlank
      <3>5. Alike(kp[m], kq[m])
        BY <3>3, <3>4
      <3> QED BY <2>1, <3>5
    <2>6. CASE t # Newline
      <3>1. PICK c \in Seq(Tokens) : IsBlank(c) /\ x.line = c \o y.line
        BY <2>3
      <3> DEFINE u == y.line
      <3>2. u \in Seq(Tokens) /\ x.line = c \o u
        BY <2>4, <3>1, PlaceType
      <3> HIDE DEF u
      <3>3. Append(c \o u, t) = c \o Append(u, t)
        <4>1. c \in Seq(Tokens) /\ u \in Seq(Tokens) /\ t \in Tokens
          BY <2>2, <3>2
        <4>2. AppendsToLast(c, u, t)
          BY ONLY <4>1, AppendToConcat
        <4> QED BY <4>2 DEF AppendsToLast
      <3>4. kp[m] = At(x.reader, Append(c \o u, t)) /\ kq[m] = At(y.reader, Append(u, t))
        BY <2>2, <2>6, <3>2 DEF ReadToken, u
      <3>5. kp[m] \in Places /\ kq[m] \in Places
        BY <2>2, <2>4, ReadTokenType
      <3>6. /\ kp[m].reader = x.reader /\ kp[m].line = c \o Append(u, t)
            /\ kq[m].reader = y.reader /\ kq[m].line = Append(u, t)
        <4> DEFINE cu == Append(c \o u, t)
                   uu == Append(u, t)
        <4> HIDE DEF cu, uu
        <4>1. kp[m] = At(x.reader, cu) /\ kq[m] = At(y.reader, uu)
          BY <3>4 DEF cu, uu
        <4>2. /\ kp[m].reader = x.reader /\ kp[m].line = cu
              /\ kq[m].reader = y.reader /\ kq[m].line = uu
          BY <4>1 DEF At
        <4> QED BY <3>3, <4>2 DEF cu, uu
      <3>7. Alike(kp[m], kq[m])
        BY <2>4, <3>1, <3>5, <3>6
      <3> QED BY <2>1, <3>7
    <2> QED BY <2>5, <2>6
  <1> HIDE DEF T, Alike
  <1>9. 0 .. last \subseteq T
    BY <1>3, <1>7, <1>8, UpToInduction
  <1>10. Alike(kp[last], kq[last])
    BY <1>3, <1>9 DEF T
  <1>11. Finished(kp[last]) = Finished(kq[last]) /\ kp[last] \in Places /\ kq[last] \in Places
    BY <1>6, <1>10 DEF Alike
  <1>12. End(kp[last]) = End(kq[last])
    BY <1>11, FinishedType
  <1> QED BY <1>12 DEF Read, kp, kq, last, p, q

\* The rest of a line is read into it.
LEMMA ReadPlain ==
    ASSUME NEW r \in Readers, NEW l \in Seq(Tokens), NEW text \in Seq(Tokens), Plain(text)
    PROVE  Read(At(r, l), text) = At(r, l \o text)
  <1> DEFINE at == At(r, l)
             last == Len(text)
             k == ReadUpTo(at, text)
             upTo(n) == SubSeq(text, 1, n)
             T == {n \in 0 .. last : k[n] = At(r, l \o upTo(n))}
  <1>1. /\ last \in Nat
        /\ \A n \in 1 .. last : text[n] \in Tokens /\ text[n] # Newline
    BY DEF Plain
  <1>2. at \in Places
    BY AtType
  <1> HIDE DEF at
  <1>3. k[0] = at /\ \A n \in 1 .. last : k[n] = ReadToken(k[n - 1], text[n])
    BY <1>2, ReadFacts
  <1>4. l \o upTo(0) = l
    OBVIOUS
  <1>5. ASSUME NEW n \in 1 .. last
        PROVE  /\ upTo(n - 1) \in Seq(Tokens)
               /\ upTo(n) = Append(upTo(n - 1), text[n])
    <2>1. upTo(n - 1) \in Seq(Tokens)
      BY <1>1
    <2>2. 1 \in 1 .. last /\ n \in 1 .. last
      BY <1>1
    <2>3. upTo(n) = upTo(n - 1) \o <<text[n]>>
      BY <2>2, SubSeqRecursiveSecond
    <2> HIDE DEF upTo
    <2> QED BY <1>1, <2>1, <2>3, AppendIsConcat
  <1>6. upTo(last) = text
    BY SubSeqFull
  <1> HIDE DEF k, last, upTo
  <1>7. 0 \in T
    <2>1. 0 \in 0 .. last /\ k[0] = At(r, l)
      BY <1>1, <1>3 DEF at
    <2>2. k[0] = At(r, l \o upTo(0))
      BY ONLY <1>4, <2>1, Zenon
    <2> QED BY <2>1, <2>2
  <1>8. ASSUME NEW n \in 0 .. last, n \in T, n < last PROVE n + 1 \in T
    <2> PICK m : m = n + 1
      OBVIOUS
    <2>1. m \in 1 .. last /\ m - 1 = n /\ m \in 0 .. last
      BY <1>1, <1>8
    <2> PICK x : x = text[m]
      OBVIOUS
    <2> PICK u : u = upTo(n)
      OBVIOUS
    <2>2. k[m] = ReadToken(At(r, l \o u), x) /\ x \in Tokens /\ x # Newline
      BY <1>1, <1>3, <1>8, <2>1
    <2>3. u \in Seq(Tokens) /\ upTo(m) = Append(u, x)
      BY <1>5, <2>1
    <2>4. k[m] = At(r, Append(l \o u, x))
      BY <2>2 DEF ReadToken, At
    <2>5. Append(l \o u, x) = l \o Append(u, x)
      <3>1. l \in Seq(Tokens) /\ u \in Seq(Tokens) /\ x \in Tokens
        BY <2>2, <2>3
      <3>2. AppendsToLast(l, u, x)
        BY ONLY <3>1, AppendToConcat
      <3> QED BY <3>2 DEF AppendsToLast
    <2> QED BY <2>1, <2>3, <2>4, <2>5
  <1> HIDE DEF T
  <1>9. 0 .. last \subseteq T
    BY <1>1, <1>7, <1>8, UpToInduction
  <1>10. k[last] = At(r, l \o text)
    BY <1>1, <1>6, <1>9 DEF T
  <1> QED BY <1>10 DEF Read, k, last, at

-----------------------------------------------------------------------------
(* Lines that neither end a statement nor change the delimiter.            *)

LEMMA WordsStrip ==
    ASSUME NEW S, NEW s \in Seq(S)
    PROVE  Words(Strip(s)) = Words(s)
  <1>1. PICK p, c, q \in Seq(S) :
              /\ s = p \o (c \o q) /\ Strip(s) = c
              /\ IsBlank(p) /\ IsBlank(q) /\ Trimmed(c)
    BY StripParts
  <1>2. Words(p) = <<>> /\ Words(q) = <<>>
    BY <1>1, WordsBlank
  <1>3. Words(c \o q) = Words(c) \o Words(q)
    BY <1>1, WordsConcat
  <1>4. Words(p \o (c \o q)) = Words(p) \o Words(c \o q)
    <2> DEFINE u == c \o q
    <2>1. u \in Seq(S)
      BY <1>1
    <2> HIDE DEF u
    <2>2. Words(p \o u) = Words(p) \o Words(u)
      BY <1>1, <2>1, WordsConcat
    <2> QED BY <2>2 DEF u
  <1>5. Words(c) \in Seq(S)
    BY <1>1, WordsType
  <1>6. Words(c) \o <<>> = Words(c) /\ <<>> \o Words(c) = Words(c)
    BY ONLY <1>5, ConcatEmptySeq
  <1> QED BY ONLY <1>1, <1>2, <1>3, <1>4, <1>6, Zenon

\* The reader when it has also read a text.
With(r, text) == Reader(r.statements, r.pending \o Words(text), r.ender, r.whole)

\* It only has more words in its next statement.
LEMMA WithType ==
    ASSUME NEW r \in Readers, NEW text \in Seq(Tokens)
    PROVE  /\ With(r, text) \in Readers
           /\ With(r, text).statements = r.statements
           /\ With(r, text).pending = r.pending \o Words(text)
           /\ With(r, text).ender = r.ender /\ With(r, text).whole = r.whole
  <1>1. /\ r.statements \in Seq(Seq(Tokens)) /\ r.pending \in Seq(Tokens)
        /\ r.ender \in Delims /\ r.whole \in Ignores
    BY ReaderType
  <1>2. Words(text) \in Seq(Tokens)
    BY WordsType
  <1>3. r.pending \o Words(text) \in Seq(Tokens)
    BY ONLY <1>1, <1>2, ConcatProperties
  <1> DEFINE pending == r.pending \o Words(text)
  <1> HIDE DEF pending
  <1>4. pending \in Seq(Tokens)
    BY <1>3 DEF pending
  <1>5. LET rr == Reader(r.statements, pending, r.ender, r.whole) IN
        /\ rr \in Readers /\ rr.statements = r.statements /\ rr.pending = pending
        /\ rr.ender = r.ender /\ rr.whole = r.whole
    BY ONLY <1>1, <1>4, ReaderIs
  <1> QED BY <1>5 DEF With, pending

LEMMA WithNothing ==
    ASSUME NEW r \in Readers, NEW text \in Seq(Tokens), IsBlank(text)
    PROVE  With(r, text) = r
  <1>1. Words(text) = <<>>
    BY WordsBlank
  <1>2. r.pending \in Seq(Tokens) /\ r = Reader(r.statements, r.pending, r.ender, r.whole)
    BY ReaderType
  <1>3. r.pending \o <<>> = r.pending
    BY ONLY <1>2, ConcatEmptySeq
  <1>4. With(r, text) = Reader(r.statements, r.pending, r.ender, r.whole)
    BY ONLY <1>1, <1>3, Zenon DEF With
  <1> QED BY ONLY <1>2, <1>4, Zenon

\* The text of a reader's next statement grows by what it reads.
LEMMA WithLine ==
    ASSUME NEW r \in Readers, NEW a \in Seq(Tokens), NEW l \in Seq(Tokens),
           ~IsCommand(l), ~IsEnding(r, l)
    PROVE  ReadLine(With(r, a), l) = With(r, Append(a \o l, Newline))
  <1> DEFINE w == With(r, a)
             al == a \o l
  <1>1. /\ w \in Readers /\ w.statements = r.statements
        /\ w.pending = r.pending \o Words(a)
        /\ w.ender = r.ender /\ w.whole = r.whole
    BY WithType
  <1> HIDE DEF w
  <1>2. ~IsEnding(w, l)
    BY <1>1 DEF IsEnding
  <1>3. ReadLine(w, l) = Reader(w.statements, w.pending \o Words(Strip(l)), w.ender, w.whole)
    BY <1>2, ReadOther
  <1>4. Words(Strip(l)) = Words(l)
    BY WordsStrip
  <1>5. Words(Append(al, Newline)) = Words(a) \o Words(l)
    <2>1. Newline \in Tokens /\ al \in Seq(Tokens)
      BY ScriptsAssumption
    <2>2. Words(al) = Words(a) \o Words(l)
      BY WordsConcat
    <2> HIDE DEF al
    <2>3. <<Newline>> \in Seq(Tokens) /\ IsBlank(<<Newline>>)
      BY <2>1 DEF IsBlank, Space
    <2>4. Append(al, Newline) = al \o <<Newline>>
      BY <2>1, AppendIsConcat
    <2>5. Words(al \o <<Newline>>) = Words(al) \o Words(<<Newline>>)
      BY <2>1, <2>3, WordsConcat
    <2>6. Words(<<Newline>>) = <<>>
      BY <2>3, WordsBlank
    <2>7. Words(al) \in Seq(Tokens)
      BY <2>1, WordsType
    <2>8. Words(al) \o <<>> = Words(al)
      BY ONLY <2>7, ConcatEmptySeq
    <2> QED BY ONLY <2>2, <2>4, <2>5, <2>6, <2>8, Zenon
  <1>6. Associate(r.pending, Words(a), Words(l))
    <2>1. r.pending \in Seq(Tokens) /\ Words(a) \in Seq(Tokens) /\ Words(l) \in Seq(Tokens)
      BY ReaderType, WordsType
    <2> QED BY <2>1, AnyAssociate
  <1>7. w.pending \o Words(Strip(l)) = r.pending \o Words(Append(al, Newline))
    BY ONLY <1>1, <1>4, <1>5, <1>6, Zenon DEF Associate
  <1>8. ReadLine(w, l) = With(r, Append(al, Newline))
    BY ONLY <1>1, <1>3, <1>7, Zenon DEF With
  <1> QED BY <1>8 DEF w

\* A text that is empty or ends its last line.
EndsLine(text) == text = <<>> \/ text[Len(text)] = Newline

\* No line that ends in the text changes the delimiter or ends a statement.
Quiet(r, text) ==
    \A a, l, z \in Seq(Tokens) :
        text = a \o (l \o (<<Newline>> \o z)) /\ EndsLine(a) /\ Plain(l)
          => ~IsCommand(l) /\ ~IsEnding(r, l)

\* A reader that comes to no such line has the whole lines in its next
\* statement, and the last one before it.
LEMMA QuietPrefix ==
    ASSUME NEW r \in Readers, NEW text \in Seq(Tokens), Quiet(r, text)
    PROVE  \E a, l \in Seq(Tokens) :
              /\ text = a \o l /\ EndsLine(a) /\ Plain(l)
              /\ Read(At(r, <<>>), text) = At(With(r, a), l)
  <1> DEFINE at == At(r, <<>>)
             last == Len(text)
             k == ReadUpTo(at, text)
             upTo(n) == SubSeq(text, 1, n)
             from(n) == SubSeq(text, n + 1, last)
             T == {n \in 0 .. last :
                     \E a, l \in Seq(Tokens) :
                        /\ upTo(n) = a \o l /\ EndsLine(a) /\ Plain(l)
                        /\ k[n] = At(With(r, a), l)}
  <1>1. /\ last \in Nat /\ Newline \in Tokens /\ <<Newline>> \in Seq(Tokens)
        /\ \A n \in 1 .. last : text[n] \in Tokens
    BY ScriptsAssumption
  <1>2. at \in Places
    BY FinishedStart
  <1>3. k[0] = at /\ \A n \in 1 .. last : k[n] = ReadToken(k[n - 1], text[n])
    BY <1>2, ReadFacts
  <1>4. ASSUME NEW n \in 1 .. last
        PROVE  /\ upTo(n - 1) \in Seq(Tokens)
               /\ upTo(n) = Append(upTo(n - 1), text[n])
    <2>1. upTo(n - 1) \in Seq(Tokens)
      BY <1>1
    <2>2. 1 \in 1 .. last /\ n \in 1 .. last
      BY <1>1
    <2>3. upTo(n) = upTo(n - 1) \o <<text[n]>>
      BY <2>2, SubSeqRecursiveSecond
    <2> HIDE DEF upTo
    <2> QED BY <1>1, <2>1, <2>3, AppendIsConcat
  <1>5. ASSUME NEW n \in 1 .. last
        PROVE  from(n) \in Seq(Tokens) /\ text = upTo(n - 1) \o (<<text[n]>> \o from(n))
    <2>1. n - 1 \in 0 .. last /\ (n - 1) + 1 = n
      BY <1>1
    <2>2. from(n) \in Seq(Tokens)
      BY <1>1
    <2>3. text = upTo(n - 1) \o SubSeq(text, (n - 1) + 1, last)
      BY <2>1, SplitAt
    <2>4. SubSeq(text, n, last) = <<text[n]>> \o from(n)
      <3>1. n \in 1 .. last /\ last \in n .. last
        BY <1>1
      <3> QED BY <3>1, SubSeqRecursiveFirst
    <2> HIDE DEF upTo, from, last
    <2>5. SubSeq(text, (n - 1) + 1, last) = <<text[n]>> \o from(n)
      BY <2>1, <2>4
    <2> QED BY <2>2, <2>3, <2>5
  <1>6. upTo(last) = text
    BY SubSeqFull
  <1>7. upTo(0) = <<>>
    OBVIOUS
  <1> HIDE DEF k, last, upTo, from
  <1>8. /\ <<>> \in Seq(Tokens) /\ <<>> \o <<>> = <<>>
        /\ EndsLine(<<>>) /\ Plain(<<>>) /\ IsBlank(<<>>)
    BY DEF EndsLine, Plain, IsBlank
  <1>9. 0 \in T
    <2>1. k[0] = At(With(r, <<>>), <<>>)
      BY <1>3, <1>8, WithNothing
    <2>2. 0 \in 0 .. last
      BY <1>1
    <2>3. upTo(0) = <<>> \o <<>>
      BY <1>7, <1>8
    <2> HIDE DEF at
    <2> QED BY <1>8, <2>1, <2>2, <2>3
  <1>10. ASSUME NEW n \in 0 .. last, n \in T, n < last PROVE n + 1 \in T
    <2> PICK m : m = n + 1
      OBVIOUS
    <2>1. m \in 1 .. last /\ m - 1 = n /\ m \in 0 .. last
      BY <1>1, <1>10
    <2> PICK x : x = text[m]
      OBVIOUS
    <2>2. PICK a, l \in Seq(Tokens) :
             /\ upTo(n) = a \o l /\ EndsLine(a) /\ Plain(l)
             /\ k[n] = At(With(r, a), l)
      BY <1>10
    <2>3. k[m] = ReadToken(At(With(r, a), l), x) /\ x \in Tokens
      BY <1>1, <1>3, <2>1, <2>2
    <2>4. upTo(m) = Append(a \o l, x)
      BY <1>4, <2>1, <2>2
    <2>5. CASE x = Newline
      <3>1. text = a \o (l \o (<<Newline>> \o from(m)))
        <4> DEFINE z == <<Newline>> \o from(m)
        <4>1. from(m) \in Seq(Tokens) /\ text = (a \o l) \o z
          BY <1>5, <2>1, <2>2, <2>5
        <4>2. z \in Seq(Tokens)
          BY ONLY <1>1, <4>1, ConcatProperties
        <4> HIDE DEF z
        <4>3. Associate(a, l, z)
          BY <4>2, AnyAssociate
        <4> QED BY ONLY <4>1, <4>3 DEF Associate, z
      <3>2. ~IsCommand(l) /\ ~IsEnding(r, l)
        <4>1. from(m) \in Seq(Tokens)
          BY <1>5, <2>1
        <4> QED BY ONLY <2>2, <3>1, <4>1, Quiet(r, text), a \in Seq(Tokens),
                        l \in Seq(Tokens), Zenon
                DEF Quiet
      <3> DEFINE u == Append(a \o l, Newline)
      <3>3. ReadLine(With(r, a), l) = With(r, u)
        BY <3>2, WithLine
      <3>4. k[m] = At(With(r, u), <<>>)
        BY <2>3, <2>5, <3>3 DEF ReadToken, At
      <3>5. u \in Seq(Tokens) /\ EndsLine(u) /\ upTo(m) = u /\ u \o <<>> = u
        BY <1>1, <2>4, <2>5 DEF EndsLine
      <3> HIDE DEF u
      <3> QED BY <1>8, <2>1, <3>4, <3>5
    <2>6. CASE x # Newline
      <3> DEFINE u == Append(l, x)
      <3>1. AppendsToLast(a, l, x)
        BY <2>3, AppendToConcat
      <3>2. upTo(m) = a \o u
        BY <2>4, <3>1 DEF AppendsToLast
      <3>3. k[m] = At(With(r, a), u)
        BY <2>3, <2>6 DEF ReadToken, At
      <3>4. u \in Seq(Tokens) /\ Plain(u)
        BY <2>2, <2>3, <2>6 DEF Plain
      <3> HIDE DEF u
      <3> QED BY <2>1, <2>2, <3>2, <3>3, <3>4
    <2> QED BY <2>5, <2>6
  <1> HIDE DEF T
  <1>11. 0 .. last \subseteq T
    BY <1>1, <1>9, <1>10, UpToInduction
  <1>12. last \in T
    BY <1>1, <1>11
  <1>13. PICK a, l \in Seq(Tokens) :
            /\ upTo(last) = a \o l /\ EndsLine(a) /\ Plain(l)
            /\ k[last] = At(With(r, a), l)
    BY <1>12 DEF T
  <1>14. text = a \o l
    BY ONLY <1>6, <1>13, Zenon
  <1>15. Read(at, text) = At(With(r, a), l)
    BY <1>13 DEF Read, k, last
  <1> QED BY <1>13, <1>14, <1>15 DEF at

\* Once the last line ends, all of it is in the next statement.
LEMMA QuietRead ==
    ASSUME NEW r \in Readers, NEW text \in Seq(Tokens), Quiet(r, text \o <<Newline>>)
    PROVE  Read(At(r, <<>>), text \o <<Newline>>) = At(With(r, text), <<>>)
  <1> DEFINE t == text \o <<Newline>>
  <1>1. <<Newline>> \in Seq(Tokens) /\ IsBlank(<<Newline>>)
    BY ScriptsAssumption DEF IsBlank, Space
  <1>2. t \in Seq(Tokens) /\ Len(t) \in 1 .. Len(t) /\ t[Len(t)] = Newline
    BY <1>1
  <1>3. Words(t) = Words(text)
    <2>1. Words(t) = Words(text) \o Words(<<Newline>>)
      BY <1>1, WordsConcat
    <2>2. Words(<<Newline>>) = <<>> /\ Words(text) \in Seq(Tokens)
      BY <1>1, WordsBlank, WordsType
    <2>3. Words(text) \o <<>> = Words(text)
      BY ONLY <2>2, ConcatEmptySeq
    <2> QED BY ONLY <2>1, <2>2, <2>3, Zenon
  <1> HIDE DEF t
  <1>4. PICK a, l \in Seq(Tokens) :
            /\ t = a \o l /\ EndsLine(a) /\ Plain(l)
            /\ Read(At(r, <<>>), t) = At(With(r, a), l)
    BY <1>2, QuietPrefix DEF t
  <1>5. l = <<>>
    <2> SUFFICES ASSUME l # <<>> PROVE FALSE
      OBVIOUS
    <2>1. Len(l) \in 1 .. Len(l) /\ (a \o l)[Len(a) + Len(l)] = l[Len(l)]
      BY TwoParts
    <2>2. Len(t) = Len(a) + Len(l) /\ t[Len(t)] = l[Len(l)]
      <3>1. Len(a \o l) = Len(a) + Len(l)
        OBVIOUS
      <3> QED BY <1>4, <2>1, <3>1
    <2>3. l[Len(l)] # Newline
      BY <1>4, <2>1 DEF Plain
    <2> QED BY <1>2, <2>2, <2>3
  <1>6. a = t
    <2>1. a \o <<>> = a
      OBVIOUS
    <2> QED BY ONLY <1>4, <1>5, <2>1, Zenon
  <1>7. With(r, t) = With(r, text)
    BY <1>3 DEF With
  <1> QED BY <1>4, <1>5, <1>6, <1>7 DEF t

-----------------------------------------------------------------------------
(* What the searches leave is read as the client reads it.                 *)

\* The client reads the same in both texts.
SameReading(a, b) ==
    \A r \in Readers : End(Read(At(r, <<>>), a)) = End(Read(At(r, <<>>), b))

\* A reader that has the space at the start of a line reads as one that has
\* nothing of it.
LEMMA ReadAfterBlank ==
    ASSUME NEW r \in Readers, NEW b \in Seq(Tokens), NEW text \in Seq(Tokens), IsBlank(b)
    PROVE  End(Read(At(r, b), text)) = End(Read(At(r, <<>>), text))
  <1> DEFINE e == <<>>
  <1>1. e \in Seq(Tokens) /\ b \o e = b
    BY ConcatEmptySeq
  <1> HIDE DEF e
  <1>2. End(Read(At(r, b \o e), text)) = End(Read(At(r, e), text))
    BY <1>1, ReadIndented
  <1>3. End(Read(At(r, b), text)) = End(Read(At(r, e), text))
    BY ONLY <1>1, <1>2, Zenon
  <1> QED BY <1>3 DEF e

\* Three parts are read one after the other.
LEMMA ReadThree ==
    ASSUME NEW at \in Places, NEW a \in Seq(Tokens), NEW b \in Seq(Tokens),
           NEW c \in Seq(Tokens)
    PROVE  /\ Read(at, a \o (b \o c)) = Read(Read(Read(at, a), b), c)
           /\ Read(at, a) \in Places /\ Read(Read(at, a), b) \in Places
  <1> DEFINE bc == b \o c
             mid == Read(at, a)
  <1>1. bc \in Seq(Tokens) /\ mid \in Places
    BY ReadType
  <1>2. Read(mid, bc) = Read(Read(mid, b), c) /\ Read(mid, b) \in Places
    BY <1>1, ReadConcat, ReadType
  <1> HIDE DEF bc
  <1>3. Read(at, a \o bc) = Read(Read(at, a), bc)
    BY <1>1, ReadConcat
  <1> QED BY <1>1, <1>2, <1>3 DEF bc

\* An empty line says nothing.
LEMMA NewlineReads ==
    ASSUME NEW u \in Seq(Tokens)
    PROVE  SameReading(u, <<Newline>> \o u)
  <1> SUFFICES ASSUME NEW r \in Readers
               PROVE  Read(At(r, <<>>), u) = Read(At(r, <<>>), <<Newline>> \o u)
    BY DEF SameReading
  <1> DEFINE at == At(r, <<>>)
  <1>1. at \in Places /\ Finished(at) = r
    BY FinishedStart
  <1> HIDE DEF at
  <1>2. <<Newline>> \in Seq(Tokens) /\ Read(at, <<Newline>>) = At(Finished(at), <<>>)
    BY <1>1, ReadNewline
  <1>3. Read(at, <<Newline>> \o u) = Read(Read(at, <<Newline>>), u)
    BY <1>1, <1>2, ReadConcat
  <1>4. Read(at, <<Newline>>) = at
    BY <1>1, <1>2 DEF at
  <1> QED BY <1>3, <1>4 DEF at

\* Between what is before a DELIMITER command and the command: the client
\* reads what str.strip() leaves of it, on a line of its own, as the lines
\* before and the space.
LEMMA StrippedReads ==
    ASSUME NEW before \in Seq(Tokens), NEW w \in Seq(Tokens), NEW u \in Seq(Tokens),
           EndsLine(before), IsBlank(w)
    PROVE  SameReading(before \o (w \o u), Strip(before) \o (<<Newline>> \o u))
  <1> SUFFICES ASSUME NEW r \in Readers
               PROVE  End(Read(At(r, <<>>), before \o (w \o u)))
                        = End(Read(At(r, <<>>), Strip(before) \o (<<Newline>> \o u)))
    BY DEF SameReading
  <1> DEFINE at == At(r, <<>>)
             nl == <<Newline>>
  <1>1. PICK p, s, q \in Seq(Tokens) :
              /\ before = p \o (s \o q) /\ Strip(before) = s
              /\ IsBlank(p) /\ IsBlank(q) /\ Trimmed(s)
    BY StripParts
  <1>2. at \in Places /\ nl \in Seq(Tokens) /\ Finished(at) = r /\ <<>> \in Seq(Tokens)
    BY FinishedStart, ScriptsAssumption
  <1>3. PICK b \in Seq(Tokens) : IsBlank(b) /\ Read(at, p) = At(r, b)
    BY <1>1, ReadBlank
  <1> DEFINE tail == q \o (w \o u)
             stail == s \o tail
             ats == Read(at, s)
  <1>4. tail \in Seq(Tokens) /\ stail \in Seq(Tokens) /\ w \o u \in Seq(Tokens)
        /\ s \o q \in Seq(Tokens)
    BY <1>1
  <1>5. before \o (w \o u) = p \o stail
    <2>1. Associate(p, s \o q, w \o u) /\ Associate(s, q, w \o u)
      BY <1>1, <1>4, AnyAssociate
    <2> QED BY ONLY <1>1, <2>1, Zenon DEF Associate
  <1> HIDE DEF stail, nl
  <1>6. End(Read(at, p \o stail)) = End(Read(at, stail))
    <2>1. Read(at, p \o stail) = Read(At(r, b), stail)
      <3>1. Read(at, p \o stail) = Read(Read(at, p), stail)
        BY <1>1, <1>2, <1>4, ReadConcat
      <3> QED BY ONLY <1>3, <3>1, Zenon
    <2>2. End(Read(At(r, b), stail)) = End(Read(At(r, <<>>), stail))
      BY ONLY <1>3, <1>4, r \in Readers, b \in Seq(Tokens), ReadAfterBlank
    <2> QED BY ONLY <2>1, <2>2, Zenon DEF at
  <1> HIDE DEF at
  <1>7. Read(at, s) \in Places /\ Read(ats, nl) = At(Finished(ats), <<>>)
    BY <1>1, <1>2, ReadType, ReadNewline DEF nl
  <1>8. Read(ats, q) = At(Finished(ats), <<>>)
    <2>1. CASE q = <<>>
      <3>1. s = <<>>
        <4> SUFFICES ASSUME s # <<>> PROVE FALSE
          OBVIOUS
        <4>1. s \o q = s
          BY <2>1
        <4>2. before = p \o s
          BY ONLY <1>1, <4>1, Zenon
        <4>3. Len(s) \in 1 .. Len(s) /\ Len(p \o s) = Len(p) + Len(s)
              /\ (p \o s)[Len(p) + Len(s)] = s[Len(s)] /\ p \o s # <<>>
          BY <1>1
        <4>4. s[Len(s)] = Newline
          BY <4>2, <4>3 DEF EndsLine
        <4> QED BY <1>1, <4>4 DEF Trimmed, Space
      <3>2. ats = at
        BY <1>2, <3>1, ReadNothing
      <3>3. Read(ats, q) = ats
        BY <1>2, <2>1, <3>2, ReadNothing
      <3> QED BY ONLY <1>2, <3>2, <3>3 DEF at
    <2>2. CASE q # <<>>
      <3>1. q[Len(q)] = Newline
        <4> DEFINE ps == p \o s
        <4>1. ps \in Seq(Tokens) /\ before = ps \o q
          <5>1. Associate(p, s, q)
            BY AnyAssociate
          <5>2. ps \in Seq(Tokens)
            OBVIOUS
          <5> QED BY <1>1, <5>1, <5>2 DEF Associate
        <4> HIDE DEF ps
        <4>2. Len(q) \in 1 .. Len(q) /\ Len(ps \o q) = Len(ps) + Len(q)
              /\ (ps \o q)[Len(ps) + Len(q)] = q[Len(q)] /\ ps \o q # <<>>
          BY <2>2, <4>1
        <4> QED BY <4>1, <4>2 DEF EndsLine
      <3>2. Read(ats, q) = Read(ats, nl)
        BY <1>1, <1>7, <2>2, <3>1, BlankEnds DEF nl
      <3> QED BY <1>7, <3>2
    <2> QED BY <2>1, <2>2
  <1> DEFINE f == Finished(ats)
  <1>9. f \in Readers
    BY <1>7, FinishedType
  <1> HIDE DEF f
  <1>10. End(Read(at, stail)) = End(Read(At(f, <<>>), u))
    <2>1. Read(at, stail) = Read(Read(ats, q), w \o u)
      <3>1. q \in Seq(Tokens) /\ s \in Seq(Tokens)
        OBVIOUS
      <3> DEFINE wu == w \o u
      <3>2. wu \in Seq(Tokens)
        BY <1>4
      <3> HIDE DEF wu
      <3>3. Read(at, s \o (q \o wu)) = Read(Read(Read(at, s), q), wu)
        BY ONLY <1>2, <3>1, <3>2, ReadThree
      <3> QED BY <3>3 DEF stail, wu
    <2>2. Read(at, stail) = Read(At(f, <<>>), w \o u)
      BY ONLY <1>8, <2>1, Zenon DEF f
    <2>3. At(f, <<>>) \in Places
      BY <1>9, FinishedStart
    <2>4. Read(At(f, <<>>), w \o u) = Read(Read(At(f, <<>>), w), u)
      BY ONLY <2>3, w \in Seq(Tokens), u \in Seq(Tokens), ReadConcat
    <2>5. PICK c \in Seq(Tokens) : IsBlank(c) /\ Read(At(f, <<>>), w) = At(f, c)
      BY <1>9, ReadBlank
    <2>6. End(Read(At(f, c), u)) = End(Read(At(f, <<>>), u))
      BY ONLY <1>9, <2>5, c \in Seq(Tokens), u \in Seq(Tokens), ReadAfterBlank
    <2> QED BY ONLY <2>2, <2>4, <2>5, <2>6, Zenon
  <1>11. Read(at, s \o (nl \o u)) = Read(At(f, <<>>), u)
    <2>1. s \in Seq(Tokens) /\ u \in Seq(Tokens)
      OBVIOUS
    <2>2. Read(at, s \o (nl \o u)) = Read(Read(Read(at, s), nl), u)
      BY ONLY <1>2, <2>1, ReadThree
    <2> QED BY ONLY <1>7, <2>2, Zenon DEF f
  <1>12. End(Read(at, before \o (w \o u))) = End(Read(at, s \o (nl \o u)))
    BY ONLY <1>5, <1>6, <1>10, <1>11, Zenon
  <1> QED BY ONLY <1>1, <1>12, Zenon DEF at, nl

\* The same for the last block.
LEMMA LastReads ==
    ASSUME NEW text \in Seq(Tokens)
    PROVE  SameReading(text, Strip(text) \o <<Newline>>)
  <1> SUFFICES ASSUME NEW r \in Readers
               PROVE  End(Read(At(r, <<>>), text))
                        = End(Read(At(r, <<>>), Strip(text) \o <<Newline>>))
    BY DEF SameReading
  <1> DEFINE at == At(r, <<>>)
             nl == <<Newline>>
  <1>1. PICK p, s, q \in Seq(Tokens) :
              /\ text = p \o (s \o q) /\ Strip(text) = s
              /\ IsBlank(p) /\ IsBlank(q) /\ Trimmed(s)
    BY StripParts
  <1>2. at \in Places /\ nl \in Seq(Tokens) /\ IsBlank(nl) /\ <<>> \in Seq(Tokens)
    BY FinishedStart, ScriptsAssumption DEF IsBlank, Space
  <1>3. PICK b \in Seq(Tokens) : IsBlank(b) /\ Read(at, p) = At(r, b)
    BY <1>1, ReadBlank
  <1> DEFINE sq == s \o q
             ats == Read(at, s)
  <1>4. sq \in Seq(Tokens)
    BY <1>1
  <1> HIDE DEF nl
  <1>5. Read(at, sq) = Read(ats, q) /\ Read(at, s \o nl) = Read(ats, nl) /\ ats \in Places
    BY <1>1, <1>2, ReadConcat, ReadType
  <1> HIDE DEF sq
  <1>6. End(Read(at, p \o sq)) = End(Read(at, sq))
    <2>1. Read(at, p \o sq) = Read(At(r, b), sq)
      <3>1. Read(at, p \o sq) = Read(Read(at, p), sq)
        BY <1>1, <1>2, <1>4, ReadConcat
      <3> QED BY ONLY <1>3, <3>1, Zenon
    <2>2. End(Read(At(r, b), sq)) = End(Read(At(r, <<>>), sq))
      BY ONLY <1>3, <1>4, r \in Readers, b \in Seq(Tokens), ReadAfterBlank
    <2> QED BY ONLY <2>1, <2>2, Zenon DEF at
  <1> HIDE DEF at, ats
  <1>7. End(Read(ats, q)) = End(Read(ats, nl))
    <2>1. /\ Read(ats, q) \in Places /\ Finished(Read(ats, q)) = Finished(ats)
          /\ Read(ats, nl) \in Places /\ Finished(Read(ats, nl)) = Finished(ats)
      BY <1>1, <1>2, <1>5, BlankAfter
    <2> QED BY <2>1, FinishedType
  <1>8. End(Read(at, text)) = End(Read(at, s \o nl))
    BY ONLY <1>1, <1>5, <1>6, <1>7, Zenon DEF sq
  <1> QED BY ONLY <1>1, <1>8, Zenon DEF at, nl

-----------------------------------------------------------------------------
(* DELIMITER commands, and the lines where the code finds none.            *)

\* A DELIMITER command is the last of its line.
CommandsEnd(text) ==
    \A i \in DOMAIN text :
        text[i] \in DOMAIN argument => i = Len(text) \/ text[i + 1] = Newline

\* A text that is empty or starts with the end of a line.
StartsLine(text) == text = <<>> \/ text[1] = Newline

\* No line of the text is a command, however it goes on.
NoCommand(text) ==
    \A a, l, z \in Seq(Tokens) :
        text = a \o (l \o z) /\ EndsLine(a) => ~IsCommand(l)

\* The places of three texts, one after the other.
LEMMA ThreeParts ==
    ASSUME NEW S, NEW a \in Seq(S), NEW b \in Seq(S), NEW c \in Seq(S)
    PROVE  LET s == a \o (b \o c) IN
           /\ s \in Seq(S) /\ Len(s) = Len(a) + Len(b) + Len(c)
           /\ Len(a) \in Nat /\ Len(b) \in Nat /\ Len(c) \in Nat
           /\ \A i \in 1 .. Len(a) : s[i] = a[i]
           /\ \A i \in 1 .. Len(b) : s[Len(a) + i] = b[i]
           /\ \A i \in 1 .. Len(c) : s[Len(a) + Len(b) + i] = c[i]
  OBVIOUS

\* Where a line that is a command starts, the code finds it.
LEMMA CommandThere ==
    ASSUME sql \in Seq(Tokens), CommandsEnd(sql),
           NEW a \in Seq(Tokens), NEW l \in Seq(Tokens), NEW z \in Seq(Tokens),
           sql = a \o (l \o z), EndsLine(a), IsCommand(l)
    PROVE  (\E m \in Commands : m[1] = Len(a) + 1) /\ Len(l) > 0
  <1>1. PICK p, s, q \in Seq(Tokens) :
              /\ l = p \o (s \o q) /\ Strip(l) = s
              /\ IsBlank(p) /\ IsBlank(q) /\ Trimmed(s)
    BY StripParts
  <1>2. Len(s) = 1 /\ s[1] \in DOMAIN argument
    BY <1>1 DEF IsCommand
  <1> DEFINE la == Len(a)
             lp == Len(p)
             m1 == la + 1
             m2 == la + lp + 1
  <1>3. /\ Len(l) = lp + 1 + Len(q) /\ lp \in Nat /\ Len(q) \in Nat /\ la \in Nat
        /\ \A i \in 1 .. lp : l[i] = p[i]
        /\ l[lp + 1] = s[1]
    <2>1. 1 \in 1 .. Len(s)
      BY <1>2
    <2>2. /\ Len(l) = lp + Len(s) + Len(q) /\ lp \in Nat /\ Len(q) \in Nat
          /\ \A i \in 1 .. lp : l[i] = p[i]
          /\ \A i \in 1 .. Len(s) : l[lp + i] = s[i]
      BY <1>1, ThreeParts
    <2>3. l[lp + 1] = s[1]
      <3> HIDE DEF lp
      <3> QED BY ONLY <2>1, <2>2
    <2>4. la \in Nat
      OBVIOUS
    <2> QED BY <1>2, <2>2, <2>3, <2>4
  <1>4. /\ Len(sql) = la + Len(l) + Len(z) /\ Len(z) \in Nat
        /\ \A i \in 1 .. la : sql[i] = a[i]
        /\ \A i \in 1 .. Len(l) : sql[la + i] = l[i]
    BY ThreeParts
  <1> HIDE DEF la, lp
  <1>5. m1 \in 1 .. Len(sql) /\ m2 \in 1 .. Len(sql) /\ m1 <= m2
    BY <1>3, <1>4
  <1>6. sql[m2] \in DOMAIN argument
    <2> PICK i : i = lp + 1
      OBVIOUS
    <2>1. i \in 1 .. Len(l) /\ la + i = m2
      BY <1>3
    <2>2. sql[la + i] = l[i] /\ l[i] = s[1]
      BY <1>3, <1>4, <2>1
    <2> QED BY <1>2, <2>1, <2>2
  <1>7. m1 = 1 \/ sql[m1 - 1] = Newline
    <2>1. CASE a = <<>>
      BY <2>1 DEF la
    <2>2. CASE a # <<>>
      <3>1. la \in 1 .. la /\ a[la] = Newline
        BY <2>2 DEF EndsLine, la
      <3>2. m1 - 1 = la
        BY <1>3
      <3> QED BY <1>4, <3>1, <3>2
    <2> QED BY <2>1, <2>2
  <1>8. IsBlank(SubSeq(sql, m1, m2 - 1))
    <2>1. ASSUME NEW i \in DOMAIN SubSeq(sql, m1, m2 - 1)
          PROVE  SubSeq(sql, m1, m2 - 1)[i] \in Space
      <3>1. i \in 1 .. lp /\ SubSeq(sql, m1, m2 - 1)[i] = sql[la + i]
        <4>1. m2 - 1 = la + lp
          <5>1. la \in Nat /\ lp \in Nat
            BY <1>3
          <5> QED BY ONLY <5>1
        <4>2. DOMAIN SubSeq(sql, m1, la + lp) = 1 .. lp
          BY <1>3, <1>4, <1>5
        <4>3. i \in 1 .. lp
          BY <2>1, <4>1, <4>2
        <4>4. SubSeq(sql, m1, la + lp)[i] = sql[m1 + i - 1]
          <5>1. /\ m1 \in 1 .. Len(sql) /\ la + lp \in 1 .. Len(sql)
                /\ i \in 1 .. (la + lp) - m1 + 1
            <6> DEFINE ls == Len(sql)
                       ll == Len(l)
                       lz == Len(z)
                       lq == Len(q)
            <6>1. /\ la \in Nat /\ lp \in Nat /\ lq \in Nat /\ lz \in Nat
                  /\ ls = la + ll + lz /\ ll = lp + 1 + lq /\ i \in 1 .. lp
              BY <1>3, <1>4, <4>3
            <6> HIDE DEF ls, ll, lz, lq
            <6>2. m1 \in 1 .. ls /\ la + lp \in 1 .. ls /\ i \in 1 .. (la + lp) - m1 + 1
              BY ONLY <6>1
            <6> QED BY ONLY <6>2 DEF ls
          <5> HIDE DEF m1
          <5> PICK k : k = la + lp
            OBVIOUS
          <5> QED BY ONLY <5>1, k = la + lp, sql \in Seq(Tokens)
        <4>5. m1 + i - 1 = la + i
          BY <1>3, <4>3
        <4> QED BY <4>1, <4>3, <4>4, <4>5
      <3>2. sql[la + i] = p[i]
        <4>1. i \in 1 .. Len(l)
          BY <1>3, <3>1
        <4> QED BY <1>3, <1>4, <3>1, <4>1
      <3>3. p[i] \in Space
        BY <1>1, <3>1 DEF IsBlank, lp
      <3> QED BY <3>1, <3>2, <3>3
    <2> QED BY <2>1 DEF IsBlank
  <1>9. m2 = Len(sql) \/ sql[m2 + 1] = Newline
    <2>1. DOMAIN sql = 1 .. Len(sql)
      OBVIOUS
    <2> HIDE DEF m2
    <2> QED BY <1>5, <1>6, <2>1 DEF CommandsEnd
  <1>10. DOMAIN sql = 1 .. Len(sql)
    OBVIOUS
  <1> HIDE DEF m1, m2
  <1>11. <<m1, m2>> \in Commands
    BY <1>5, <1>6, <1>7, <1>8, <1>9, <1>10 DEF Commands
  <1>12. <<m1, m2>>[1] = Len(a) + 1
    BY DEF m1, la
  <1>13. Len(l) > 0
    BY <1>3
  <1> QED BY <1>11, <1>12, <1>13

\* Space at the start of a text, or at its end, makes no command of a line
\* that is not one.
LEMMA NoCommandStrip ==
    ASSUME NEW text \in Seq(Tokens), NoCommand(text)
    PROVE  NoCommand(Strip(text))
  <1>1. PICK p, s, q \in Seq(Tokens) :
              /\ text = p \o (s \o q) /\ Strip(text) = s
              /\ IsBlank(p) /\ IsBlank(q) /\ Trimmed(s)
    BY StripParts
  <1>2. ASSUME NEW a \in Seq(Tokens), NEW l \in Seq(Tokens), NEW z \in Seq(Tokens),
               s = a \o (l \o z), EndsLine(a)
        PROVE  ~IsCommand(l)
    <2> DEFINE lz == l \o z
               zq == z \o q
    <2>1. lz \in Seq(Tokens) /\ zq \in Seq(Tokens)
      OBVIOUS
    <2>2. Associate(a, lz, q) /\ Associate(l, z, q)
      BY <2>1, AnyAssociate
    <2>3. s \o q = a \o (l \o zq)
      BY ONLY <1>2, <2>2, Zenon DEF Associate
    <2> DEFINE lzq == l \o zq
    <2>4. lzq \in Seq(Tokens)
      BY <2>1
    <2> HIDE DEF lz, zq, lzq
    <2>5. CASE a = <<>>
      <3> DEFINE pl == p \o l
      <3>1. text = <<>> \o (pl \o zq)
        <4>1. Associate(p, l, zq)
          BY <2>1, AnyAssociate
        <4>2. <<>> \o lzq = lzq
          BY ONLY <2>4, ConcatEmptySeq
        <4>3. pl \in Seq(Tokens)
          OBVIOUS
        <4>4. pl \o zq \in Seq(Tokens)
          BY ONLY <2>1, <4>3, ConcatProperties
        <4>5. <<>> \o (pl \o zq) = pl \o zq
          BY ONLY <4>4, ConcatEmptySeq
        <4> QED BY ONLY <1>1, <2>3, <2>5, <4>1, <4>2, <4>5, Zenon DEF Associate, lzq
      <3>2. pl \in Seq(Tokens) /\ <<>> \in Seq(Tokens) /\ EndsLine(<<>>)
        BY DEF EndsLine
      <3>3. Strip(pl) = Strip(l)
        BY <1>1, StripAround
      <3> HIDE DEF pl
      <3>4. ~IsCommand(pl)
        BY ONLY <2>1, <3>1, <3>2, NoCommand(text), Zenon DEF NoCommand
      <3> QED BY <3>3, <3>4 DEF IsCommand
    <2>6. CASE a # <<>>
      <3> DEFINE pa == p \o a
      <3>1. text = pa \o (l \o zq)
        <4>1. Associate(p, a, lzq)
          BY <2>4, AnyAssociate
        <4> QED BY ONLY <1>1, <2>3, <4>1, Zenon DEF Associate, lzq
      <3>2. pa \in Seq(Tokens) /\ EndsLine(pa)
        <4>1. pa[Len(pa)] = a[Len(a)]
          BY <2>6
        <4> QED BY <1>2, <2>6, <4>1 DEF EndsLine
      <3> HIDE DEF pa
      <3> QED BY ONLY <2>1, <3>1, <3>2, NoCommand(text), l \in Seq(Tokens), Zenon DEF NoCommand
    <2> QED BY <2>5, <2>6
  <1> QED BY ONLY <1>1, <1>2, Zenon DEF NoCommand

\* Nor is one in what follows the end of a line.
LEMMA NoCommandAfter ==
    ASSUME NEW u \in Seq(Tokens), NEW v \in Seq(Tokens), EndsLine(u), NoCommand(u \o v)
    PROVE  NoCommand(v)
  <1>1. ASSUME NEW a \in Seq(Tokens), NEW l \in Seq(Tokens), NEW z \in Seq(Tokens),
               v = a \o (l \o z), EndsLine(a)
        PROVE  ~IsCommand(l)
    <2> DEFINE lz == l \o z
               ua == u \o a
    <2>1. lz \in Seq(Tokens) /\ ua \in Seq(Tokens)
      OBVIOUS
    <2>2. Associate(u, a, lz)
      BY <2>1, AnyAssociate
    <2>3. u \o v = ua \o (l \o z)
      BY ONLY <1>1, <2>2, Zenon DEF Associate
    <2>4. EndsLine(ua)
      <3>1. CASE a = <<>>
        <4>1. u \o <<>> = u
          OBVIOUS
        <4> QED BY ONLY <3>1, <4>1, EndsLine(u), Zenon
      <3>2. CASE a # <<>>
        <4>1. ua[Len(ua)] = a[Len(a)]
          BY <3>2
        <4> QED BY <1>1, <3>2, <4>1 DEF EndsLine
      <3> QED BY <3>1, <3>2
    <2> HIDE DEF ua
    <2> QED BY ONLY <2>1, <2>3, <2>4, NoCommand(u \o v), l \in Seq(Tokens), z \in Seq(Tokens),
                    Zenon DEF NoCommand
  <1> QED BY <1>1 DEF NoCommand

LEMMA NoCommandEmpty == NoCommand(<<>>)
  <1>1. ASSUME NEW a \in Seq(Tokens), NEW l \in Seq(Tokens), NEW z \in Seq(Tokens),
               <<>> = a \o (l \o z)
        PROVE  ~IsCommand(l)
    <2>1. l = <<>>
      <3>1. Len(a \o (l \o z)) = Len(a) + Len(l) + Len(z)
            /\ Len(a) \in Nat /\ Len(l) \in Nat /\ Len(z) \in Nat
        BY ThreeParts
      <3>2. Len(a \o (l \o z)) = 0
        BY ONLY <1>1, EmptySeq
      <3>3. Len(l) = 0
        BY ONLY <3>1, <3>2
      <3> QED BY <3>3
    <2>2. Strip(<<>>) = <<>>
      BY DEF Strip
    <2>3. Len(<<>>) # 1
      OBVIOUS
    <2> QED BY <2>1, <2>2, <2>3 DEF IsCommand
  <1> QED BY <1>1 DEF NoCommand

\* The DELIMITER command that is found is the first.
LEMMA LeftmostCommand ==
    ASSUME NEW S, sql \in Seq(S), Commands # {}
    PROVE  /\ First(Commands) \in Commands
           /\ \A n \in Commands : First(Commands)[1] <= n[1]
  <1> DEFINE starts == {m[1] : m \in Commands}
  <1>1. starts \in SUBSET Nat /\ starts # {}
    BY DEF Commands
  <1>2. PICK first \in starts : \A n \in starts : first <= n
    <2> HIDE DEF starts
    <2> QED BY <1>1, LeastNumber
  <1>3. \E m \in Commands : \A n \in Commands : m[1] <= n[1]
    BY <1>2
  <1> QED BY <1>3 DEF First

\* The delimiter that is found is the first.
LEMMA LeftmostEnder ==
    ASSUME NEW S, NEW D, block \in Seq(S), delimiter \in Seq(D), Enders # {}
    PROVE  Ender \in Enders /\ \A n \in Enders : Ender[1] <= n[1]
  <1> DEFINE ld == Len(delimiter)
             starts == {m[1] : m \in Enders}
  <1>1. Len(block) \in Nat /\ ld \in Nat
    OBVIOUS
  <1>2. \A m \in Enders : m[1] \in 1 .. Len(block) + 1 - ld /\ m[2] \in 1 .. Len(block)
    BY DEF Enders, DelimitersAt
  <1>3. starts \in SUBSET Nat /\ starts # {}
    BY <1>1, <1>2
  <1>4. PICK a \in starts : \A n \in starts : a <= n
    <2> HIDE DEF starts
    <2> QED BY <1>3, LeastNumber
  <1> DEFINE ends == {m[2] : m \in {n \in Enders : n[1] = a}}
  <1>5. ends \in SUBSET (0 .. Len(block)) /\ ends # {}
    BY <1>2, <1>4
  <1>6. PICK b \in ends : \A n \in ends : n <= b
    <2> HIDE DEF ends
    <2> QED BY <1>1, <1>5, GreatestNumber
  <1>7. PICK m \in Enders : m[1] = a /\ m[2] = b
    BY <1>6
  <1>8. \A n \in Enders : m[1] < n[1] \/ (m[1] = n[1] /\ m[2] >= n[2])
    <2> TAKE n \in Enders
    <2>1. a <= n[1] /\ (n[1] = a => n[2] <= b)
      BY <1>4, <1>6
    <2>2. a \in Nat /\ b \in Nat /\ n[1] \in Nat /\ n[2] \in Nat
      BY <1>1, <1>2, <1>7
    <2> QED BY <1>7, <2>1, <2>2
  <1>9. /\ Ender \in Enders
        /\ \A n \in Enders : Ender[1] < n[1] \/ (Ender[1] = n[1] /\ Ender[2] >= n[2])
    <2> HIDE DEF ends
    <2> QED BY <1>8 DEF Ender
  <1>10. \A n \in Enders : n[1] \in Nat
    BY <1>1, <1>2
  <1> QED BY <1>9, <1>10

\* Where a line ends with the delimiter, the code finds it, or one before.
LEMMA EnderThere ==
    ASSUME block \in Seq(Tokens), delimiter \in Delims,
           NEW a \in Seq(Tokens), NEW l \in Seq(Tokens), NEW z \in Seq(Tokens),
           block = a \o (l \o z), StartsLine(z), IsSuffix(delimiter, Strip(l))
    PROVE  \E m \in Enders : m[1] + Len(delimiter) - 1 <= Len(a) + Len(l)
  <1>1. PICK p, s, q \in Seq(Tokens) :
              /\ l = p \o (s \o q) /\ Strip(l) = s
              /\ IsBlank(p) /\ IsBlank(q) /\ Trimmed(s)
    BY StripParts
  <1> DEFINE la == Len(a)
             lp == Len(p)
             ls == Len(s)
             lq == Len(q)
             ld == Len(delimiter)
             m1 == la + lp + (ls - ld) + 1
             m2 == IF z = <<>> THEN Len(block) ELSE la + Len(l) + 1
  <1>2. /\ la \in Nat /\ lp \in Nat /\ ls \in Nat /\ lq \in Nat
        /\ Len(l) = lp + ls + lq
        /\ \A i \in 1 .. ls : l[lp + i] = s[i]
        /\ \A i \in 1 .. lq : l[lp + ls + i] = q[i]
    BY <1>1, ThreeParts
  <1>3. /\ Len(block) = la + Len(l) + Len(z) /\ Len(z) \in Nat
        /\ \A i \in 1 .. Len(l) : block[la + i] = l[i]
        /\ \A i \in 1 .. Len(z) : block[la + Len(l) + i] = z[i]
    BY ThreeParts
  <1>4. delimiter \in Seq(Tokens \cup {";"}) /\ delimiter # <<>>
    BY DEF Delims, IsDelimiter
  <1>5. /\ ld \in Nat /\ ld > 0 /\ ld <= ls
        /\ \A i \in 1 .. ld : s[ls - ld + i] = delimiter[i]
    <2>1. ld \in Nat /\ ld # 0
      BY ONLY <1>4, LenProperties, EmptySeq
    <2>2. IsSuffix(delimiter, s) /\ s \in Seq(Tokens)
      BY <1>1
    <2>3. ld <= ls /\ \A i \in 1 .. ld : s[ls - ld + i] = delimiter[i]
      <3> DEFINE T == Tokens \cup {";"}
      <3>1. delimiter \in Seq(T)
        BY <1>4
      <3> HIDE DEF T
      <3> QED BY <2>2, <3>1, SuffixOf
    <2> QED BY <2>1, <2>3
  <1>6. z = <<>> => Len(z) = 0
    OBVIOUS
  <1>7. z # <<>> => 1 \in 1 .. Len(z) /\ z[1] = Newline
    BY DEF StartsLine
  <1> HIDE DEF la, lp, ls, lq, ld
  <1>8. /\ m1 \in 1 .. Len(block) + 1 - ld /\ m1 + ld - 1 <= m2
        /\ m2 \in 1 .. Len(block)
        /\ m1 + ld - 1 <= la + Len(l)
    <2> DEFINE lb == Len(block)
               ll == Len(l)
               lz == Len(z)
    <2>1. /\ la \in Nat /\ lp \in Nat /\ ls \in Nat /\ lq \in Nat /\ ld \in Nat
          /\ lz \in Nat /\ ll = lp + ls + lq /\ lb = la + ll + lz /\ ld > 0 /\ ld <= ls
          /\ m2 = lb \/ (m2 = la + ll + 1 /\ lz >= 1)
      BY <1>2, <1>3, <1>5, <1>7
    <2> HIDE DEF lb, ll, lz, m2
    <2>2. /\ m1 \in 1 .. lb + 1 - ld /\ m1 + ld - 1 <= m2 /\ m2 \in 1 .. lb
          /\ m1 + ld - 1 <= la + ll
      BY ONLY <2>1
    <2> QED BY ONLY <2>2 DEF lb, ll
  <1>9. SubSeq(block, m1, m1 + ld - 1) = delimiter
    <2> DEFINE t == SubSeq(block, m1, m1 + ld - 1)
    <2>1. t \in Seq(Tokens) /\ Len(t) = ld
          /\ \A i \in 1 .. ld : t[i] = block[m1 + i - 1]
      <3> DEFINE e == m1 + ld - 1
      <3> HIDE DEF m1, m2
      <3>1. /\ m1 \in 1 .. Len(block) /\ e \in 1 .. Len(block) /\ e - m1 + 1 = ld
            /\ m1 <= e
        BY <1>5, <1>8
      <3> HIDE DEF e
      <3>2. LET u == SubSeq(block, m1, e) IN
            /\ u \in Seq(Tokens) /\ Len(u) = e - m1 + 1
            /\ \A i \in 1 .. e - m1 + 1 : u[i] = block[m1 + i - 1]
        BY ONLY <3>1, block \in Seq(Tokens), WithinText
      <3> QED BY ONLY <3>1, <3>2 DEF e
    <2>2. ASSUME NEW i \in 1 .. ld PROVE t[i] = delimiter[i]
      <3>1. t[i] = block[m1 + i - 1]
        <4> HIDE DEF t, m1, m2
        <4> QED BY ONLY <2>1, <2>2
      <3> PICK j : j = lp + (ls - ld + i)
        OBVIOUS
      <3> PICK k : k = ls - ld + i
        OBVIOUS
      <3>2. m1 + i - 1 = la + j /\ j \in 1 .. Len(l) /\ k \in 1 .. ls /\ j = lp + k
        BY <1>2, <1>5
      <3>3. block[la + j] = l[j] /\ l[lp + k] = s[k] /\ s[k] = delimiter[i]
        BY <1>2, <1>3, <1>5, <3>2
      <3> QED BY <3>1, <3>2, <3>3
    <2>3. delimiter \in Seq(Tokens \cup {";"}) /\ Len(delimiter) = ld
      BY <1>4 DEF ld
    <2>4. t \in Seq(Tokens \cup {";"})
      <3> HIDE DEF t
      <3> QED BY <2>1, SeqMonotonic
    <2> HIDE DEF t
    <2>5. t = delimiter
      BY <2>1, <2>2, <2>3, <2>4, SeqEqual
    <2> QED BY <2>5 DEF t
  <1>10. IsBlank(SubSeq(block, m1 + ld, m2))
    <2> DEFINE first == m1 + ld
               t == SubSeq(block, first, m2)
               lb == Len(block)
               ll == Len(l)
               lz == Len(z)
    <2> HIDE DEF lb, ll, lz
    <2>1. ASSUME NEW i \in DOMAIN t PROVE t[i] \in Space
      <3>1. first = la + lp + ls + 1 /\ first \in 1 .. lb + 1
        <4>1. /\ la \in Nat /\ lp \in Nat /\ ls \in Nat /\ lq \in Nat /\ ld \in Nat /\ lz \in Nat
              /\ ll = lp + ls + lq /\ lb = la + ll + lz
          BY <1>2, <1>3, <1>5 DEF lb, ll, lz
        <4> QED BY ONLY <4>1
      <3>2. i \in 1 .. m2 - first + 1 /\ t[i] = block[first + i - 1]
        <4>1. m2 \in 1 .. lb /\ first \in 1 .. lb + 1 /\ lb \in Nat /\ block \in Seq(Tokens)
              /\ lb = Len(block)
          BY <1>3, <1>8, <3>1 DEF lb
        <4> HIDE DEF first, m2
        <4>2. first \in Int /\ m2 \in Int /\ \A n \in first .. m2 : block[n] \in Tokens
          BY ONLY <4>1
        <4>3. /\ t \in Seq(Tokens)
              /\ Len(t) = IF first <= m2 THEN m2 - first + 1 ELSE 0
              /\ \A n \in 1 .. m2 - first + 1 : t[n] = block[first + n - 1]
          BY ONLY <4>2, SubSeqProperties
        <4> HIDE DEF t
        <4>4. i \in 1 .. Len(t)
          BY ONLY <2>1, <4>3
        <4>5. i \in 1 .. m2 - first + 1
          <5> PICK n : n = Len(t)
            OBVIOUS
          <5> QED BY ONLY <4>2, <4>3, <4>4, n = Len(t)
        <4> QED BY ONLY <4>3, <4>5
      <3> HIDE DEF t, first
      <3>20. m2 = IF z = <<>> THEN lb ELSE la + ll + 1
        BY DEF lb, ll
      <3> PICK j : j = lp + ls + i
        OBVIOUS
      <3>3. first + i - 1 = la + j /\ i \in Int
        <4>1. i \in Int /\ la \in Nat /\ lp \in Nat /\ ls \in Nat
          BY <1>2, <3>2
        <4>2. first = la + lp + ls + 1 /\ j = lp + ls + i
          BY <3>1
        <4> QED BY ONLY <4>1, <4>2
      <3>4. CASE i \in 1 .. lq
        <4>1. j \in 1 .. Len(l)
          <5> HIDE DEF m2
          <5> QED BY ONLY <1>2, <3>2, <3>4, j = lp + ls + i
        <4>2. block[la + j] = l[j] /\ l[j] = q[i]
          BY <1>2, <1>3, <3>4, <4>1
        <4>3. q[i] \in Space
          BY <1>1, <3>4 DEF IsBlank, lq
        <4> QED BY <3>2, <3>3, <4>2, <4>3
      <3>5. CASE i \notin 1 .. lq
        <4>1. z # <<>> /\ la + j = la + Len(l) + 1
          <5>1. /\ la \in Nat /\ lp \in Nat /\ ls \in Nat /\ lq \in Nat /\ lz \in Nat
                /\ ll = lp + ls + lq /\ lb = la + ll + lz /\ (z = <<>> => lz = 0)
            BY <1>2, <1>3, <1>6 DEF lb, ll, lz
          <5>2. /\ m2 = (IF z = <<>> THEN lb ELSE la + ll + 1)
                /\ i \in 1 .. m2 - first + 1 /\ first = la + lp + ls + 1
                /\ i \notin 1 .. lq /\ j = lp + ls + i
            BY <3>1, <3>2, <3>20, <3>5
          <5> HIDE DEF m2
          <5>3. z # <<>>
            <6> SUFFICES ASSUME z = <<>> PROVE FALSE
              OBVIOUS
            <6>1. m2 = lb /\ lz = 0
              BY <5>1, <5>2
            <6> QED BY ONLY <3>3, <5>1, <5>2, <6>1
          <5>4. m2 = la + ll + 1
            BY <5>2, <5>3
          <5>5. i = lq + 1
            <6>1. m2 - first + 1 = lq + 1
              BY ONLY <5>1, <5>2, <5>4
            <6>2. i \in 1 .. lq + 1
              BY <5>2, <6>1
            <6> QED BY ONLY <5>1, <5>2, <6>2
          <5>6. la + j = la + ll + 1
            BY ONLY <5>1, <5>2, <5>5
          <5> QED BY <5>3, <5>6 DEF ll
        <4>2. block[la + Len(l) + 1] = Newline
          BY <1>3, <1>7, <4>1
        <4> QED BY <3>2, <3>3, <4>1, <4>2 DEF Space
      <3> QED BY <3>4, <3>5
    <2> HIDE DEF t
    <2>2. IsBlank(t)
      BY <2>1 DEF IsBlank
    <2> QED BY <2>2 DEF t
  <1>11. m2 = Len(block) \/ block[m2] = Newline
    BY <1>3, <1>7
  <1>12. DOMAIN block = 1 .. Len(block)
    OBVIOUS
  <1> HIDE DEF m1, m2
  <1>13. m1 \in DelimitersAt
    BY <1>8, <1>9 DEF DelimitersAt, ld
  <1>14. <<m1, m2>> \in Enders
    BY <1>8, <1>10, <1>11, <1>12, <1>13 DEF Enders, Delimited, ld
  <1>15. m1 + Len(delimiter) - 1 <= Len(a) + Len(l)
    BY <1>8 DEF ld, la
  <1> QED BY <1>14, <1>15

\* The text, with a line end added, is a, the line l and z.
EndsWith(text, a, l, z) == text \o <<Newline>> = a \o (l \o (<<Newline>> \o z))

\* A line that ends in a text, to the end of which a line end was added.
LEMMA WithoutNewline ==
    ASSUME NEW text \in Seq(Tokens), NEW a \in Seq(Tokens), NEW l \in Seq(Tokens),
           NEW z \in Seq(Tokens), EndsWith(text, a, l, z)
    PROVE  \E y \in Seq(Tokens) : text = a \o (l \o y) /\ StartsLine(y)
  <1> DEFINE nl == <<Newline>>
             t == text \o nl
             nz == nl \o z
             y == SubSeq(nz, 1, Len(z))
             u == a \o (l \o y)
  <1>1. nl \in Seq(Tokens) /\ Len(nl) = 1 /\ nl[1] = Newline
    BY ScriptsAssumption
  <1>2. nz \in Seq(Tokens) /\ Len(nz) = Len(z) + 1 /\ Len(z) \in Nat /\ nz[1] = Newline
    BY <1>1
  <1>3. /\ Len(t) = Len(text) + 1 /\ Len(text) \in Nat
        /\ \A i \in 1 .. Len(text) : t[i] = text[i]
    BY <1>1
  <1> HIDE DEF nl, nz, t
  <1>4. t = a \o (l \o nz)
    BY DEF EndsWith, t, nz, nl
  <1>5. y \in Seq(Tokens) /\ Len(y) = Len(z) /\ \A i \in 1 .. Len(z) : y[i] = nz[i]
    BY <1>2
  <1> HIDE DEF y
  <1>6. /\ Len(t) = Len(a) + Len(l) + Len(nz) /\ Len(a) \in Nat /\ Len(l) \in Nat
        /\ \A i \in 1 .. Len(a) : t[i] = a[i]
        /\ \A i \in 1 .. Len(l) : t[Len(a) + i] = l[i]
        /\ \A i \in 1 .. Len(nz) : t[Len(a) + Len(l) + i] = nz[i]
    <2>1. nz \in Seq(Tokens)
      BY <1>2
    <2>2. LET s == a \o (l \o nz) IN
          /\ Len(s) = Len(a) + Len(l) + Len(nz) /\ Len(a) \in Nat /\ Len(l) \in Nat
          /\ \A i \in 1 .. Len(a) : s[i] = a[i]
          /\ \A i \in 1 .. Len(l) : s[Len(a) + i] = l[i]
          /\ \A i \in 1 .. Len(nz) : s[Len(a) + Len(l) + i] = nz[i]
      BY ONLY <2>1, a \in Seq(Tokens), l \in Seq(Tokens), ThreeParts
    <2> QED BY ONLY <1>4, <2>2, Zenon
  <1>7. /\ u \in Seq(Tokens) /\ Len(u) = Len(a) + Len(l) + Len(y)
        /\ \A i \in 1 .. Len(a) : u[i] = a[i]
        /\ \A i \in 1 .. Len(l) : u[Len(a) + i] = l[i]
        /\ \A i \in 1 .. Len(y) : u[Len(a) + Len(l) + i] = y[i]
    <2>1. y \in Seq(Tokens)
      BY <1>5
    <2> QED BY ONLY <2>1, a \in Seq(Tokens), l \in Seq(Tokens), ThreeParts
  <1> HIDE DEF u
  <1>8. Len(u) = Len(text)
    BY <1>2, <1>3, <1>5, <1>6, <1>7
  <1>9. ASSUME NEW i \in 1 .. Len(u) PROVE u[i] = text[i]
    <2>1. t[i] = text[i]
      BY <1>3, <1>8
    <2>2. CASE i \in 1 .. Len(a)
      BY <1>6, <1>7, <2>1, <2>2
    <2>3. CASE i \in Len(a) + 1 .. Len(a) + Len(l)
      <3> PICK j : j = i - Len(a)
        OBVIOUS
      <3>1. j \in 1 .. Len(l) /\ i = Len(a) + j
        BY <1>6, <2>3
      <3>2. u[i] = l[j] /\ t[i] = l[j]
        BY <1>6, <1>7, <3>1
      <3> QED BY ONLY <2>1, <3>2
    <2>4. CASE i \in Len(a) + Len(l) + 1 .. Len(u)
      <3> PICK j : j = i - (Len(a) + Len(l))
        OBVIOUS
      <3>1. j \in 1 .. Len(y) /\ j \in 1 .. Len(nz) /\ i = Len(a) + Len(l) + j
        BY <1>2, <1>5, <1>6, <1>7, <2>4
      <3>2. u[i] = y[j] /\ t[i] = nz[j] /\ y[j] = nz[j]
        BY ONLY <1>5, <1>6, <1>7, <3>1
      <3> QED BY ONLY <2>1, <3>2
    <2> QED BY <1>6, <1>7, <2>2, <2>3, <2>4
  <1>10. text = u
    BY <1>7, <1>8, <1>9, SeqEqual
  <1>11. StartsLine(y)
    <2>1. CASE Len(z) = 0
      BY <1>5, <2>1 DEF StartsLine
    <2>2. CASE Len(z) # 0
      <3>1. 1 \in 1 .. Len(z)
        BY <1>2, <2>2
      <3> QED BY <1>2, <1>5, <3>1 DEF StartsLine
    <2> QED BY <2>1, <2>2
  <1> QED BY <1>5, <1>10, <1>11 DEF u

-----------------------------------------------------------------------------
(* Lines that end a statement or change the delimiter.                     *)

\* A delimiter after the start of a line.
LEMMA EndingLine ==
    ASSUME NEW l \in Seq(Tokens), NEW d \in Seq(Tokens), IsDelimiter(d)
    PROVE  \E y \in Seq(Tokens) : Strip(l \o d) = y \o d /\ Words(y) = Words(l)
  <1>1. PICK p, c, q \in Seq(Tokens) :
              /\ l = p \o (c \o q) /\ IsBlank(p) /\ IsBlank(q) /\ Trimmed(c)
    BY StripParts
  <1>2. <<>> \in Seq(Tokens) /\ IsBlank(<<>>)
    BY DEF IsBlank
  <1>3. d # <<>> /\ Trimmed(d) /\ Len(d) \in 1 .. Len(d) /\ d[Len(d)] \notin Space
    BY DEF IsDelimiter, Trimmed
  <1>4. CASE c = <<>>
    <2>1. l = p \o q
      <3>1. c \o q = q
        BY <1>4, ConcatEmptySeq
      <3> QED BY ONLY <1>1, <3>1, Zenon
    <2>2. IsBlank(l)
      BY <1>1, <2>1, BlankParts
    <2>3. Strip(l \o d) = Strip(d)
      BY <2>2, StripAround
    <2>4. Strip(d) = <<>> \o d
      <3>1. Strip(<<>> \o (d \o <<>>)) = d
        BY ONLY <1>2, <1>3, d \in Seq(Tokens), StripIs
      <3>2. d \o <<>> = d /\ <<>> \o d = d
        BY ConcatEmptySeq
      <3> QED BY ONLY <3>1, <3>2, Zenon
    <2>5. Words(l) = <<>> /\ Words(<<>>) = <<>>
      BY <1>2, <2>2, WordsBlank
    <2> QED BY <1>2, <2>3, <2>4, <2>5
  <1>5. CASE c # <<>>
    <2> DEFINE y == c \o q
               yd == y \o d
    <2>1. y \in Seq(Tokens) /\ y # <<>> /\ y[1] = c[1] /\ c[1] \notin Space
      BY <1>1, <1>5 DEF Trimmed
    <2> HIDE DEF y
    <2>2. /\ yd \in Seq(Tokens)
          /\ yd[1] = y[1] /\ yd[Len(yd)] = d[Len(d)]
      BY <1>3, <2>1
    <2> HIDE DEF yd
    <2>3. Trimmed(yd)
      BY <1>3, <2>1, <2>2 DEF Trimmed
    <2>4. Strip(p \o (yd \o <<>>)) = yd
      BY ONLY <1>1, <1>2, <2>2, <2>3, p \in Seq(Tokens), StripIs
    <2>5. yd \o <<>> = yd
      BY ONLY <2>2, ConcatEmptySeq
    <2>6. l \o d = p \o yd
      <3>1. Associate(p, y, d)
        BY <2>1, AnyAssociate
      <3> QED BY ONLY <1>1, <3>1, Zenon DEF Associate, yd, y
    <2>7. Strip(l \o d) = y \o d
      BY ONLY <2>4, <2>5, <2>6, Zenon DEF yd
    <2>8. Words(l) = Words(y)
      <3>1. Words(p \o y) = Words(p) \o Words(y)
        BY <2>1, WordsConcat
      <3>2. Words(p) = <<>> /\ Words(y) \in Seq(Tokens)
        BY <1>1, <2>1, WordsBlank, WordsType
      <3>3. <<>> \o Words(y) = Words(y)
        BY ONLY <3>2, ConcatEmptySeq
      <3> QED BY ONLY <1>1, <3>1, <3>2, <3>3, Zenon DEF y
    <2> QED BY <2>1, <2>7, <2>8
  <1> QED BY <1>4, <1>5

\* The statement that such a line ends has the words before the delimiter.
LEMMA EndingReads ==
    ASSUME NEW r \in Readers, NEW l \in Seq(Tokens), NEW d \in Seq(Tokens),
           d = r.ender, r.ender # r.whole, ~IsCommand(l \o d)
    PROVE  ReadLine(r, l \o d) =
             Reader(Flushed(r, r.pending \o Words(l)), <<>>, r.ender, r.whole)
  <1>1. IsDelimiter(d)
    BY ReaderType
  <1>2. PICK y \in Seq(Tokens) : Strip(l \o d) = y \o d /\ Words(y) = Words(l)
    BY <1>1, EndingLine
  <1>3. IsSuffix(d, y \o d) /\ SubSeq(y \o d, 1, Len(y \o d) - Len(d)) = y
    BY OfSuffix
  <1> DEFINE ld == l \o d
  <1>4. Strip(ld) = y \o d /\ ~IsCommand(ld)
    BY <1>2
  <1> HIDE DEF ld
  <1>5. IsEnding(r, ld)
    BY <1>3, <1>4 DEF IsEnding
  <1>6. ReadLine(r, ld) =
             Reader(Flushed(r, r.pending \o
                              Words(SubSeq(Strip(ld), 1, Len(Strip(ld)) - Len(r.ender)))),
                    <<>>, r.ender, r.whole)
    BY <1>4, <1>5, ReadEnding
  <1>7. ReadLine(r, ld) = Reader(Flushed(r, r.pending \o Words(l)), <<>>, r.ender, r.whole)
    BY ONLY <1>2, <1>3, <1>4, <1>6, d = r.ender, Zenon
  <1> QED BY <1>7 DEF ld

\* A command alone is a command line.
LEMMA CommandLine ==
    ASSUME NEW c \in Tokens, c \in DOMAIN argument
    PROVE  <<c>> \in Seq(Tokens) /\ Strip(<<c>>) = <<c>> /\ IsCommand(<<c>>)
  <1>1. c \notin Space
    BY DelimitersAssumption
  <1> DEFINE s == <<c>>
  <1>2. s \in Seq(Tokens) /\ Len(s) = 1 /\ s[1] = c /\ <<>> \in Seq(Tokens) /\ IsBlank(<<>>)
    BY DEF IsBlank
  <1> HIDE DEF s
  <1>3. Trimmed(s)
    BY <1>1, <1>2 DEF Trimmed
  <1>4. Strip(<<>> \o (s \o <<>>)) = s
    BY ONLY <1>2, <1>3, StripIs
  <1>5. s \o <<>> = s /\ <<>> \o s = s
    BY ONLY <1>2, ConcatEmptySeq
  <1>6. Strip(s) = s
    BY ONLY <1>4, <1>5, Zenon
  <1>7. IsCommand(s)
    BY <1>2, <1>6 DEF IsCommand
  <1> QED BY <1>2, <1>6, <1>7 DEF s

\* Where a line ends it makes no difference if it was ended before.
LEMMA StartsReads ==
    ASSUME NEW at \in Places, NEW u \in Seq(Tokens), StartsLine(u)
    PROVE  End(Read(at, u)) = End(Read(At(Finished(at), <<>>), u))
  <1> DEFINE f == Finished(at)
             start == At(f, <<>>)
  <1>1. f \in Readers /\ start \in Places /\ End(at) = Flushed(f, f.pending)
    BY FinishedType
  <1>2. Finished(start) = f
    BY <1>1, FinishedStart
  <1> HIDE DEF f, start
  <1>3. CASE u = <<>>
    <2>1. Read(at, <<>>) = at /\ Read(start, <<>>) = start
      BY <1>1, ReadNothing
    <2>2. End(start) = Flushed(f, f.pending)
      BY <1>1, <1>2, FinishedType
    <2>3. End(Read(at, u)) = End(Read(start, u))
      BY ONLY <1>1, <1>3, <2>1, <2>2, Zenon
    <2> QED BY <2>3 DEF start, f
  <1>4. CASE u # <<>>
    <2> DEFINE nl == <<Newline>>
               v == SubSeq(u, 2, Len(u))
    <2>1. u = nl \o v /\ v \in Seq(Tokens)
      <3>1. 1 \in 1 .. Len(u) /\ Len(u) \in 1 .. Len(u) /\ u[1] = Newline
        BY <1>4 DEF StartsLine
      <3>2. SubSeq(u, 1, Len(u)) = <<u[1]>> \o SubSeq(u, 1 + 1, Len(u))
        BY <3>1, SubSeqRecursiveFirst
      <3>3. SubSeq(u, 1, Len(u)) = u
        BY SubSeqFull
      <3>4. 1 + 1 = 2
        OBVIOUS
      <3>5. u = nl \o v
        BY ONLY <3>1, <3>2, <3>3, <3>4, Zenon
      <3>6. v \in Seq(Tokens)
        BY <3>1
      <3> QED BY ONLY <3>5, <3>6, Zenon
    <2>2. /\ nl \in Seq(Tokens)
          /\ Read(at, nl) = start /\ Read(start, nl) = start
      BY <1>1, <1>2, ReadNewline DEF start, f
    <2> HIDE DEF nl, v
    <2>3. /\ Read(at, nl \o v) = Read(Read(at, nl), v)
          /\ Read(start, nl \o v) = Read(Read(start, nl), v)
      BY <1>1, <2>1, <2>2, ReadConcat
    <2>4. Read(at, u) = Read(start, u)
      BY ONLY <2>1, <2>2, <2>3, Zenon
    <2> QED BY <2>4 DEF start, f
  <1> QED BY <1>3, <1>4

\* A DELIMITER command is read as a statement of its own, and changes the
\* delimiter.
LEMMA CommandReads ==
    ASSUME NEW r \in Readers, NEW c \in Tokens, c \in DOMAIN argument,
           NEW u \in Seq(Tokens), StartsLine(u)
    PROVE  LET next == Reader(Append(Flushed(r, r.pending), <<c>>), <<>>,
                              argument[c], r.whole) IN
           End(Read(At(r, <<>>), <<c>> \o u)) = End(Read(At(next, <<>>), u))
  <1> DEFINE next == Reader(Append(Flushed(r, r.pending), <<c>>), <<>>, argument[c], r.whole)
             at == At(r, <<>>)
             line == <<c>>
             then == At(r, line)
  <1>1. line \in Seq(Tokens) /\ Strip(line) = line /\ IsCommand(line)
    BY CommandLine
  <1>2. line[1] = c
    OBVIOUS
  <1>3. ReadLine(r, line) = next
    <2> HIDE DEF line
    <2>1. ReadLine(r, line) = Reader(Append(Flushed(r, r.pending), Strip(line)), <<>>,
                                     argument[Strip(line)[1]], r.whole)
      BY <1>1, ReadCommand
    <2> QED BY ONLY <1>1, <1>2, <2>1, Zenon DEF next, line
  <1>4. at \in Places /\ at.reader = r /\ at.line = <<>>
    <2>1. at \in Places
      BY FinishedStart
    <2> QED BY <2>1 DEF At
  <1>5. Read(at, line) = then
    <2>1. Read(at, line) = ReadToken(at, c)
      BY <1>4, ReadOne
    <2>2. c # Newline
      BY DelimitersAssumption DEF Space
    <2>3. ReadToken(at, c) = At(r, Append(<<>>, c))
      <3> HIDE DEF at
      <3> QED BY <1>4, <2>2 DEF ReadToken
    <2>4. Append(<<>>, c) = line
      OBVIOUS
    <2> QED BY <2>1, <2>3, <2>4
  <1> HIDE DEF line, next, at
  <1>6. then \in Places /\ Finished(then) = next
    BY <1>1, <1>3, AtType, FinishedAt
  <1>7. Read(at, line \o u) = Read(Read(at, line), u)
    BY <1>1, <1>4, ReadConcat
  <1> HIDE DEF then
  <1>8. End(Read(then, u)) = End(Read(At(Finished(then), <<>>), u))
    BY <1>6, StartsReads
  <1>9. End(Read(at, line \o u)) = End(Read(At(next, <<>>), u))
    BY ONLY <1>5, <1>6, <1>7, <1>8, Zenon
  <1> QED BY <1>9 DEF at, line, next

-----------------------------------------------------------------------------
(* What was yielded, as statements.                                        *)

LEMMA WithoutOne ==
    ASSUME NEW S, NEW x \in S, NEW D
    PROVE  Without(<<x>>, D) = IF x \in D THEN <<>> ELSE <<x>>
  <1> DEFINE s == <<x>>
             k == WithoutUpTo(s, D)
  <1>1. s \in Seq(S) /\ Len(s) = 1 /\ s[1] = x /\ 1 \in 1 .. 1
    OBVIOUS
  <1> HIDE DEF s
  <1>2. /\ k[0] = <<>>
        /\ \A n \in 1 .. 1 : k[n] = IF s[n] \in D THEN k[n - 1] ELSE Append(k[n - 1], s[n])
    BY <1>1, WithoutFacts
  <1> HIDE DEF k
  <1>3. k[1] = IF s[1] \in D THEN k[1 - 1] ELSE Append(k[1 - 1], s[1])
    BY ONLY <1>1, <1>2, Zenon
  <1>4. 1 - 1 = 0 /\ Append(<<>>, x) = <<x>>
    OBVIOUS
  <1>5. k[1] = IF x \in D THEN <<>> ELSE <<x>>
    BY <1>1, <1>2, <1>3, <1>4
  <1> QED BY <1>1, <1>5 DEF Without, k, s

\* What Statements is, of any texts.
StatementsOf(texts) == Without([i \in DOMAIN texts |-> Words(texts[i])], {<<>>})

LEMMA StatementsType ==
    ASSUME NEW y \in Seq(Seq(Tokens))
    PROVE  /\ [i \in DOMAIN y |-> Words(y[i])] \in Seq(Seq(Tokens))
           /\ StatementsOf(y) \in Seq(Seq(Tokens))
  <1> DEFINE m == [i \in DOMAIN y |-> Words(y[i])]
  <1>1. DOMAIN y = 1 .. Len(y) /\ Len(y) \in Nat /\ \A i \in 1 .. Len(y) : y[i] \in Seq(Tokens)
    OBVIOUS
  <1>2. \A i \in 1 .. Len(y) : Words(y[i]) \in Seq(Tokens)
    BY <1>1, WordsType
  <1>3. m \in [1 .. Len(y) -> Seq(Tokens)]
    BY <1>1, <1>2
  <1>4. m \in Seq(Seq(Tokens))
    <2> DEFINE T == Seq(Tokens)
    <2>1. m \in [1 .. Len(y) -> T]
      BY <1>3
    <2>2. Len(y) \in Nat
      BY <1>1
    <2> HIDE DEF m, T
    <2>3. m \in Seq(T)
      <3> PICK n : n = Len(y)
        OBVIOUS
      <3>1. n \in Nat /\ m \in [1 .. n -> T]
        BY ONLY <2>1, <2>2, n = Len(y), Zenon
      <3> QED BY ONLY <3>1
    <2> QED BY <2>3 DEF T
  <1> HIDE DEF m
  <1>5. Without(m, {<<>>}) \in Seq(Seq(Tokens))
    BY <1>4, WithoutType
  <1> QED BY <1>4, <1>5 DEF m, StatementsOf

\* What is yielded next is one more, unless it has no words.
LEMMA StatementsAppend ==
    ASSUME NEW y \in Seq(Seq(Tokens)), NEW x \in Seq(Tokens)
    PROVE  StatementsOf(Append(y, x)) =
             IF Words(x) = <<>> THEN StatementsOf(y) ELSE Append(StatementsOf(y), Words(x))
  <1> DEFINE ax == Append(y, x)
             wx == Words(x)
             m == [i \in DOMAIN y |-> Words(y[i])]
             n == [i \in DOMAIN ax |-> Words(ax[i])]
             none1 == {<<>>}
  <1>1. m \in Seq(Seq(Tokens)) /\ wx \in Seq(Tokens)
    BY StatementsType, WordsType
  <1>2. /\ ax \in Seq(Seq(Tokens)) /\ DOMAIN ax = 1 .. Len(y) + 1
        /\ \A i \in 1 .. Len(y) : ax[i] = y[i]
        /\ ax[Len(y) + 1] = x
        /\ DOMAIN y = 1 .. Len(y) /\ Len(y) \in Nat
    BY AppendProperties
  <1> HIDE DEF ax
  <1>3. n \in Seq(Seq(Tokens))
    BY <1>2, StatementsType
  <1>4. Len(n) = Len(y) + 1 /\ Len(m) = Len(y)
    <2> HIDE DEF m, n
    <2>1. DOMAIN n = 1 .. Len(y) + 1 /\ DOMAIN m = 1 .. Len(y)
      BY <1>2 DEF m, n
    <2> QED BY <1>1, <1>2, <1>3, <2>1
  <1>5. /\ \A i \in 1 .. Len(y) : n[i] = m[i]
        /\ n[Len(y) + 1] = wx
    <2>1. ASSUME NEW i \in 1 .. Len(y) PROVE n[i] = m[i]
      BY <1>2
    <2>2. n[Len(y) + 1] = wx
      BY <1>2
    <2> HIDE DEF m, n
    <2> QED BY <2>1, <2>2
  <1> HIDE DEF m, n, wx
  <1>6. n = m \o <<wx>>
    <2> DEFINE t == Append(m, wx)
    <2>1. /\ t \in Seq(Seq(Tokens)) /\ Len(t) = Len(y) + 1
          /\ \A i \in 1 .. Len(y) : t[i] = m[i]
          /\ t[Len(y) + 1] = wx
      BY <1>1, <1>4, AppendProperties
    <2> HIDE DEF t
    <2>2. ASSUME NEW i \in 1 .. Len(n) PROVE n[i] = t[i]
      <3>1. i \in 1 .. Len(y) \/ i = Len(y) + 1
        BY <1>2, <1>4
      <3> QED BY <1>5, <2>1, <3>1
    <2>3. n = t
      BY <1>3, <1>4, <2>1, <2>2, SeqEqual
    <2>4. t = m \o <<wx>>
      BY <1>1, AppendIsConcat DEF t
    <2> QED BY ONLY <2>3, <2>4, Zenon
  <1> HIDE DEF none1
  <1>7. Without(m \o <<wx>>, none1) = Without(m, none1) \o Without(<<wx>>, none1)
    <2> DEFINE b == <<wx>>
               S == Seq(Tokens)
    <2>1. b \in Seq(S) /\ m \in Seq(S)
      BY <1>1
    <2> HIDE DEF b, S
    <2>2. Without(m \o b, none1) = Without(m, none1) \o Without(b, none1)
      BY ONLY <2>1, WithoutConcat
    <2> QED BY <2>2 DEF b
  <1>8. Without(<<wx>>, none1) = IF wx \in none1 THEN <<>> ELSE <<wx>>
    BY ONLY <1>1, WithoutOne
  <1> DEFINE st == Without(m, none1)
  <1>9. st \in Seq(Seq(Tokens)) /\ st = StatementsOf(y)
    BY <1>1, WithoutType DEF StatementsOf, m, none1
  <1>10. StatementsOf(ax) = st \o Without(<<wx>>, none1)
    BY ONLY <1>6, <1>7, Zenon DEF StatementsOf, n, none1
  <1> HIDE DEF st
  <1>11. st \o <<>> = st /\ st \o <<wx>> = Append(st, wx)
    <2>1. st \o <<>> = st
      BY ONLY <1>9, ConcatEmptySeq
    <2>2. st \o <<wx>> = Append(st, wx)
      BY <1>1, <1>9, AppendIsConcat
    <2> QED BY <2>1, <2>2
  <1>12. CASE wx = <<>>
    <2>1. Without(<<wx>>, none1) = <<>>
      <3>1. wx \in none1
        BY <1>12 DEF none1
      <3> QED BY <1>8, <3>1
    <2>2. StatementsOf(ax) = st
      BY ONLY <1>10, <1>11, <2>1, Zenon
    <2> QED BY ONLY <1>9, <1>12, <2>2, Zenon DEF ax, wx
  <1>13. CASE wx # <<>>
    <2>1. Without(<<wx>>, none1) = <<wx>>
      <3>1. wx \notin none1
        BY <1>13 DEF none1
      <3> QED BY <1>8, <3>1
    <2>2. StatementsOf(ax) = Append(st, wx)
      BY ONLY <1>10, <1>11, <2>1, Zenon
    <2> QED BY ONLY <1>9, <1>13, <2>2, Zenon DEF ax, wx
  <1> QED BY <1>12, <1>13

-----------------------------------------------------------------------------
(* The start: the client that reads lines, and the one that reads tokens.  *)

ClientStart == Reader(<<>>, <<>>, Semicolon, ignore)

LEMMA ClientStartType ==
    ASSUME ignore \in Ignores
    PROVE  ClientStart \in Readers
  <1>1. <<>> \in Seq(Seq(Tokens)) /\ <<>> \in Seq(Tokens) /\ Semicolon \in Delims
    BY DelimitersAre
  <1> QED BY ONLY <1>1, ignore \in Ignores, ReaderIs DEF ClientStart

\* The client that reads lines, line by line.
LEMMA ClientSteps ==
    ASSUME script \in Seq(Seq(Tokens)), ignore \in Ignores
    PROVE  /\ ClientUpTo[0] = ClientStart
           /\ \A n \in 0 .. Len(script) : ClientUpTo[n] \in Readers
           /\ \A n \in 1 .. Len(script) : ClientUpTo[n] = ReadLine(ClientUpTo[n - 1], script[n])
  <1> DEFINE last == Len(script)
             step == [p \in (1 .. last) \X Readers |-> ReadLine(p[2], script[p[1]])]
             Is(f) == f = [n \in 0 .. last |->
                             IF n = 0 THEN ClientStart ELSE ReadLine(f[n - 1], script[n])]
  <1>1. /\ last \in Nat
        /\ \A n \in 0 .. last : n = 0 \/ n \in 1 .. last
        /\ \A n \in 1 .. last : n - 1 \in 0 .. last /\ n \in 0 .. last
                                /\ script[n] \in Seq(Tokens) /\ n # 0
        /\ 0 \in 0 .. last
        /\ ClientStart \in Readers
    BY ClientStartType
  <1>2. step \in [(1 .. last) \X Readers -> Readers]
    <2>1. \A n \in 1 .. last, v \in Readers : ReadLine(v, script[n]) \in Readers
      BY <1>1, ReadLineType
    <2> HIDE DEF last
    <2> QED BY <2>1
  <1>3. PICK f : Recursion(f, last, Readers, ClientStart, step)
    <2> HIDE DEF step, last
    <2> QED BY <1>1, <1>2, RecursionExists
  <1> HIDE DEF last
  <1>4. ASSUME NEW n \in 1 .. last PROVE f[n] = ReadLine(f[n - 1], script[n])
    <2>1. f[n - 1] \in Readers
      BY <1>1, <1>3 DEF Recursion
    <2>2. f[n] = step[<<n, f[n - 1]>>]
      <3> HIDE DEF step
      <3> QED BY <1>3 DEF Recursion
    <2> QED BY <2>1, <2>2
  <1>5. f \in [0 .. last -> Readers] /\ f[0] = ClientStart
    BY <1>3 DEF Recursion
  <1>6. Is(f)
    <2>1. \A n \in 0 .. last : f[n] = IF n = 0 THEN ClientStart ELSE ReadLine(f[n - 1], script[n])
      BY <1>1, <1>4, <1>5
    <2> QED BY <1>5, <2>1
  <1> DEFINE k == ClientUpTo
  <1>7. Is(k)
    BY <1>6 DEF ClientUpTo, ClientStart, last
  <1> HIDE DEF k
  <1>8. k[0] = ClientStart
    BY <1>1, <1>7
  <1>9. \A n \in 1 .. last : k[n] = ReadLine(k[n - 1], script[n])
    BY <1>1, <1>7
  <1>10. \A n \in 0 .. last : k[n] \in Readers
    <2> DEFINE T == {n \in 0 .. last : k[n] \in Readers}
    <2>1. 0 \in T
      BY <1>1, <1>8
    <2>2. ASSUME NEW n \in 0 .. last, n \in T, n < last PROVE n + 1 \in T
      <3> PICK m : m = n + 1
        OBVIOUS
      <3>1. m \in 1 .. last /\ m - 1 = n /\ m \in 0 .. last
        BY <1>1, <2>2
      <3>2. k[m] = ReadLine(k[n], script[m]) /\ script[m] \in Seq(Tokens)
        BY <1>1, <1>9, <3>1
      <3>3. k[m] \in Readers
        BY <2>2, <3>2, ReadLineType
      <3> QED BY <3>1, <3>3
    <2> HIDE DEF T
    <2>3. 0 .. last \subseteq T
      BY <1>1, <2>1, <2>2, UpToInduction
    <2> QED BY <2>3 DEF T
  <1> QED BY <1>8, <1>9, <1>10 DEF k, last

\* One text after another, when the first ends its last line.
LEMMA CommandsEndConcat ==
    ASSUME NEW a \in Seq(Tokens), NEW b \in Seq(Tokens),
           CommandsEnd(a), EndsLine(a), CommandsEnd(b)
    PROVE  CommandsEnd(a \o b)
  <1> DEFINE s == a \o b
             la == Len(a)
             lb == Len(b)
  <1>1. /\ Len(s) = la + lb /\ DOMAIN s = 1 .. la + lb
        /\ DOMAIN a = 1 .. la /\ DOMAIN b = 1 .. lb
        /\ la \in Nat /\ lb \in Nat
    BY TwoParts
  <1>2. /\ \A i \in 1 .. la : s[i] = a[i]
        /\ \A i \in 1 .. lb : s[la + i] = b[i]
    BY TwoParts
  <1> HIDE DEF s
  <1>3. ASSUME NEW i \in DOMAIN s, s[i] \in DOMAIN argument
        PROVE  i = Len(s) \/ s[i + 1] = Newline
    <2>1. CASE i \in 1 .. la
      <3>1. a[i] \in DOMAIN argument
        BY <1>2, <1>3, <2>1
      <3>2. CASE i = la
        <4>1. a[la] = Newline
          BY <2>1, <3>2 DEF EndsLine
        <4> QED BY <3>1, <3>2, <4>1, DelimitersAssumption DEF Space
      <3>3. CASE i # la
        <4>1. a[i + 1] = Newline
          BY <1>1, <2>1, <3>1, <3>3 DEF CommandsEnd
        <4>2. i + 1 \in 1 .. la
          BY <1>1, <2>1, <3>3
        <4> PICK j : j = i + 1
          OBVIOUS
        <4>3. s[j] = a[j]
          BY <1>2, <4>2
        <4> QED BY <4>1, <4>3
      <3> QED BY <3>2, <3>3
    <2>2. CASE i \notin 1 .. la
      <3> PICK j : j = i - la
        OBVIOUS
      <3>1. j \in 1 .. lb /\ i = la + j
        BY <1>1, <1>3, <2>2
      <3>2. b[j] \in DOMAIN argument
        BY <1>2, <1>3, <3>1
      <3>3. CASE j = lb
        BY <1>1, <3>1, <3>3
      <3>4. CASE j # lb
        <4>1. b[j + 1] = Newline
          BY <1>1, <3>1, <3>2, <3>4 DEF CommandsEnd
        <4> PICK k : k = j + 1
          OBVIOUS
        <4>2. k \in 1 .. lb /\ i + 1 = la + k
          BY <1>1, <3>1, <3>4
        <4>3. s[la + k] = b[k]
          BY <1>2, <4>2
        <4> QED BY <4>1, <4>2, <4>3
      <3> QED BY <3>3, <3>4
    <2> QED BY <2>1, <2>2
  <1>4. CommandsEnd(s)
    BY <1>3 DEF CommandsEnd
  <1> QED BY <1>4 DEF s

\* What a text starts with is read before the rest.
LEMMA CommandsEndAfter ==
    ASSUME NEW text \in Seq(Tokens), CommandsEnd(text), NEW k \in 0 .. Len(text)
    PROVE  CommandsEnd(SubSeq(text, k + 1, Len(text)))
  <1> DEFINE t == SubSeq(text, k + 1, Len(text))
             last == Len(text)
  <1>1. /\ t \in Seq(Tokens) /\ Len(t) = last - k /\ DOMAIN t = 1 .. last - k
        /\ last \in Nat /\ k \in 0 .. last
    OBVIOUS
  <1>2. \A i \in 1 .. last - k : t[i] = text[(k + 1) + i - 1]
    OBVIOUS
  <1> HIDE DEF t
  <1>3. ASSUME NEW i \in DOMAIN t, t[i] \in DOMAIN argument
        PROVE  i = Len(t) \/ t[i + 1] = Newline
    <2>1. i \in 1 .. last - k
      BY <1>1
    <2> PICK m : m = k + i
      OBVIOUS
    <2>2. m \in 1 .. last /\ (k + 1) + i - 1 = m
      BY <1>1, <2>1
    <2>3. text[m] \in DOMAIN argument
      BY <1>2, <1>3, <2>1, <2>2
    <2>4. m = last \/ text[m + 1] = Newline
      <3>1. m \in DOMAIN text
        BY <2>2
      <3> QED BY <2>3, <3>1 DEF CommandsEnd
    <2>5. CASE m = last
      <3>1. i = last - k
        BY <1>1, <2>1, <2>5
      <3> QED BY <1>1, <3>1
    <2>6. CASE m # last
      <3> PICK j : j = i + 1
        OBVIOUS
      <3>1. j \in 1 .. last - k /\ (k + 1) + j - 1 = m + 1
        <4>1. last \in Nat /\ k \in 0 .. last /\ m = k + i /\ j = i + 1 /\ m \in 1 .. last
          BY <1>1, <2>2
        <4> HIDE DEF last
        <4>2. i \in Nat /\ i > 0 /\ m < last
          BY ONLY <2>1, <2>6, <4>1
        <4>3. j \in Nat /\ j > 0 /\ j <= last - k
          BY ONLY <4>1, <4>2
        <4>4. (k + 1) + j - 1 = m + 1
          <5>1. k \in Nat /\ i \in Nat /\ m = k + i /\ j = i + 1
            BY ONLY <4>1, <4>2
          <5> QED BY ONLY <5>1
        <4> QED BY ONLY <4>1, <4>3, <4>4
      <3>2. t[j] = text[m + 1]
        BY <1>2, <3>1
      <3> QED BY <2>4, <2>6, <3>2
    <2> QED BY <2>5, <2>6
  <1>4. CommandsEnd(t)
    BY <1>3 DEF CommandsEnd
  <1> QED BY <1>4 DEF t

\* The lines of a script do not end within, and have commands at their ends only.
LEMMA ScriptLines ==
    ASSUME script \in Scripts, NEW i \in 1 .. Len(script)
    PROVE  /\ script \in Seq(Seq(Tokens)) /\ script[i] \in Seq(Tokens)
           /\ Plain(script[i]) /\ CommandsEnd(script[i])
           /\ Append(script[i], Newline) \in Seq(Tokens)
           /\ EndsLine(Append(script[i], Newline))
           /\ CommandsEnd(Append(script[i], Newline))
  <1>1. script \in Seq(Seq(Tokens)) /\ Newline \in Tokens
    BY ScriptsAssumption
  <1>2. i \in DOMAIN script /\ script[i] \in Seq(Tokens)
    BY <1>1
  <1> DEFINE l == script[i]
             t == Append(l, Newline)
  <1>3. \A j \in DOMAIN l : l[j] # Newline /\ (l[j] \in DOMAIN argument => j = Len(l))
    BY <1>2, ScriptsAssumption
  <1> HIDE DEF l
  <1>4. Plain(l) /\ CommandsEnd(l)
    BY <1>3 DEF Plain, CommandsEnd
  <1>5. /\ l \in Seq(Tokens) /\ t \in Seq(Tokens) /\ Len(t) = Len(l) + 1 /\ Len(l) \in Nat
        /\ DOMAIN t = 1 .. Len(l) + 1 /\ DOMAIN l = 1 .. Len(l)
        /\ \A j \in 1 .. Len(l) : t[j] = l[j]
        /\ t[Len(l) + 1] = Newline
    BY <1>1, <1>2, AppendProperties DEF l
  <1> HIDE DEF t
  <1>6. EndsLine(t)
    BY <1>5 DEF EndsLine
  <1>7. CommandsEnd(t)
    <2>1. ASSUME NEW j \in DOMAIN t, t[j] \in DOMAIN argument
          PROVE  j = Len(t) \/ t[j + 1] = Newline
      <3>1. j \in 1 .. Len(l) \/ j = Len(t)
        BY <1>5
      <3>2. CASE j \in 1 .. Len(l)
        <4>1. j = Len(l)
          BY <1>3, <1>5, <2>1, <3>2
        <4> QED BY <1>5, <4>1, Zenon
      <3> QED BY <3>1, <3>2
    <2> QED BY <2>1 DEF CommandsEnd
  <1> QED BY <1>1, <1>4, <1>5, <1>6, <1>7 DEF l, t

\* The whole script, read token by token, is what the client reads line by
\* line; and each command is the last of its line.
LEMMA ScriptReads ==
    ASSUME script \in Scripts, ignore \in Ignores
    PROVE  /\ End(Read(At(ClientStart, <<>>), Text(script))) = ClientStatements
           /\ CommandsEnd(Text(script))
  <1> DEFINE last == Len(script)
             ended == [i \in DOMAIN script |->
                         IF i = Len(script) THEN script[i] ELSE Append(script[i], Newline)]
             at == At(ClientStart, <<>>)
             flat == FlatUpTo(ended)
             F(n) == IF n = 0 THEN <<>> ELSE flat[n]
             c == ClientUpTo
             Fits(n) == /\ F(n) \in Seq(Tokens)
                        /\ CommandsEnd(F(n)) /\ EndsLine(F(n))
                        /\ Read(at, F(n)) = At(c[n], <<>>)
             T == {n \in 0 .. last : n < last => Fits(n)}
  <1>1. script \in Seq(Seq(Tokens)) /\ last \in Nat /\ DOMAIN script = 1 .. last
    BY ScriptsAssumption
  <1>2. /\ c[0] = ClientStart
        /\ \A n \in 0 .. last : c[n] \in Readers
        /\ \A n \in 1 .. last : c[n] = ReadLine(c[n - 1], script[n])
    BY <1>1, ClientSteps
  <1>3. /\ at \in Places /\ Read(at, <<>>) = at /\ <<>> \in Seq(Tokens)
        /\ CommandsEnd(<<>>) /\ EndsLine(<<>>)
    <2>1. at \in Places
      BY ClientStartType, FinishedStart
    <2>2. Read(at, <<>>) = at
      BY <2>1, ReadNothing
    <2> QED BY <2>1, <2>2 DEF CommandsEnd, EndsLine
  <1>4. ClientStatements = Flushed(c[last], c[last].pending)
    BY DEF ClientStatements
  <1>5. CASE last = 0
    <2>1. Text(script) = <<>>
      <3>1. script = <<>>
        BY <1>1, <1>5
      <3>2. ended = <<>>
        BY <3>1
      <3>3. FlattenSeq(<<>>) = <<>>
        BY DEF FlattenSeq
      <3> HIDE DEF ended
      <3>4. Text(script) = FlattenSeq(ended)
        BY DEF Text, ended
      <3> QED BY <3>2, <3>3, <3>4
    <2>2. End(at) = Flushed(ClientStart, ClientStart.pending)
      <3>1. ClientStart \in Readers
        BY ClientStartType
      <3>2. Finished(at) = ClientStart
        BY <3>1, FinishedStart
      <3> HIDE DEF at
      <3> QED BY <1>3, <3>2, FinishedType
    <2> HIDE DEF at
    <2>3. End(Read(at, Text(script))) = ClientStatements
      BY <1>2, <1>3, <1>4, <1>5, <2>1, <2>2
    <2> QED BY <1>3, <2>1, <2>3 DEF at
  <1>6. CASE last # 0
    <2>1. \A i \in 1 .. last : ended[i] = IF i = last THEN script[i] ELSE Append(script[i], Newline)
      BY <1>1
    <2>2. \A i \in 1 .. last : /\ script[i] \in Seq(Tokens) /\ Plain(script[i])
                               /\ CommandsEnd(script[i])
                               /\ Append(script[i], Newline) \in Seq(Tokens)
                               /\ EndsLine(Append(script[i], Newline))
                               /\ CommandsEnd(Append(script[i], Newline))
      BY ScriptLines
    <2>3. DOMAIN ended = 1 .. last
      BY <1>1
    <2>4. Text(script) = FlattenSeq(ended)
      BY DEF Text
    <2>5. ended \in [1 .. last -> Seq(Tokens)]
      <3>1. ended = [i \in 1 .. last |-> ended[i]]
        BY <1>1
      <3> HIDE DEF ended
      <3> QED BY <2>1, <2>2, <3>1
    <2> HIDE DEF ended
    <2>6. ended \in Seq(Seq(Tokens)) /\ ended # <<>> /\ Len(ended) = last
      <3> DEFINE S == Seq(Tokens)
      <3>1. ended \in [1 .. last -> S] /\ last \in Nat /\ last # 0
        BY <1>1, <1>6, <2>5
      <3> HIDE DEF S, last
      <3>2. ended \in Seq(S) /\ Len(ended) = last /\ ended # <<>>
        BY ONLY <3>1
      <3> QED BY <3>2 DEF S
    <2>7. /\ FlattenSeq(ended) = flat[last]
          /\ flat[1] = ended[1]
          /\ \A n \in 2 .. last : flat[n] = flat[n - 1] \o ended[n]
          /\ \A n \in 1 .. last : flat[n] \in Seq(Tokens)
      BY <2>6, FlatSteps
    <2> HIDE DEF flat, last, c, at
    <2>8. ASSUME NEW n \in 1 .. last
          PROVE  F(n) = F(n - 1) \o ended[n] /\ F(n) \in Seq(Tokens) /\ F(n - 1) \in Seq(Tokens)
      <3>1. F(n) = flat[n] /\ F(n) \in Seq(Tokens)
        BY <1>1, <2>7
      <3>2. CASE n = 1
        <4>1. F(n - 1) = <<>>
          BY <3>2
        <4>2. F(n) = ended[n]
          BY <2>7, <3>1, <3>2
        <4>3. <<>> \o F(n) = F(n)
          BY ONLY <3>1, ConcatEmptySeq
        <4>4. F(n) = F(n - 1) \o ended[n]
          BY ONLY <4>1, <4>2, <4>3, Zenon
        <4> QED BY ONLY <1>3, <3>1, <4>1, <4>4, Zenon
      <3>3. CASE n # 1
        <4>1. n \in 2 .. last /\ n - 1 # 0 /\ n - 1 \in 1 .. last
          BY <1>1, <3>3
        <4> QED BY <2>7, <3>1, <4>1
      <3> QED BY <3>2, <3>3
    <2> HIDE DEF F
    <2>9. 0 \in T
      <3>1. 0 \in 0 .. last /\ F(0) = <<>>
        BY <1>1 DEF F
      <3>2. Read(at, F(0)) = At(c[0], <<>>)
        BY <1>2, <1>3, <3>1 DEF at
      <3>3. Fits(0)
        BY ONLY <1>3, <3>1, <3>2, Zenon
      <3> HIDE DEF Fits
      <3> QED BY <3>1, <3>3
    <2>10. ASSUME NEW n \in 1 .. last, Fits(n - 1)
           PROVE  Read(at, F(n - 1) \o script[n]) = At(c[n - 1], script[n])
      <3>1. c[n - 1] \in Readers /\ script[n] \in Seq(Tokens) /\ Plain(script[n])
        BY <1>1, <1>2, <2>2
      <3>2. Read(at, F(n - 1) \o script[n]) = Read(Read(at, F(n - 1)), script[n])
        BY <1>3, <2>10, <3>1, ReadConcat
      <3>3. Read(At(c[n - 1], <<>>), script[n]) = At(c[n - 1], <<>> \o script[n])
        BY ONLY <1>3, <3>1, ReadPlain
      <3>4. <<>> \o script[n] = script[n]
        BY ONLY <3>1, ConcatEmptySeq
      <3> QED BY ONLY <2>10, <3>2, <3>3, <3>4, Zenon
    <2>11. ASSUME NEW n \in 0 .. last, n \in T, n < last PROVE n + 1 \in T
      <3> PICK m : m = n + 1
        OBVIOUS
      <3>1. m \in 1 .. last /\ m - 1 = n /\ m \in 0 .. last
        BY <1>1, <2>11
      <3>2. ASSUME m < last PROVE Fits(m)
        <4> DEFINE l == script[m]
                   nl == <<Newline>>
                   p == F(m - 1)
        <4>1. Fits(m - 1) /\ p \in Seq(Tokens)
          <5> HIDE DEF Fits
          <5>1. Fits(m - 1)
            BY <2>11, <3>1
          <5> QED BY <5>1 DEF Fits
        <4>2. /\ l \in Seq(Tokens) /\ EndsLine(Append(l, Newline))
              /\ CommandsEnd(Append(l, Newline)) /\ Append(l, Newline) \in Seq(Tokens)
              /\ nl \in Seq(Tokens) /\ Append(l, Newline) # <<>>
          <5>1. l \in Seq(Tokens) /\ EndsLine(Append(l, Newline))
                /\ CommandsEnd(Append(l, Newline)) /\ Append(l, Newline) \in Seq(Tokens)
            BY <2>2, <3>1
          <5>2. nl \in Seq(Tokens)
            BY ScriptsAssumption
          <5>3. Append(l, Newline) # <<>>
            <6>1. Newline \in Tokens
              BY ScriptsAssumption
            <6> HIDE DEF l
            <6>2. Len(Append(l, Newline)) = Len(l) + 1 /\ Len(l) \in Nat
              BY ONLY <5>1, <6>1, AppendProperties
            <6>3. Len(Append(l, Newline)) # 0
              BY ONLY <6>2
            <6> QED BY ONLY <5>1, <6>3, EmptySeq
          <5> QED BY <5>1, <5>2, <5>3
        <4>3. F(m) = p \o Append(l, Newline) /\ F(m) \in Seq(Tokens)
          <5>1. ended[m] = Append(l, Newline)
            <6>1. m # last
              BY <1>1, <3>1, <3>2
            <6> QED BY ONLY <2>1, <3>1, <6>1, Zenon
          <5> QED BY <2>8, <3>1, <5>1
        <4> DEFINE ln == Append(l, Newline)
        <4>4. CommandsEnd(F(m)) /\ EndsLine(F(m))
          <5> HIDE DEF ln, p, l
          <5>1. CommandsEnd(p) /\ EndsLine(p)
            BY <4>1 DEF p
          <5>2. ln \in Seq(Tokens) /\ EndsLine(ln) /\ CommandsEnd(ln) /\ ln # <<>>
            BY <4>2 DEF ln
          <5>3. CommandsEnd(p \o ln)
            BY <4>1, <5>1, <5>2, CommandsEndConcat
          <5>4. (p \o ln)[Len(p \o ln)] = ln[Len(ln)]
            BY <4>1, <5>2
          <5>5. EndsLine(p \o ln)
            BY <5>2, <5>4 DEF EndsLine
          <5> QED BY <4>3, <5>3, <5>5 DEF ln
        <4>5. Read(at, F(m)) = At(c[m], <<>>)
          <5> DEFINE there == At(c[m - 1], l)
          <5>1. Read(at, p \o l) = there
            BY <2>10, <3>1, <4>1
          <5>2. c[m - 1] \in Readers /\ there \in Places
            <6>1. c[m - 1] \in Readers
              BY <1>2, <2>11, <3>1
            <6> QED BY <4>2, <6>1, AtType
          <5>3. Finished(there) = c[m]
            <6>1. Finished(there) = ReadLine(c[m - 1], l)
              BY FinishedAt
            <6> QED BY <1>2, <3>1, <6>1
          <5> DEFINE pl == p \o l
          <5>4. pl \in Seq(Tokens) /\ ln = l \o nl
            <6>1. Newline \in Tokens
              BY ScriptsAssumption
            <6> HIDE DEF l, p
            <6> QED BY <4>1, <4>2, <6>1, AppendIsConcat
          <5>5. Associate(p, l, nl)
            <6> HIDE DEF l, p, nl
            <6> QED BY <4>1, <4>2, AnyAssociate
          <5> HIDE DEF there, pl, p, l, ln
          <5>6. F(m) = pl \o nl
            BY ONLY <4>3, <5>4, <5>5, Zenon DEF Associate, pl, ln
          <5> HIDE DEF nl
          <5>7. Read(at, pl \o nl) = Read(Read(at, pl), nl)
            BY ONLY <1>3, <4>2, <5>4, ReadConcat
          <5>8. Read(there, nl) = At(Finished(there), <<>>)
            BY <5>2, ReadNewline DEF nl
          <5> QED BY ONLY <5>1, <5>3, <5>6, <5>7, <5>8, Zenon DEF pl
        <4> HIDE DEF ln, l, nl, p
        <4> QED BY <4>3, <4>4, <4>5
      <3> HIDE DEF Fits
      <3> QED BY <3>1, <3>2
    <2> HIDE DEF T
    <2>12. 0 .. last \subseteq T
      BY <1>1, <2>9, <2>11, UpToInduction
    <2>13. Fits(last - 1) /\ last \in 1 .. last
      <3>1. last - 1 \in 0 .. last /\ last - 1 < last /\ last \in 1 .. last
        BY <1>1, <1>6
      <3> HIDE DEF Fits
      <3> QED BY <2>12, <3>1 DEF T
    <2> DEFINE p == F(last - 1)
               l == script[last]
               there == At(c[last - 1], l)
    <2>14. Text(script) = p \o l /\ p \in Seq(Tokens) /\ l \in Seq(Tokens)
      <3>1. F(last) = p \o ended[last] /\ ended[last] = l
        BY <2>1, <2>8, <2>13
      <3>2. Text(script) = F(last)
        BY <1>6, <2>4, <2>7 DEF F
      <3>3. p \in Seq(Tokens) /\ l \in Seq(Tokens)
        BY <2>2, <2>13
      <3> QED BY <3>1, <3>2, <3>3
    <2>15. CommandsEnd(p \o l)
      <3>1. CommandsEnd(p) /\ EndsLine(p) /\ CommandsEnd(l)
        BY <2>2, <2>13
      <3> HIDE DEF p, l
      <3> QED BY <2>14, <3>1, CommandsEndConcat
    <2>16. Read(at, p \o l) = there
      BY <2>10, <2>13
    <2>17. End(there) = ClientStatements
      <3>1. c[last - 1] \in Readers /\ c[last] = ReadLine(c[last - 1], l)
        BY <1>1, <1>2, <2>13
      <3>2. there \in Places /\ Finished(there) = ReadLine(c[last - 1], l)
        BY <2>14, <3>1, AtType, FinishedAt
      <3> HIDE DEF there
      <3>3. End(there) = Flushed(Finished(there), Finished(there).pending)
        BY <3>2, FinishedType
      <3> QED BY ONLY <1>4, <3>1, <3>2, <3>3, Zenon
    <2> HIDE DEF p, l, there
    <2>18. End(Read(at, Text(script))) = ClientStatements /\ CommandsEnd(Text(script))
      BY ONLY <2>14, <2>15, <2>16, <2>17, Zenon
    <2> QED BY <2>18 DEF at
  <1> QED BY <1>5, <1>6

-----------------------------------------------------------------------------
(* The invariant: the client that has read what was yielded and goes on    *)
(* with the rest ends where the client that reads the script does.         *)

\* The rest, as the client has it: the block is without the end of its last
\* line.
ToRead ==
    CASE pc = "search" -> sql
      [] pc = "block" -> block \o (<<Newline>> \o AfterBlock)
      [] OTHER -> AfterBlock

\* The client that has read what was yielded.
Client == Reader(Statements, <<>>, delimiter, ignore)

\* When it goes on with the rest, it ends with the statements of the client
\* that reads the script.
ReadSoFar == End(Read(At(Client, <<>>), ToRead)) = ClientStatements

\* What the search has made sure of: where commands are, and where none is.
Shaped ==
    /\ CommandsEnd(sql)
    /\ delimiter \in Delims
    /\ ignore \in Ignores
    /\ pc # "search" /\ found # none => StartsLine(sql)
    /\ pc = "block" => NoCommand(block)
    /\ pc = "done" => found = none

ClientInv == Typed /\ Shaped /\ ReadSoFar

LEMMA ClientType ==
    ASSUME Typed, Shaped
    PROVE  /\ Statements \in Seq(Seq(Tokens)) /\ Statements = StatementsOf(yielded)
           /\ Client \in Readers
           /\ Client.statements = Statements /\ Client.pending = <<>>
           /\ Client.ender = delimiter /\ Client.whole = ignore
  <1>1. yielded \in Seq(Seq(Tokens)) /\ delimiter \in Delims /\ ignore \in Ignores
    BY DEF Typed, Shaped
  <1>2. Statements = StatementsOf(yielded) /\ StatementsOf(yielded) \in Seq(Seq(Tokens))
    BY <1>1, StatementsType DEF Statements, StatementsOf
  <1>3. Statements \in Seq(Seq(Tokens)) /\ <<>> \in Seq(Tokens)
    BY <1>2
  <1> DEFINE st == Statements
             e == <<>>
  <1> HIDE DEF st, e
  <1>4. LET r == Reader(st, e, delimiter, ignore) IN
        /\ r \in Readers /\ r.statements = st /\ r.pending = e
        /\ r.ender = delimiter /\ r.whole = ignore
    <2>1. st \in Seq(Seq(Tokens)) /\ e \in Seq(Tokens)
      BY <1>3 DEF st, e
    <2> QED BY ONLY <1>1, <2>1, ReaderIs
  <1> QED BY <1>2, <1>3, <1>4 DEF Client, st, e

\* After the block, the client ends the statement it has in any case.
LEMMA AfterReads ==
    ASSUME Typed, found # none => StartsLine(sql),
           NEW r \in Readers, NEW s \in Readers,
           s.statements = Flushed(r, r.pending), s.pending = <<>>,
           s.whole = r.whole
    PROVE  End(Read(At(r, <<>>), AfterBlock)) = End(Read(At(s, <<>>), AfterBlock))
  <1>1. Flushed(s, s.pending) = Flushed(r, r.pending)
    BY DEF Flushed
  <1>2. CASE found = none
    <2>1. AfterBlock = <<>>
      BY <1>2 DEF AfterBlock
    <2>2. ASSUME NEW t \in Readers
          PROVE  End(Read(At(t, <<>>), <<>>)) = Flushed(t, t.pending)
      <3> DEFINE at == At(t, <<>>)
      <3>1. at \in Places /\ Finished(at) = t
        BY FinishedStart
      <3> HIDE DEF at
      <3>2. Read(at, <<>>) = at /\ End(at) = Flushed(t, t.pending)
        BY <3>1, ReadNothing, FinishedType
      <3> QED BY <3>2 DEF at
    <2>3. End(Read(At(r, <<>>), <<>>)) = End(Read(At(s, <<>>), <<>>))
      BY <1>1, <2>2
    <2> QED BY ONLY <2>1, <2>3, Zenon
  <1>3. CASE found # none
    <2>1. found \in Tokens /\ found \in DOMAIN argument /\ sql \in Seq(Tokens) /\ StartsLine(sql)
      BY <1>3 DEF Typed
    <2>2. AfterBlock = <<found>> \o sql
      BY <1>3 DEF AfterBlock
    <2> DEFINE next(t) == Reader(Append(Flushed(t, t.pending), <<found>>), <<>>,
                                 argument[found], t.whole)
    <2>3. End(Read(At(r, <<>>), <<found>> \o sql)) = End(Read(At(next(r), <<>>), sql))
      BY <2>1, CommandReads
    <2>4. End(Read(At(s, <<>>), <<found>> \o sql)) = End(Read(At(next(s), <<>>), sql))
      BY <2>1, CommandReads
    <2>5. next(r) = next(s)
      BY <1>1
    <2> HIDE DEF next
    <2> QED BY ONLY <2>2, <2>3, <2>4, <2>5, Zenon
  <1> QED BY <1>2, <1>3

\* The statements of the client are those of the arguments.
LEMMA SameClient ==
    ASSUME UNCHANGED <<script, ignore>>
    PROVE  ClientStatements' = ClientStatements
  BY DEF ClientStatements, ClientUpTo

\* A step that leaves the client, and what it reads in the rest.
LEMMA SameRead ==
    ASSUME ReadSoFar, UNCHANGED <<script, ignore>>,
           End(Read(At(Client, <<>>), ToRead)) = End(Read(At(Client', <<>>), ToRead'))
    PROVE  ReadSoFar'
  BY SameClient DEF ReadSoFar

\* At first, the rest is the script.
LEMMA InitClientInv ==
    ASSUME Init
    PROVE  ClientInv
  <1>1. Typed
    BY InitInv DEF Inv
  <1>2. script \in Scripts /\ ignore \in Ignores /\ sql = Text(script) /\ pc = "search"
        /\ delimiter = Semicolon /\ yielded = <<>>
    BY DEF Init
  <1>3. /\ End(Read(At(ClientStart, <<>>), Text(script))) = ClientStatements
        /\ CommandsEnd(Text(script))
    BY <1>2, ScriptReads
  <1>4. Shaped
    BY <1>2, <1>3, DelimitersAre DEF Shaped
  <1>5. Client = ClientStart
    <2>1. [i \in DOMAIN yielded |-> Words(yielded[i])] = <<>>
      BY <1>2
    <2>2. Without(<<>>, {<<>>}) = <<>>
      <3> DEFINE s == <<>>
                 D == {<<>>}
      <3>1. s \in Seq({}) /\ \A i \in 1 .. Len(s) : s[i] \in D
        OBVIOUS
      <3> HIDE DEF s, D
      <3>2. Without(s, D) = <<>>
        BY <3>1, WithoutAll
      <3>3. Without(s, D) = s
        BY <3>2 DEF s
      <3> QED BY <3>3 DEF s, D
    <2>3. Statements = <<>>
      BY ONLY <2>1, <2>2, Zenon DEF Statements
    <2> QED BY <1>2, <2>3 DEF Client, ClientStart
  <1>6. ReadSoFar
    <2>1. ToRead = Text(script)
      BY <1>2 DEF ToRead
    <2> QED BY ONLY <1>3, <1>5, <2>1, Zenon DEF ReadSoFar
  <1> QED BY <1>1, <1>4, <1>6 DEF ClientInv

-----------------------------------------------------------------------------
(* The search.                                                             *)

\* The block and what follows it, when the client reads the same in them.
LEMMA BlockReads ==
    ASSUME Typed, Shaped, ReadSoFar, pc = "search",
           NEW b \in Seq(Tokens), NEW u \in Seq(Tokens),
           SameReading(sql, b \o (<<Newline>> \o u)),
           block' = b, AfterBlock' = u,
           pc' = IF b = <<>> THEN "command" ELSE "block",
           UNCHANGED <<script, ignore, delimiter, yielded>>
    PROVE  ReadSoFar'
  <1> DEFINE nu == <<Newline>> \o u
             ReadAll(t) == End(Read(At(Client, <<>>), t))
  <1>1. Client \in Readers /\ Client' = Client
    BY ClientType DEF Client, Statements
  <1>2. ToRead = sql
    BY DEF ToRead
  <1>3. nu \in Seq(Tokens)
    BY ScriptsAssumption
  <1> HIDE DEF nu
  <1>4. ReadAll(sql) = ReadAll(b \o nu)
    BY <1>1 DEF SameReading, nu
  <1>5. ReadAll(ToRead') = ReadAll(b \o nu)
    <2>1. CASE b = <<>>
      <3>1. ToRead' = u
        BY <2>1 DEF ToRead
      <3>2. ReadAll(u) = ReadAll(nu)
        BY <1>1, NewlineReads DEF SameReading, nu
      <3>3. b \o nu = nu
        BY <1>3, <2>1, ConcatEmptySeq
      <3> HIDE DEF ReadAll
      <3> QED BY ONLY <3>1, <3>2, <3>3, Zenon
    <2>2. CASE b # <<>>
      <3>1. ToRead' = b \o nu
        BY <2>2 DEF ToRead, nu
      <3> QED BY <3>1
    <2> QED BY <2>1, <2>2
  <1>6. ReadAll(ToRead) = ReadAll(ToRead')
    BY <1>2, <1>4, <1>5
  <1>7. End(Read(At(Client, <<>>), ToRead)) = End(Read(At(Client', <<>>), ToRead'))
    BY <1>1, <1>6
  <1> QED BY <1>7, SameRead

\* No command is left: all of the rest is the block.
LEMMA LastBlockReads ==
    ASSUME Typed, Shaped, ReadSoFar, Search, Commands = {}
    PROVE  Shaped' /\ ReadSoFar'
  <1> DEFINE b == Strip(sql)
  <1>1. /\ block' = b /\ found' = none /\ sql' = sql /\ pc = "search"
        /\ pc' = IF b = <<>> THEN "command" ELSE "block"
        /\ UNCHANGED <<script, ignore, delimiter, yielded>>
    BY DEF Search
  <1>2. sql \in Seq(Tokens) /\ CommandsEnd(sql)
    BY DEF Typed, Shaped
  <1>3. b \in Seq(Tokens)
    BY <1>2, StripType
  <1>4. NoCommand(sql)
    <2>1. ASSUME NEW a \in Seq(Tokens), NEW l \in Seq(Tokens), NEW z \in Seq(Tokens),
                 sql = a \o (l \o z), EndsLine(a), IsCommand(l)
          PROVE  FALSE
      <3>1. \E m \in Commands : m[1] = Len(a) + 1
        BY <1>2, <2>1, CommandThere
      <3> QED BY <3>1
    <2> QED BY <2>1 DEF NoCommand
  <1>5. NoCommand(b)
    BY <1>2, <1>4, NoCommandStrip
  <1>6. Shaped'
    <2> HIDE DEF b
    <2> QED BY <1>1, <1>5 DEF Shaped
  <1>7. SameReading(sql, b \o (<<Newline>> \o <<>>))
    <2>1. SameReading(sql, b \o <<Newline>>)
      BY <1>2, LastReads
    <2>2. <<Newline>> \o <<>> = <<Newline>>
      OBVIOUS
    <2> QED BY ONLY <2>1, <2>2, Zenon
  <1>8. AfterBlock' = <<>>
    BY <1>1 DEF AfterBlock
  <1>9. <<>> \in Seq(Tokens)
    OBVIOUS
  <1> HIDE DEF b
  <1>10. ReadSoFar'
    <2> DEFINE e == <<>>
    <2>1. e \in Seq(Tokens) /\ AfterBlock' = e /\ SameReading(sql, b \o (<<Newline>> \o e))
      BY <1>7, <1>8, <1>9
    <2> HIDE DEF e
    <2> QED BY <1>1, <1>3, <2>1, BlockReads
  <1> QED BY <1>6, <1>10

\* The parts of the text at the command that is found.
LEMMA CommandParts ==
    ASSUME sql \in Seq(Tokens), Commands # {}
    PROVE  LET m == First(Commands)
               before == SubSeq(sql, 1, m[1] - 1)
               w == SubSeq(sql, m[1], m[2] - 1)
               rest == SubSeq(sql, m[2] + 1, Len(sql))
           IN  /\ before \in Seq(Tokens) /\ w \in Seq(Tokens) /\ rest \in Seq(Tokens)
               /\ sql[m[2]] \in DOMAIN argument /\ sql[m[2]] \in Tokens
               /\ sql = before \o (w \o (<<sql[m[2]]>> \o rest))
               /\ EndsLine(before) /\ Len(before) = m[1] - 1
               /\ IsBlank(w)
               /\ StartsLine(rest)
               /\ m[2] \in 0 .. Len(sql)
  <1> DEFINE m == First(Commands)
             i == m[1]
             j == m[2]
             last == Len(sql)
             before == SubSeq(sql, 1, i - 1)
             w == SubSeq(sql, i, j - 1)
             rest == SubSeq(sql, j + 1, last)
  <1>1. m \in Commands
    BY LeftmostCommand
  <1> HIDE DEF m
  <1>2. /\ i \in 1 .. last /\ j \in 1 .. last /\ i <= j
        /\ sql[j] \in DOMAIN argument
        /\ i = 1 \/ sql[i - 1] = Newline
        /\ IsBlank(SubSeq(sql, i, j - 1))
        /\ j = last \/ sql[j + 1] = Newline
    <2>1. DOMAIN sql = 1 .. last
      OBVIOUS
    <2> DEFINE Is(n, k) ==
                 /\ n = 1 \/ sql[n - 1] = Newline
                 /\ n <= k /\ IsBlank(SubSeq(sql, n, k - 1))
                 /\ k = last \/ sql[k + 1] = Newline
    <2>2. Commands = {n \in (DOMAIN sql) \X {k \in DOMAIN sql : sql[k] \in DOMAIN argument} :
                        Is(n[1], n[2])}
      BY DEF Commands
    <2> HIDE DEF Is, last
    <2>3. /\ m[1] \in DOMAIN sql /\ m[2] \in DOMAIN sql
          /\ sql[m[2]] \in DOMAIN argument /\ Is(m[1], m[2])
      BY ONLY <1>1, <2>2
    <2> QED BY ONLY <2>1, <2>3 DEF i, j, Is
  <1> HIDE DEF i, j
  <1>3. /\ before \in Seq(Tokens) /\ Len(before) = i - 1
        /\ w \in Seq(Tokens) /\ rest \in Seq(Tokens) /\ Len(rest) = last - j
        /\ sql[j] \in Tokens
        /\ \A n \in 1 .. i - 1 : before[n] = sql[n]
        /\ \A n \in 1 .. last - j : rest[n] = sql[(j + 1) + n - 1]
    <2>1. last \in Nat /\ sql[j] \in Tokens
      BY <1>2
    <2>2. /\ 1 \in 1 .. last /\ i - 1 \in 0 .. last /\ j - 1 \in 0 .. last
          /\ j + 1 \in 1 .. last + 1 /\ i \in 1 .. last + 1 /\ j - 1 \in i - 1 .. last
      <3> HIDE DEF last
      <3> QED BY ONLY <1>2, <2>1
    <2>3. before \in Seq(Tokens) /\ Len(before) = i - 1
          /\ \A n \in 1 .. i - 1 : before[n] = sql[n]
      <3> PICK k : k = i - 1
        OBVIOUS
      <3>1. LET t == SubSeq(sql, 1, k) IN
            t \in Seq(Tokens) /\ Len(t) = k /\ \A n \in 1 .. k : t[n] = sql[n]
        BY ONLY <2>2, k = i - 1, sql \in Seq(Tokens)
      <3> QED BY ONLY <3>1, k = i - 1
    <2>4. w \in Seq(Tokens)
      BY ONLY <2>2, sql \in Seq(Tokens)
    <2>5. rest \in Seq(Tokens) /\ Len(rest) = last - j
          /\ \A n \in 1 .. last - j : rest[n] = sql[(j + 1) + n - 1]
      <3> PICK k : k = j + 1
        OBVIOUS
      <3>1. k \in 1 .. last + 1 /\ j = k - 1
        BY <1>2, <2>2
      <3>2. LET t == SubSeq(sql, k, last) IN
            /\ t \in Seq(Tokens) /\ Len(t) = last - k + 1
            /\ \A n \in 1 .. last - k + 1 : t[n] = sql[k + n - 1]
        BY ONLY <2>1, <3>1, sql \in Seq(Tokens)
      <3>3. last - k + 1 = last - j
        BY ONLY <2>1, <3>1
      <3> QED BY ONLY <3>2, <3>3, k = j + 1, Zenon
    <2> QED BY ONLY <2>1, <2>3, <2>4, <2>5
  <1>4. sql = before \o (w \o (<<sql[j]>> \o rest))
    <2>1. sql = before \o SubSeq(sql, (i - 1) + 1, last)
      <3>1. i - 1 \in 0 .. last
        BY <1>2
      <3> HIDE DEF before
      <3> QED BY <3>1, SplitAt DEF before
    <2>2. (i - 1) + 1 = i /\ (j - 1) + 1 = j
      BY <1>2
    <2>3. w \o SubSeq(sql, (j - 1) + 1, last) = SubSeq(sql, i, last)
      <3>1. i \in 1 .. last + 1 /\ j - 1 \in i - 1 .. last /\ last \in j - 1 .. last
        BY <1>2
      <3> QED BY <3>1, ConcatAdjacentSubSeq
    <2>4. SubSeq(sql, j, last) = <<sql[j]>> \o rest
      <3>1. j \in 1 .. last /\ last \in j .. last
        BY <1>2
      <3> QED BY <3>1, SubSeqRecursiveFirst
    <2> HIDE DEF before, w, rest, last
    <2> QED BY ONLY <2>1, <2>2, <2>3, <2>4, Zenon
  <1>5. EndsLine(before)
    <2>1. CASE i = 1
      BY <1>3, <2>1 DEF EndsLine
    <2>2. CASE i # 1
      <3> PICK n : n = i - 1
        OBVIOUS
      <3>1. n \in 1 .. n /\ sql[n] = Newline /\ n = Len(before)
        BY <1>2, <1>3, <2>2
      <3>2. before[n] = sql[n]
        BY <1>3, <3>1
      <3> HIDE DEF before
      <3> QED BY <3>1, <3>2 DEF EndsLine
    <2> QED BY <2>1, <2>2
  <1>6. StartsLine(rest)
    <2>1. CASE j = last
      <3>1. Len(rest) = 0
        BY <1>2, <1>3, <2>1
      <3> HIDE DEF rest
      <3> QED BY <1>3, <3>1, EmptySeq DEF StartsLine
    <2>2. CASE j # last
      <3>1. 1 \in 1 .. last - j /\ (j + 1) + 1 - 1 = j + 1
        BY <1>2, <2>2
      <3> HIDE DEF rest
      <3>2. rest[1] = sql[j + 1]
        BY ONLY <1>3, <3>1
      <3> QED BY <1>2, <2>2, <3>2 DEF StartsLine
    <2> QED BY <2>1, <2>2
  <1>7. j \in 0 .. last
    BY <1>2
  <1> QED BY <1>2, <1>3, <1>4, <1>5, <1>6, <1>7, Zenon DEF i, j, m

\* The text before the command becomes the block, without the space before it.
LEMMA BlockBeforeReads ==
    ASSUME Typed, Shaped, ReadSoFar, Search, Commands # {}, Typed'
    PROVE  Shaped' /\ ReadSoFar'
  <1> DEFINE m == First(Commands)
             before == SubSeq(sql, 1, m[1] - 1)
             w == SubSeq(sql, m[1], m[2] - 1)
             rest == SubSeq(sql, m[2] + 1, Len(sql))
             c == sql[m[2]]
             b == Strip(before)
             u == <<c>> \o rest
  <1>1. /\ block' = b /\ found' = c /\ sql' = rest /\ pc = "search"
        /\ pc' = IF b = <<>> THEN "command" ELSE "block"
        /\ UNCHANGED <<script, ignore, delimiter, yielded>>
    BY DEF Search
  <1>2. sql \in Seq(Tokens) /\ CommandsEnd(sql)
    BY DEF Typed, Shaped
  <1>3. /\ before \in Seq(Tokens) /\ w \in Seq(Tokens) /\ rest \in Seq(Tokens)
        /\ c \in DOMAIN argument /\ c \in Tokens
        /\ sql = before \o (w \o u)
        /\ EndsLine(before) /\ Len(before) = m[1] - 1
        /\ IsBlank(w)
        /\ StartsLine(rest)
        /\ m[2] \in 0 .. Len(sql)
    BY <1>2, CommandParts
  <1>4. \A n \in Commands : m[1] <= n[1]
    BY <1>2, LeftmostCommand
  <1>5. m[1] \in Nat
    BY <1>2, FirstCommand
  <1>6. CommandsEnd(rest)
    <2> DEFINE k == m[2]
    <2>1. k \in 0 .. Len(sql)
      BY <1>3
    <2> HIDE DEF k
    <2>2. CommandsEnd(SubSeq(sql, k + 1, Len(sql)))
      BY <1>2, <2>1, CommandsEndAfter
    <2> QED BY <2>2 DEF k
  <1>7. u \in Seq(Tokens)
    <2> DEFINE cs == <<c>>
    <2>1. cs \in Seq(Tokens) /\ rest \in Seq(Tokens)
      <3> HIDE DEF c, rest
      <3>1. c \in Tokens /\ rest \in Seq(Tokens)
        BY ONLY <1>3
      <3> QED BY ONLY <3>1
    <2> HIDE DEF cs, rest
    <2>2. cs \o rest \in Seq(Tokens)
      BY ONLY <2>1, ConcatProperties
    <2> QED BY ONLY <2>2 DEF cs
  <1> HIDE DEF m, before, w, rest, c, u
  <1>8. NoCommand(before)
    <2>1. ASSUME NEW a \in Seq(Tokens), NEW l \in Seq(Tokens), NEW z \in Seq(Tokens),
                 before = a \o (l \o z), EndsLine(a), IsCommand(l)
          PROVE  FALSE
      <3> DEFINE wu == w \o u
                 lz == l \o z
                 zwu == z \o wu
      <3>1. wu \in Seq(Tokens) /\ lz \in Seq(Tokens) /\ zwu \in Seq(Tokens)
        BY <1>3, <1>7
      <3> HIDE DEF wu, lz, zwu
      <3>2. Associate(a, lz, wu) /\ Associate(l, z, wu)
        BY <3>1, AnyAssociate
      <3>3. sql = a \o (l \o zwu)
        BY ONLY <1>3, <2>1, <3>2, Zenon DEF Associate, wu, lz, zwu
      <3>4. (\E n \in Commands : n[1] = Len(a) + 1) /\ Len(l) > 0
        BY <1>2, <2>1, <3>1, <3>3, CommandThere
      <3>5. m[1] <= Len(a) + 1
        BY <1>4, <3>4
      <3>6. /\ Len(before) = Len(a) + Len(l) + Len(z)
            /\ Len(a) \in Nat /\ Len(l) \in Nat /\ Len(z) \in Nat
        BY <2>1, ThreeParts
      <3> QED BY ONLY <1>3, <1>5, <3>4, <3>5, <3>6
    <2> QED BY <2>1 DEF NoCommand
  <1>9. b \in Seq(Tokens) /\ NoCommand(b)
    BY <1>3, <1>8, NoCommandStrip, StripType
  <1>10. SameReading(sql, b \o (<<Newline>> \o u))
    <2>1. SameReading(before \o (w \o u), b \o (<<Newline>> \o u))
      BY <1>3, <1>7, StrippedReads
    <2> QED BY ONLY <1>3, <2>1, Zenon
  <1> HIDE DEF b
  <1>11. Shaped'
    BY <1>1, <1>3, <1>6, <1>9 DEF Shaped
  <1>12. AfterBlock' = u
    BY <1>1, <1>3, DelimitersAssumption DEF AfterBlock, u
  <1>13. ReadSoFar'
    BY <1>1, <1>7, <1>9, <1>10, <1>12, BlockReads
  <1> QED BY <1>11, <1>13

-----------------------------------------------------------------------------
(* The block.                                                              *)

LEMMA ClientNext ==
    ASSUME Typed', Shaped'
    PROVE  /\ Statements' = StatementsOf(yielded')
           /\ Client' \in Readers
           /\ Client'.statements = Statements' /\ Client'.pending = <<>>
           /\ Client'.ender = delimiter' /\ Client'.whole = ignore'
           /\ Client' = Reader(Statements', <<>>, delimiter', ignore')
  <1>1. yielded' \in Seq(Seq(Tokens)) /\ delimiter' \in Delims /\ ignore' \in Ignores
    BY DEF Typed, Shaped
  <1>2. Statements' = StatementsOf(yielded') /\ StatementsOf(yielded') \in Seq(Seq(Tokens))
    BY <1>1, StatementsType DEF Statements, StatementsOf
  <1>3. Statements' \in Seq(Seq(Tokens)) /\ <<>> \in Seq(Tokens)
    BY <1>2
  <1> DEFINE st == Statements'
             e == <<>>
             d == delimiter'
             i == ignore'
  <1> HIDE DEF st, e, d, i
  <1>4. LET r == Reader(st, e, d, i) IN
        /\ r \in Readers /\ r.statements = st /\ r.pending = e
        /\ r.ender = d /\ r.whole = i
    <2>1. st \in Seq(Seq(Tokens)) /\ e \in Seq(Tokens) /\ d \in Delims /\ i \in Ignores
      BY <1>1, <1>3 DEF st, e, d, i
    <2> QED BY ONLY <2>1, ReaderIs
  <1>5. Client' = Reader(st, e, d, i)
    BY DEF Client, st, e, d, i
  <1> QED BY <1>2, <1>4, <1>5 DEF st, e, d, i

\* The statements that come out are those that the client has.
LEMMA Yields ==
    ASSUME Typed, Shaped, Typed', Shaped', NEW x \in Seq(Tokens),
           yielded' = Append(yielded, x)
    PROVE  Statements' = IF Words(x) = <<>> THEN Statements ELSE Append(Statements, Words(x))
  <1>1. yielded \in Seq(Seq(Tokens))
    BY DEF Typed
  <1>2. StatementsOf(Append(yielded, x)) =
          IF Words(x) = <<>> THEN StatementsOf(yielded)
          ELSE Append(StatementsOf(yielded), Words(x))
    BY <1>1, StatementsAppend
  <1>3. Statements = StatementsOf(yielded) /\ Statements' = StatementsOf(yielded')
    BY ClientType, ClientNext
  <1> QED BY <1>2, <1>3

\* No line of a block that is not cut ends a statement.
LEMMA QuietBlock ==
    ASSUME Typed, Shaped, pc = "block", delimiter = ignore \/ Enders = {}
    PROVE  Quiet(Client, block \o <<Newline>>)
  <1>1. block \in Seq(Tokens) /\ delimiter \in Delims /\ NoCommand(block)
    BY DEF Typed, Shaped
  <1>2. Client.ender = delimiter /\ Client.whole = ignore
    BY ClientType
  <1>3. ASSUME NEW a \in Seq(Tokens), NEW l \in Seq(Tokens), NEW z \in Seq(Tokens),
               block \o <<Newline>> = a \o (l \o (<<Newline>> \o z)),
               EndsLine(a), Plain(l)
        PROVE  ~IsCommand(l) /\ ~IsEnding(Client, l)
    <2>1. PICK y \in Seq(Tokens) : block = a \o (l \o y) /\ StartsLine(y)
      <3>1. EndsWith(block, a, l, z)
        BY <1>3, Zenon DEF EndsWith
      <3>2. block \in Seq(Tokens)
        BY <1>1
      <3>3. \E y \in Seq(Tokens) : block = a \o (l \o y) /\ StartsLine(y)
        BY ONLY <3>1, <3>2, WithoutNewline, a \in Seq(Tokens), l \in Seq(Tokens),
                z \in Seq(Tokens), ZenonT(40)
      <3> QED BY <3>3, Zenon
    <2>2. ~IsCommand(l)
      BY <1>1, <1>3, <2>1 DEF NoCommand
    <2>3. ASSUME IsEnding(Client, l) PROVE FALSE
      <3>1. delimiter # ignore /\ IsSuffix(delimiter, Strip(l))
        BY <1>2, <2>3 DEF IsEnding
      <3>2. Enders # {}
        BY <1>1, <2>1, <3>1, EnderThere
      <3> QED BY <3>1, <3>2
    <2> QED BY <2>2, <2>3
  <1> QED BY <1>3 DEF Quiet

\* The rest of the block is one statement.
LEMMA WholeReads ==
    ASSUME Typed, Shaped, ReadSoFar, Typed', Shaped',
           pc = "block", delimiter = ignore \/ Enders = {},
           yielded' = Append(yielded, block), pc' = "command",
           UNCHANGED <<script, ignore, sql, found, delimiter>>
    PROVE  ReadSoFar'
  <1> DEFINE nl == <<Newline>>
             after == AfterBlock
             at == At(Client, <<>>)
             r == With(Client, block)
             s == Client'
  <1>1. /\ block \in Seq(Tokens) /\ after \in Seq(Tokens) /\ nl \in Seq(Tokens)
        /\ found # none => StartsLine(sql)
    <2>1. nl \in Seq(Tokens)
      BY ScriptsAssumption
    <2>2. found # none => StartsLine(sql)
      BY DEF Shaped
    <2> QED BY <2>1, <2>2, AfterType DEF Typed
  <1>2. /\ Client \in Readers /\ Client.statements = Statements /\ Client.pending = <<>>
        /\ Client.whole = ignore /\ at \in Places
    BY ClientType, FinishedStart
  <1>3. /\ s \in Readers /\ s.statements = Statements' /\ s.pending = <<>> /\ s.whole = ignore
    BY ClientNext
  <1>4. /\ r \in Readers /\ r.statements = Statements
        /\ r.pending = Words(block) /\ r.whole = ignore
    <2>1. /\ r \in Readers /\ r.statements = Client.statements
          /\ r.pending = Client.pending \o Words(block) /\ r.whole = Client.whole
      BY <1>1, <1>2, WithType
    <2>2. Words(block) \in Seq(Tokens)
      BY <1>1, WordsType
    <2>3. <<>> \o Words(block) = Words(block)
      BY ONLY <2>2, ConcatEmptySeq
    <2> QED BY <1>2, <2>1, <2>3
  <1>5. AfterBlock' = after
    BY DEF AfterBlock
  <1>6. ToRead = block \o (nl \o after) /\ ToRead' = after
    BY <1>5 DEF ToRead
  <1> DEFINE bn == block \o nl
  <1>7. bn \in Seq(Tokens)
    BY <1>1
  <1>8. Read(at, bn) = At(r, <<>>)
    <2>1. Quiet(Client, block \o <<Newline>>)
      BY QuietBlock
    <2> QED BY <1>1, <1>2, <2>1, QuietRead
  <1>9. Associate(block, nl, after)
    <2> HIDE DEF nl, after
    <2> QED BY <1>1, AnyAssociate
  <1> HIDE DEF bn, nl, after, at
  <1>10. Read(at, bn \o after) = Read(Read(at, bn), after)
    BY <1>1, <1>2, <1>7, ReadConcat
  <1>11. Read(at, ToRead) = Read(At(r, <<>>), after)
    BY ONLY <1>6, <1>8, <1>9, <1>10, Zenon DEF Associate, bn
  <1>12. s.statements = Flushed(r, r.pending)
    <2>1. Statements' = IF Words(block) = <<>> THEN Statements
                        ELSE Append(Statements, Words(block))
      BY <1>1, Yields
    <2> HIDE DEF r, s
    <2> QED BY <1>3, <1>4, <2>1 DEF Flushed
  <1> HIDE DEF r, s
  <1>13. End(Read(At(r, <<>>), after)) = End(Read(At(s, <<>>), after))
    BY <1>1, <1>3, <1>4, <1>12, AfterReads DEF after
  <1>14. End(Read(At(Client, <<>>), ToRead)) = End(Read(At(Client', <<>>), ToRead'))
    BY ONLY <1>6, <1>11, <1>13, Zenon DEF at, s
  <1> QED BY <1>14, SameRead

\* The parts of the block at the delimiter that is found.
LEMMA EnderParts ==
    ASSUME block \in Seq(Tokens), delimiter \in Delims, Enders # {}
    PROVE  LET x == SubSeq(block, 1, Ender[1] - 1)
               w == SubSeq(block, Ender[1] + Len(delimiter), Ender[2])
               rest == SubSeq(block, Ender[2] + 1, Len(block))
           IN  /\ x \in Seq(Tokens) /\ w \in Seq(Tokens) /\ rest \in Seq(Tokens)
               /\ delimiter \in Seq(Tokens)
               /\ block = x \o (delimiter \o (w \o rest))
               /\ Len(x) = Ender[1] - 1
               /\ IsBlank(w)
               /\ rest = <<>> \/ (w # <<>> /\ w[Len(w)] = Newline)
  <1> DEFINE i == Ender[1]
             j == Ender[2]
             ld == Len(delimiter)
             last == Len(block)
             d1 == i + ld - 1
             x == SubSeq(block, 1, i - 1)
             w == SubSeq(block, Ender[1] + Len(delimiter), j)
             rest == SubSeq(block, j + 1, last)
  <1>1. /\ delimiter \in Seq(Tokens \cup {";"}) /\ delimiter # <<>>
        /\ delimiter[ld] \notin Space /\ ld \in Nat /\ ld > 0
    <2>1. delimiter \in Seq(Tokens \cup {";"}) /\ IsDelimiter(delimiter)
      BY DEF Delims
    <2>2. ld \in Nat /\ ld # 0
      BY ONLY <2>1, LenProperties, EmptySeq DEF IsDelimiter
    <2>3. delimiter # <<>> /\ delimiter[Len(delimiter)] \notin Space
      BY ONLY <2>1 DEF IsDelimiter
    <2>4. ld > 0
      BY ONLY <2>2
    <2> QED BY ONLY <2>1, <2>2, <2>3, <2>4
  <1>2. Ender \in Enders
    <2> DEFINE T == Tokens \cup {";"}
    <2>1. delimiter \in Seq(T)
      BY <1>1
    <2> HIDE DEF T
    <2> QED BY <2>1, LeftmostEnder
  <1>3. /\ i \in 1 .. last + 1 - ld /\ SubSeq(block, i, d1) = delimiter
        /\ j \in 1 .. last /\ d1 <= j
        /\ IsBlank(w)
        /\ j = last \/ block[j] = Newline
    <2>1. DOMAIN block = 1 .. last
      OBVIOUS
    <2> QED BY <1>2, <2>1 DEF Enders, DelimitersAt, Delimited
  <1> HIDE DEF i, j, ld
  <1>4. last \in Nat /\ i \in 1 .. last /\ d1 \in i .. last /\ d1 + 1 = i + ld
    <2>1. last \in Nat /\ ld \in Nat /\ ld > 0 /\ i \in 1 .. last + 1 - ld
      <3>1. last \in Nat
        BY block \in Seq(Tokens), LenProperties
      <3> HIDE DEF last
      <3> QED BY ONLY <1>1, <1>3, <3>1
    <2> HIDE DEF last
    <2> QED BY ONLY <2>1 DEF d1
  <1>5. delimiter \in Seq(Tokens) /\ Len(delimiter) = d1 - i + 1
        /\ delimiter[ld] = block[d1]
    <2> DEFINE d == SubSeq(block, i, d1)
    <2>1. d \in Seq(Tokens) /\ Len(d) = d1 - i + 1
      BY <1>4
    <2>2. ld \in 1 .. d1 - i + 1 /\ i + ld - 1 = d1
      <3>1. last \in Nat /\ ld \in Nat /\ ld > 0 /\ i \in 1 .. last + 1 - ld
        BY <1>1, <1>3, <1>4
      <3> HIDE DEF last
      <3> QED BY ONLY <3>1 DEF d1
    <2>3. \A n \in 1 .. d1 - i + 1 : d[n] = block[i + n - 1]
      <3> HIDE DEF d1
      <3> QED BY <1>4
    <2> HIDE DEF d
    <2>4. d[ld] = block[d1]
      BY <2>2, <2>3
    <2> QED BY <1>3, <2>1, <2>4 DEF d
  <1>6. x \in Seq(Tokens) /\ Len(x) = i - 1 /\ rest \in Seq(Tokens)
    BY <1>3, <1>4
  <1>7. w = SubSeq(block, d1 + 1, j)
    BY <1>4 DEF i, ld
  <1> HIDE DEF d1, w
  <1>8. w \in Seq(Tokens) /\ Len(w) = j - d1
        /\ \A n \in 1 .. j - d1 : w[n] = block[(d1 + 1) + n - 1]
    BY <1>3, <1>4, <1>7
  <1>9. block = x \o (delimiter \o (w \o rest))
    <2>1. block = x \o SubSeq(block, (i - 1) + 1, last)
      <3>1. i - 1 \in 0 .. last
        BY <1>4
      <3> HIDE DEF x
      <3> QED BY <3>1, SplitAt DEF x
    <2>2. (i - 1) + 1 = i
      BY <1>4
    <2>3. SubSeq(block, i, d1) \o SubSeq(block, d1 + 1, last) = SubSeq(block, i, last)
      <3>1. i \in 1 .. last + 1 /\ d1 \in i - 1 .. last /\ last \in d1 .. last
        BY <1>4
      <3> QED BY <3>1, ConcatAdjacentSubSeq
    <2>4. w \o rest = SubSeq(block, d1 + 1, last)
      <3>1. d1 + 1 \in 1 .. last + 1 /\ j \in (d1 + 1) - 1 .. last /\ last \in j .. last
        BY <1>3, <1>4
      <3>2. SubSeq(block, d1 + 1, j) \o SubSeq(block, j + 1, last) = SubSeq(block, d1 + 1, last)
        BY <3>1, ConcatAdjacentSubSeq
      <3> QED BY <1>7, <3>2
    <2> HIDE DEF x, rest, last
    <2> QED BY ONLY <1>3, <2>1, <2>2, <2>3, <2>4, Zenon
  <1>10. rest = <<>> \/ (w # <<>> /\ w[Len(w)] = Newline)
    <2>1. CASE j = last
      <3>1. SubSeq(block, last + 1, last) = <<>>
        BY <1>4, SubSeqEmpty
      <3> QED BY <2>1, <3>1
    <2>2. CASE block[j] = Newline
      <3>1. j # d1
        BY <1>1, <1>5, <2>2 DEF Space
      <3> PICK n : n = j - d1
        OBVIOUS
      <3>2. n \in 1 .. j - d1 /\ (d1 + 1) + n - 1 = j /\ n = Len(w)
        BY <1>3, <1>4, <1>8, <3>1
      <3>3. w[n] = Newline
        BY <1>8, <2>2, <3>2
      <3>4. w # <<>>
        BY <3>2
      <3> QED BY <3>2, <3>3, <3>4
    <2> QED BY <1>3, <2>1, <2>2
  <1> QED BY <1>3, <1>5, <1>6, <1>8, <1>9, <1>10, Zenon DEF i, j, w

-----------------------------------------------------------------------------
(* A statement and its delimiter.                                          *)

\* What is after the end of a line of a text without commands.
LEMMA RestNoCommand ==
    ASSUME NEW x \in Seq(Tokens), NEW d \in Seq(Tokens), NEW w \in Seq(Tokens),
           NEW rest \in Seq(Tokens), NoCommand(x \o (d \o (w \o rest))),
           rest = <<>> \/ (w # <<>> /\ w[Len(w)] = Newline)
    PROVE  NoCommand(rest)
  <1>1. CASE rest = <<>>
    BY <1>1, NoCommandEmpty
  <1>2. CASE w # <<>> /\ w[Len(w)] = Newline
    <2> DEFINE dw == d \o w
               u == x \o dw
    <2>1. dw \in Seq(Tokens) /\ Len(dw) = Len(d) + Len(w)
          /\ \A i \in 1 .. Len(w) : dw[Len(d) + i] = w[i]
      BY TwoParts
    <2>2. Len(w) \in 1 .. Len(w) /\ Len(w) \in Nat /\ Len(d) \in Nat /\ Len(x) \in Nat
      BY <1>2, EmptySeq, LenProperties
    <2>3. dw[Len(dw)] = Newline /\ Len(dw) \in 1 .. Len(dw)
      BY <1>2, <2>1, <2>2
    <2>4. Associate(d, w, rest) /\ Associate(x, dw, rest)
      BY <2>1, AnyAssociate
    <2> HIDE DEF dw
    <2>5. u \in Seq(Tokens) /\ Len(u) = Len(x) + Len(dw)
          /\ \A i \in 1 .. Len(dw) : u[Len(x) + i] = dw[i]
      <3>1. dw \in Seq(Tokens)
        BY <2>1
      <3> QED BY ONLY <3>1, x \in Seq(Tokens)
    <2>6. EndsLine(u)
      <3> HIDE DEF u
      <3>1. u[Len(u)] = Newline
        BY ONLY <2>3, <2>5
      <3> QED BY ONLY <3>1 DEF EndsLine
    <2>7. u \o rest = x \o (d \o (w \o rest))
      BY ONLY <2>4, Zenon DEF Associate, u, dw
    <2> HIDE DEF u
    <2>8. NoCommand(u \o rest)
      BY <2>7
    <2> QED BY <2>5, <2>6, <2>8, NoCommandAfter
  <1> QED BY <1>1, <1>2

\* The reader of a statement comes to the end of it.
LEMMA StatementLine ==
    ASSUME NEW r \in Readers, NEW x \in Seq(Tokens), NEW d \in Seq(Tokens),
           NEW y \in Seq(Tokens), Quiet(r, x), NoCommand(x \o (d \o y)),
           d = r.ender, r.ender # r.whole, r.pending = <<>>
    PROVE  /\ Read(Read(At(r, <<>>), x), d) \in Places
           /\ Finished(Read(Read(At(r, <<>>), x), d))
                = Reader(Flushed(r, Words(x)), <<>>, r.ender, r.whole)
  <1>1. PICK a, l \in Seq(Tokens) :
           /\ x = a \o l /\ EndsLine(a) /\ Plain(l)
           /\ Read(At(r, <<>>), x) = At(With(r, a), l)
    BY QuietPrefix
  <1> DEFINE s == With(r, a)
             ld == l \o d
             e == <<>>
  <1>2. Words(a) \in Seq(Tokens) /\ Words(l) \in Seq(Tokens)
    BY <1>1, WordsType
  <1>3. /\ s \in Readers /\ s.statements = r.statements
        /\ s.pending = Words(a) /\ s.ender = r.ender /\ s.whole = r.whole
    <2>1. s \in Readers /\ s.statements = r.statements
          /\ s.pending = r.pending \o Words(a) /\ s.ender = r.ender /\ s.whole = r.whole
      BY <1>1, WithType
    <2>2. <<>> \o Words(a) = Words(a)
      BY ONLY <1>2, ConcatEmptySeq
    <2> HIDE DEF s
    <2> QED BY <2>1, <2>2
  <1> HIDE DEF s
  <1>4. Plain(d) /\ IsDelimiter(d)
    <2>1. IsDelimiter(d)
      BY ReaderType
    <2> QED BY <2>1 DEF IsDelimiter, Plain, ToSet
  <1>5. Read(At(s, l), d) = At(s, ld)
    BY <1>1, <1>3, <1>4, ReadPlain
  <1>6. ld \in Seq(Tokens)
    BY <1>1
  <1>7. ~IsCommand(ld)
    <2> DEFINE dy == d \o y
    <2>1. dy \in Seq(Tokens)
      OBVIOUS
    <2>2. Associate(a, l, dy) /\ Associate(l, d, y)
      BY <1>1, <2>1, AnyAssociate
    <2>3. x \o (d \o y) = a \o (ld \o y)
      BY ONLY <1>1, <2>2, Zenon DEF Associate, dy, ld
    <2> HIDE DEF ld
    <2> QED BY <1>1, <1>6, <2>3 DEF NoCommand
  <1>8. ReadLine(s, ld) = Reader(Flushed(s, s.pending \o Words(l)), e, s.ender, s.whole)
    BY <1>1, <1>3, <1>4, <1>7, EndingReads
  <1>9. Words(x) = Words(a) \o Words(l)
    BY <1>1, WordsConcat
  <1>10. Flushed(s, Words(x)) = Flushed(r, Words(x))
    BY <1>3 DEF Flushed
  <1> HIDE DEF ld, e
  <1>11. At(s, ld) \in Places /\ Finished(At(s, ld)) = ReadLine(s, ld)
    BY <1>3, <1>6, AtType, FinishedAt
  <1>12. Read(Read(At(r, <<>>), x), d) = At(s, ld)
    BY ONLY <1>1, <1>5, Zenon DEF s
  <1>13. ReadLine(s, ld) = Reader(Flushed(r, Words(x)), e, r.ender, r.whole)
    BY ONLY <1>3, <1>8, <1>9, <1>10, Zenon
  <1> QED BY ONLY <1>11, <1>12, <1>13, Zenon DEF e

\* After the delimiter, the next statement starts.
LEMMA AfterDelimiter ==
    ASSUME NEW at \in Places, NEW w \in Seq(Tokens), IsBlank(w), NEW rest \in Seq(Tokens),
           NEW u \in Seq(Tokens),
           rest = <<>> \/ (w # <<>> /\ w[Len(w)] = Newline)
    PROVE  End(Read(Read(at, w), rest \o (<<Newline>> \o u)))
             = End(Read(At(Finished(at), <<>>), rest \o (<<Newline>> \o u)))
  <1> DEFINE nl == <<Newline>>
             nu == nl \o u
             start == At(Finished(at), <<>>)
  <1>1. nl \in Seq(Tokens)
    BY ScriptsAssumption
  <1>2. nu \in Seq(Tokens) /\ nu # <<>> /\ nu[1] = Newline
    BY <1>1
  <1>3. CASE rest = <<>>
    <2>1. <<>> \o nu = nu
      BY <1>2, ConcatEmptySeq
    <2> HIDE DEF nu
    <2>2. Read(at, w) \in Places /\ Finished(Read(at, w)) = Finished(at)
      BY BlankAfter
    <2>3. End(Read(Read(at, w), nu)) = End(Read(At(Finished(Read(at, w)), <<>>), nu))
      BY <1>2, <2>2, StartsReads DEF StartsLine
    <2> QED BY ONLY <1>3, <2>1, <2>2, <2>3, Zenon DEF nu
  <1>4. CASE w # <<>> /\ w[Len(w)] = Newline
    <2>1. Read(at, w) = Read(at, nl)
      BY <1>4, BlankEnds
    <2>2. Read(at, nl) = start
      BY ReadNewline
    <2> QED BY ONLY <2>1, <2>2, Zenon DEF start
  <1> QED BY <1>3, <1>4

-----------------------------------------------------------------------------
(* The statements of a block.                                              *)

\* No line before the delimiter that is found ends a statement.
LEMMA QuietBefore ==
    ASSUME Typed, Shaped, pc = "block", Enders # {},
           NEW x \in Seq(Tokens), NEW y \in Seq(Tokens),
           block = x \o y, Len(x) = Ender[1] - 1
    PROVE  Quiet(Client, x)
  <1>1. block \in Seq(Tokens) /\ delimiter \in Delims /\ NoCommand(block)
    BY DEF Typed, Shaped
  <1>2. Client.ender = delimiter /\ Client.whole = ignore
    BY ClientType
  <1>3. /\ delimiter \in Seq(Tokens \cup {";"}) /\ Len(delimiter) \in Nat
        /\ Len(delimiter) > 0
    <2>1. delimiter \in Seq(Tokens \cup {";"}) /\ delimiter # <<>>
      BY <1>1 DEF Delims, IsDelimiter
    <2>2. Len(delimiter) \in Nat /\ Len(delimiter) # 0
      BY ONLY <2>1, LenProperties, EmptySeq
    <2>3. Len(delimiter) > 0
      BY ONLY <2>2
    <2> QED BY ONLY <2>1, <2>2, <2>3
  <1>4. ASSUME NEW a \in Seq(Tokens), NEW l \in Seq(Tokens), NEW z \in Seq(Tokens),
               x = a \o (l \o (<<Newline>> \o z)), EndsLine(a), Plain(l)
        PROVE  ~IsCommand(l) /\ ~IsEnding(Client, l)
    <2> DEFINE nz == <<Newline>> \o z
               lnz == l \o nz
               nzy == nz \o y
    <2>1. <<Newline>> \in Seq(Tokens)
      BY ScriptsAssumption
    <2>2. nz \in Seq(Tokens) /\ Len(nz) = Len(z) + 1 /\ nz[1] = Newline
      BY <2>1
    <2> HIDE DEF nz
    <2>3. lnz \in Seq(Tokens) /\ Len(lnz) = Len(l) + Len(nz)
      <3>1. nz \in Seq(Tokens)
        BY <2>2
      <3> QED BY ONLY <3>1, l \in Seq(Tokens)
    <2>4. nzy \in Seq(Tokens) /\ nzy[1] = Newline
      <3>1. Len(z) \in Nat
        BY LenProperties
      <3>2. nz \in Seq(Tokens) /\ Len(nz) \in Nat /\ 1 \in 1 .. Len(nz)
        BY ONLY <2>2, <3>1
      <3>3. nzy \in Seq(Tokens) /\ nzy[1] = nz[1]
        BY ONLY <3>2, y \in Seq(Tokens)
      <3> QED BY <2>2, <3>3
    <2>5. Associate(a, lnz, y) /\ Associate(l, nz, y)
      BY <2>2, <2>3, AnyAssociate
    <2> HIDE DEF nzy, lnz
    <2>6. Len(x) = Len(a) + Len(lnz)
      BY <1>4, <2>3 DEF lnz, nz
    <2>7. block = a \o (l \o nzy)
      BY ONLY <1>4, <2>5, block = x \o y, Zenon DEF Associate, lnz, nz, nzy
    <2>8. ~IsCommand(l)
      BY <1>1, <1>4, <2>4, <2>7 DEF NoCommand
    <2>9. ASSUME IsEnding(Client, l) PROVE FALSE
      <3>1. IsSuffix(delimiter, Strip(l)) /\ StartsLine(nzy)
        BY <1>2, <2>4, <2>9 DEF IsEnding, StartsLine
      <3>2. PICK m \in Enders : m[1] + Len(delimiter) - 1 <= Len(a) + Len(l)
        BY <1>1, <2>4, <2>7, <3>1, EnderThere
      <3>3. Ender[1] <= m[1]
        <4> DEFINE T == Tokens \cup {";"}
        <4>1. delimiter \in Seq(T)
          BY <1>3
        <4> HIDE DEF T
        <4> QED BY <1>1, <3>2, <4>1, LeftmostEnder
      <3>4. m[1] \in Nat /\ Ender[1] \in Nat
        <4> DEFINE T == Tokens \cup {";"}
        <4>1. delimiter \in Seq(T)
          BY <1>3
        <4> HIDE DEF T
        <4>2. Ender \in Enders
          BY <1>1, <4>1, LeftmostEnder
        <4>3. DelimitersAt \subseteq Nat
          BY DEF DelimitersAt
        <4>4. \A n \in Enders : n[1] \in DelimitersAt
          BY DEF Enders
        <4> QED BY ONLY <4>2, <4>3, <4>4, <3>2
      <3>5. /\ Len(x) \in Nat /\ Len(a) \in Nat /\ Len(l) \in Nat /\ Len(z) \in Nat
            /\ Len(x) = Ender[1] - 1
        BY LenProperties
      <3> DEFINE lx == Len(x)
                 la == Len(a)
                 ll == Len(l)
                 lz == Len(z)
                 ld == Len(delimiter)
                 m1 == m[1]
                 e1 == Ender[1]
      <3>6. /\ lx = la + (ll + (lz + 1)) /\ m1 + ld - 1 <= la + ll /\ e1 <= m1
            /\ m1 \in Nat /\ e1 \in Nat /\ lx \in Nat /\ la \in Nat /\ ll \in Nat
            /\ lz \in Nat /\ lx = e1 - 1 /\ ld \in Nat /\ ld > 0
        BY ONLY <1>3, <2>2, <2>3, <2>6, <3>2, <3>3, <3>4, <3>5
      <3> HIDE DEF lx, la, ll, lz, ld, m1, e1
      <3> QED BY ONLY <3>6
    <2> QED BY <2>8, <2>9
  <1> QED BY <1>4 DEF Quiet

\* What is yielded, and what becomes of the block.
LEMMA StatementParts ==
    ASSUME Typed, Shaped, YieldStatement
    PROVE  \E x, w, rest \in Seq(Tokens) :
              /\ delimiter \in Seq(Tokens)
              /\ block = x \o (delimiter \o (w \o rest))
              /\ Len(x) = Ender[1] - 1
              /\ IsBlank(w)
              /\ rest = <<>> \/ (w # <<>> /\ w[Len(w)] = Newline)
              /\ yielded' = Append(yielded, x) /\ block' = rest
  <1>1. block \in Seq(Tokens) /\ delimiter \in Delims /\ Enders # {}
    BY DEF Typed, Shaped, YieldStatement
  <1> DEFINE x == SubSeq(block, 1, Ender[1] - 1)
             w == SubSeq(block, Ender[1] + Len(delimiter), Ender[2])
             rest == SubSeq(block, Ender[2] + 1, Len(block))
  <1>2. /\ x \in Seq(Tokens) /\ w \in Seq(Tokens) /\ rest \in Seq(Tokens)
        /\ delimiter \in Seq(Tokens)
        /\ block = x \o (delimiter \o (w \o rest))
        /\ Len(x) = Ender[1] - 1
        /\ IsBlank(w)
        /\ rest = <<>> \/ (w # <<>> /\ w[Len(w)] = Newline)
    BY <1>1, EnderParts
  <1>3. yielded' = Append(yielded, x) /\ block' = rest
    BY DEF YieldStatement
  <1> HIDE DEF x, w, rest
  <1> QED BY <1>2, <1>3

\* The client reads the same statement, up to the same delimiter.
LEMMA StatementReads ==
    ASSUME Typed, Shaped, ReadSoFar, YieldStatement, Typed'
    PROVE  Shaped' /\ ReadSoFar'
  <1> DEFINE d == delimiter
             nl == <<Newline>>
             after == AfterBlock
             r == Client
             s == Client'
  <1>1. PICK x, w, rest \in Seq(Tokens) :
           /\ d \in Seq(Tokens)
           /\ block = x \o (d \o (w \o rest))
           /\ Len(x) = Ender[1] - 1
           /\ IsBlank(w)
           /\ rest = <<>> \/ (w # <<>> /\ w[Len(w)] = Newline)
           /\ yielded' = Append(yielded, x) /\ block' = rest
    BY StatementParts
  <1>2. /\ pc = "block" /\ delimiter # ignore /\ Enders # {}
        /\ UNCHANGED <<script, ignore, sql, found, delimiter, pc>>
    BY DEF YieldStatement
  <1>3. NoCommand(block) /\ NoCommand(rest)
    <2>1. NoCommand(block)
      BY <1>2 DEF Shaped
    <2> QED BY <1>1, <2>1, RestNoCommand
  <1>4. Shaped'
    BY <1>1, <1>2, <1>3 DEF Shaped
  <1>5. /\ r \in Readers /\ r.statements = Statements /\ r.pending = <<>>
        /\ r.ender = d /\ r.whole = ignore
    BY ClientType
  <1>6. s = Reader(Statements', <<>>, d, ignore)
    BY <1>2, <1>4, ClientNext
  <1>7. Statements' = Flushed(r, Words(x))
    <2>1. Statements' = IF Words(x) = <<>> THEN Statements ELSE Append(Statements, Words(x))
      BY <1>1, <1>4, Yields
    <2> HIDE DEF r
    <2> QED BY <1>5, <2>1 DEF Flushed
  <1> DEFINE y == w \o rest
             dy == d \o y
             at == At(r, <<>>)
             there == Read(Read(at, x), d)
  <1>8. y \in Seq(Tokens) /\ dy \in Seq(Tokens)
    BY <1>1
  <1>9. Quiet(r, x)
    <2>1. block = x \o dy
      BY <1>1
    <2> HIDE DEF dy, r
    <2> QED BY <1>1, <1>2, <1>8, <2>1, QuietBefore DEF r
  <1>10. there \in Places /\ Finished(there) = s
    <2>1. NoCommand(x \o (d \o y)) /\ r.ender # r.whole /\ d = r.ender
      BY <1>1, <1>2, <1>3, <1>5
    <2> HIDE DEF r, s, d, y
    <2>2. /\ there \in Places
          /\ Finished(there) = Reader(Flushed(r, Words(x)), <<>>, r.ender, r.whole)
      BY <1>1, <1>5, <1>8, <1>9, <2>1, StatementLine
    <2> QED BY ONLY <1>5, <1>6, <1>7, <2>2, Zenon
  <1>11. after \in Seq(Tokens) /\ nl \in Seq(Tokens) /\ at \in Places
    BY <1>5, AfterType, FinishedStart, ScriptsAssumption
  <1>12. AfterBlock' = after
    BY <1>2 DEF AfterBlock
  <1> DEFINE na == nl \o after
             rna == rest \o na
  <1>13. ToRead = block \o na /\ ToRead' = rna
    BY <1>1, <1>2, <1>12 DEF ToRead
  <1>14. na \in Seq(Tokens)
    BY <1>11
  <1> HIDE DEF na, after
  <1>15. rna \in Seq(Tokens)
    BY <1>1, <1>14
  <1>16. Associate(x, dy, na) /\ Associate(d, y, na) /\ Associate(w, rest, na)
    <2> HIDE DEF d, y, dy
    <2> QED BY <1>1, <1>8, <1>14, AnyAssociate
  <1>17. ToRead = x \o (d \o (w \o rna))
    <2> HIDE DEF d
    <2> QED BY ONLY <1>1, <1>13, <1>16, Zenon DEF Associate, y, dy, rna
  <1> DEFINE wr == w \o rna
  <1>18. wr \in Seq(Tokens)
    BY <1>1, <1>15
  <1> HIDE DEF d, at, rna
  <1>19. Read(at, x \o (d \o wr)) = Read(there, wr)
    <2> HIDE DEF wr
    <2> QED BY <1>1, <1>11, <1>18, ReadThree
  <1> HIDE DEF there
  <1>20. Read(there, wr) = Read(Read(there, w), rna)
    BY <1>1, <1>10, <1>15, ReadConcat
  <1>21. End(Read(Read(there, w), rna)) = End(Read(At(s, <<>>), rna))
    <2>1. End(Read(Read(there, w), rest \o (<<Newline>> \o after)))
            = End(Read(At(Finished(there), <<>>), rest \o (<<Newline>> \o after)))
      BY <1>1, <1>10, <1>11, AfterDelimiter
    <2> QED BY ONLY <1>10, <2>1, Zenon DEF rna, na
  <1>22. End(Read(At(Client, <<>>), ToRead)) = End(Read(At(Client', <<>>), ToRead'))
    BY ONLY <1>13, <1>17, <1>19, <1>20, <1>21, Zenon DEF at, s, wr
  <1>23. ReadSoFar'
    BY <1>2, <1>22, SameRead
  <1> QED BY <1>4, <1>23

-----------------------------------------------------------------------------
(* The other steps.                                                        *)

\* Without a delimiter to cut at, the block is one statement.
LEMMA YieldBlockReads ==
    ASSUME Typed, Shaped, ReadSoFar, Typed', YieldWhole \/ YieldRest
    PROVE  Shaped' /\ ReadSoFar'
  <1>1. /\ pc = "block" /\ (delimiter = ignore \/ Enders = {})
        /\ yielded' = Append(yielded, block) /\ pc' = "command"
        /\ UNCHANGED <<script, ignore, sql, found, delimiter>>
    BY DEF YieldWhole, YieldRest
  <1>2. Shaped'
    BY <1>1 DEF Shaped
  <1> QED BY <1>1, <1>2, WholeReads

\* The command is a statement of its own, and sets the delimiter.
LEMMA YieldCommandReads ==
    ASSUME Typed, Shaped, ReadSoFar, YieldCommand, Typed'
    PROVE  Shaped' /\ ReadSoFar'
  <1>1. /\ pc = "command" /\ found # none /\ pc' = "search"
        /\ yielded' = Append(yielded, <<found>>) /\ delimiter' = argument[found]
        /\ UNCHANGED <<script, ignore, sql, block, found>>
    BY DEF YieldCommand
  <1>2. /\ found \in Tokens /\ found \in DOMAIN argument /\ found \notin Space
        /\ sql \in Seq(Tokens) /\ StartsLine(sql)
    BY <1>1, DelimitersAssumption DEF Typed, Shaped
  <1>3. Shaped'
    <2>1. delimiter' \in Delims
      BY <1>1, <1>2, DelimitersAre
    <2> QED BY <1>1, <2>1 DEF Shaped
  <1> DEFINE x == <<found>>
             r == Client
             next == Reader(Append(Flushed(r, r.pending), x), <<>>, argument[found], r.whole)
  <1>4. x \in Seq(Tokens) /\ x # <<>>
    BY <1>2
  <1>5. Words(x) = x
    BY <1>2, WithoutOne DEF Words
  <1>6. ToRead = x \o sql /\ ToRead' = sql
    BY <1>1 DEF ToRead, AfterBlock
  <1>7. /\ r \in Readers /\ r.statements = Statements /\ r.pending = <<>> /\ r.whole = ignore
    BY ClientType
  <1>8. Statements' = Append(Statements, x)
    <2>1. Statements' = IF Words(x) = <<>> THEN Statements ELSE Append(Statements, Words(x))
      <3> HIDE DEF x
      <3> QED BY <1>1, <1>3, <1>4, Yields DEF x
    <2> HIDE DEF x
    <2> QED BY ONLY <1>4, <1>5, <2>1
  <1>9. Client' = Reader(Statements', <<>>, argument[found], ignore)
    BY <1>1, <1>3, ClientNext
  <1> HIDE DEF r
  <1>10. Flushed(r, r.pending) = Statements
    BY <1>7 DEF Flushed
  <1>11. next = Client'
    <2> HIDE DEF x
    <2> QED BY ONLY <1>7, <1>8, <1>9, <1>10, Zenon
  <1>12. End(Read(At(r, <<>>), x \o sql)) = End(Read(At(next, <<>>), sql))
    BY <1>2, <1>7, CommandReads
  <1> HIDE DEF x, next
  <1>13. End(Read(At(Client, <<>>), ToRead)) = End(Read(At(Client', <<>>), ToRead'))
    BY ONLY <1>6, <1>11, <1>12, Zenon DEF r
  <1>14. ReadSoFar'
    BY <1>1, <1>13, SameRead
  <1> QED BY <1>3, <1>14

\* Neither changes anything that is read.
LEMMA FinishReads ==
    ASSUME Typed, Shaped, ReadSoFar, Finish
    PROVE  Shaped' /\ ReadSoFar'
  <1>1. /\ pc = "command" /\ found = none /\ pc' = "done"
        /\ UNCHANGED <<script, ignore, sql, block, found, delimiter, yielded>>
    BY DEF Finish
  <1>2. Shaped'
    BY <1>1 DEF Shaped
  <1>3. ToRead' = ToRead
    BY <1>1 DEF ToRead, AfterBlock
  <1>4. Client' = Client
    BY <1>1 DEF Client, Statements
  <1> HIDE DEF ToRead, Client
  <1>5. End(Read(At(Client, <<>>), ToRead)) = End(Read(At(Client', <<>>), ToRead'))
    BY ONLY <1>3, <1>4, Zenon
  <1> QED BY <1>1, <1>2, <1>5, SameRead

LEMMA StutterReads ==
    ASSUME Shaped, ReadSoFar, UNCHANGED vars
    PROVE  Shaped' /\ ReadSoFar'
  <1>1. UNCHANGED <<script, ignore, sql, block, found, delimiter, yielded, pc>>
    BY DEF vars
  <1>2. Shaped'
    BY <1>1 DEF Shaped
  <1>3. ToRead' = ToRead /\ Client' = Client
    BY <1>1 DEF ToRead, AfterBlock, Client, Statements
  <1>4. End(Read(At(Client, <<>>), ToRead)) = End(Read(At(Client', <<>>), ToRead'))
    BY ONLY <1>3, Zenon
  <1> QED BY <1>1, <1>2, <1>4, SameRead

\* The search, with and without a command to find.
LEMMA SearchReads ==
    ASSUME Typed, Shaped, ReadSoFar, Search, Typed'
    PROVE  Shaped' /\ ReadSoFar'
  <1>1. CASE Commands = {}
    BY <1>1, LastBlockReads
  <1>2. CASE Commands # {}
    BY <1>2, BlockBeforeReads
  <1> QED BY <1>1, <1>2

\* At the end, the client has read all.
LEMMA DoneReads ==
    ASSUME ClientInv
    PROVE  SameAsClient
  <1> SUFFICES ASSUME pc = "done" PROVE Statements = ClientStatements
    BY DEF SameAsClient
  <1>1. Typed /\ Shaped /\ ReadSoFar
    BY DEF ClientInv
  <1>2. ToRead = <<>>
    BY <1>1 DEF Shaped, ToRead, AfterBlock
  <1> DEFINE at == At(Client, <<>>)
  <1>3. Client \in Readers /\ Client.statements = Statements /\ Client.pending = <<>>
    BY <1>1, ClientType
  <1>4. at \in Places /\ Finished(at) = Client
    BY <1>3, FinishedStart
  <1> HIDE DEF at
  <1>5. Read(at, <<>>) = at /\ End(at) = Flushed(Client, Client.pending)
    BY <1>4, ReadNothing, FinishedType
  <1>6. Flushed(Client, Client.pending) = Statements
    BY <1>3 DEF Flushed
  <1>7. End(Read(at, ToRead)) = ClientStatements
    BY <1>1 DEF ReadSoFar, at
  <1> QED BY ONLY <1>2, <1>5, <1>6, <1>7, Zenon

\* Whatever the scripts, the delimiters and the value of `ignore`: when
\* parse_delimiters() is done, the statements that came out are those that a
\* client reads that goes through the script line by line.
THEOREM StatementsOfClient == Spec => []SameAsClient
  <1>1. Init => Inv /\ ClientInv
    BY InitInv, InitClientInv
  <1>2. Inv /\ ClientInv /\ [Next]_vars => (Inv /\ ClientInv)'
    <2> SUFFICES ASSUME Inv, ClientInv, [Next]_vars PROVE (Inv /\ ClientInv)'
      OBVIOUS
    <2>1. Typed /\ Shaped /\ ReadSoFar
      BY DEF ClientInv
    <2>2. Inv' /\ Typed'
      BY NextKeeps DEF Inv
    <2>3. Shaped' /\ ReadSoFar'
      <3>1. CASE Search
        BY <2>1, <2>2, <3>1, SearchReads
      <3>2. CASE YieldWhole \/ YieldRest
        BY <2>1, <2>2, <3>2, YieldBlockReads
      <3>3. CASE YieldStatement
        BY <2>1, <2>2, <3>3, StatementReads
      <3>4. CASE YieldCommand
        BY <2>1, <2>2, <3>4, YieldCommandReads
      <3>5. CASE Finish
        BY <2>1, <3>5, FinishReads
      <3>6. CASE UNCHANGED vars
        BY <2>1, <3>6, StutterReads
      <3> QED BY <3>1, <3>2, <3>3, <3>4, <3>5, <3>6 DEF Next
    <2> QED BY <2>2, <2>3 DEF ClientInv
  <1>3. ClientInv => SameAsClient
    BY DoneReads
  <1> QED BY <1>1, <1>2, <1>3, PTL DEF Spec
=============================================================================
