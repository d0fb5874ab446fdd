-------------------------- MODULE NatSetInduction --------------------------
(***************************************************************************)
(* Induction over the natural numbers, stated with a set where the library *)
(* has a predicate: a theorem with an operator for a parameter cannot be   *)
(* instantiated by the provers, one with a set can.  What a recursive      *)
(* function computes (Rendering in ParseCalls, the parts of a text in      *)
(* Delimiters) is proved with these.                                       *)
(***************************************************************************)
EXTENDS WellFoundedInduction, TLAPS

\* A set of natural numbers that is not empty has a least element.
LEMMA LeastNumber ==
    ASSUME NEW T \in SUBSET Nat, T # {}
    PROVE  \E n \in T : \A m \in T : n <= m
  <1> DEFINE R == {p \in Nat \X Nat : p[1] < p[2]}
  <1>1. OpToRel(<, Nat) = R
    BY Zenon DEF OpToRel
  <1>2. IsWellFoundedOn(R, Nat)
    BY ONLY <1>1, NatLessThanWellFounded, Zenon
  <1>3. PICK n \in T : \A m \in T : <<m, n>> \notin R
    <2> HIDE DEF R
    <2> QED BY <1>2, WFMin
  <1>4. ASSUME NEW m \in T PROVE n <= m
    <2>1. m \in Nat /\ n \in Nat
      OBVIOUS
    <2>2. <<m, n>> \notin R
      BY <1>3
    <2>3. ~(m < n)
      BY ONLY <2>1, <2>2
    <2> QED BY <2>1, <2>3
  <1> QED BY <1>4

\* A set with the first number, and with the number after each of its own up
\* to a last one, has all the numbers from the first to the last.
LEMMA UpToInduction ==
    ASSUME NEW last \in Nat, NEW T, 0 \in T,
           \A n \in 0 .. last : n \in T /\ n < last => n + 1 \in T
    PROVE  0 .. last \subseteq T
  <1> DEFINE Rest == (0 .. last) \ T
  <1> SUFFICES ASSUME Rest # {} PROVE FALSE
    OBVIOUS
  <1>1. PICK n \in Rest : \A m \in Rest : n <= m
    <2>1. Rest \in SUBSET Nat
      OBVIOUS
    <2> HIDE DEF Rest
    <2> QED BY <2>1, LeastNumber
  <1>2. n \in 1 .. last /\ n \notin T
    OBVIOUS
  <1>3. n - 1 \in 0 .. last /\ n - 1 < last /\ n - 1 \notin Rest
    BY <1>1, <1>2
  <1> QED BY <1>2, <1>3

\* A set that has each number all of whose predecessors, from 1, it has, has
\* all of them.
LEMMA BelowInduction ==
    ASSUME NEW last \in Nat, NEW T,
           \A n \in 1 .. last : (\A m \in 1 .. n - 1 : m \in T) => n \in T
    PROVE  \A n \in 1 .. last : n \in T
  <1> DEFINE Rest == (1 .. last) \ T
  <1> SUFFICES ASSUME Rest # {} PROVE FALSE
    OBVIOUS
  <1>1. PICK n \in Rest : \A m \in Rest : n <= m
    <2>1. Rest \in SUBSET Nat
      OBVIOUS
    <2> HIDE DEF Rest
    <2> QED BY <2>1, LeastNumber
  <1>2. \A m \in 1 .. n - 1 : m \in T
    <2> SUFFICES ASSUME NEW m \in 1 .. n - 1, m \notin T PROVE FALSE
      OBVIOUS
    <2>1. m \in Rest /\ n \in Nat /\ m \in Nat /\ m < n
      OBVIOUS
    <2> QED BY <1>1, <2>1
  <1> QED BY <1>2

\* A set of natural numbers that has a bound has a greatest element.
LEMMA GreatestNumber ==
    ASSUME NEW last \in Nat, NEW T \in SUBSET (0 .. last), T # {}
    PROVE  \E n \in T : \A m \in T : m <= n
  <1> DEFINE Below == {last - m : m \in T}
  <1>1. Below \in SUBSET Nat /\ Below # {}
    <2>1. \A m \in T : m \in 0 .. last /\ last - m \in Nat
      OBVIOUS
    <2> QED BY <2>1
  <1>2. PICK n \in Below : \A m \in Below : n <= m
    <2> HIDE DEF Below
    <2> QED BY <1>1, LeastNumber
  <1>3. PICK k \in T : n = last - k
    OBVIOUS
  <1>4. ASSUME NEW m \in T PROVE m <= k
    <2>1. n <= last - m
      BY <1>2
    <2> QED BY <1>3, <2>1
  <1> QED BY <1>4

-----------------------------------------------------------------------------
(* Functions that are defined by recursion on the numbers up to a last one. *)

\* f starts at base and goes on by step, in the values V.
Recursion(f, last, V, base, step) ==
    /\ f \in [0 .. last -> V]
    /\ f[0] = base
    /\ \A n \in 1 .. last : f[n] = step[<<n, f[n - 1]>>]

\* There is such a function.
LEMMA RecursionExists ==
    ASSUME NEW last \in Nat, NEW V, NEW base \in V,
           NEW step \in [(1 .. last) \X V -> V]
    PROVE  \E f : Recursion(f, last, V, base, step)
  <1> DEFINE Is(f, n) == /\ f \in [0 .. n -> V]
                         /\ f[0] = base
                         /\ \A k \in 1 .. n : f[k] = step[<<k, f[k - 1]>>]
             T == {n \in 0 .. last : \E f : Is(f, n)}
  <1>1. 0 \in T
    <2>1. Is([k \in 0 .. 0 |-> base], 0)
      OBVIOUS
    <2> HIDE DEF Is
    <2> QED BY <2>1
  <1>2. ASSUME NEW n \in 0 .. last, n \in T, n < last PROVE n + 1 \in T
    <2>1. PICK f : Is(f, n)
      BY <1>2
    <2> DEFINE next == step[<<n + 1, f[n]>>]
               g == [k \in 0 .. n + 1 |-> IF k = n + 1 THEN next ELSE f[k]]
    <2>2. next \in V
      BY <1>2, <2>1
    <2>3. g \in [0 .. n + 1 -> V] /\ g[0] = base
      BY <2>1, <2>2
    <2>4. ASSUME NEW k \in 1 .. n + 1 PROVE g[k] = step[<<k, g[k - 1]>>]
      <3>1. CASE k = n + 1
        <4>1. k - 1 = n /\ k \in 0 .. n + 1 /\ n \in 0 .. n + 1 /\ n # n + 1
          BY <3>1
        <4>2. g[k] = next /\ g[n] = f[n]
          BY <3>1, <4>1
        <4> QED BY <3>1, <4>1, <4>2
      <3>2. CASE k \in 1 .. n
        <4>1. g[k] = f[k] /\ g[k - 1] = f[k - 1]
          BY <3>2
        <4> QED BY <2>1, <3>2, <4>1
      <3> QED BY <3>1, <3>2
    <2>5. Is(g, n + 1)
      <3> HIDE DEF g
      <3> QED BY <2>3, <2>4
    <2>6. n + 1 \in 0 .. last
      BY <1>2
    <2> HIDE DEF Is, g
    <2> QED BY <2>5, <2>6
  <1>3. last \in T
    <2> HIDE DEF T
    <2>1. 0 .. last \subseteq T
      BY <1>1, <1>2, UpToInduction
    <2> QED BY <2>1
  <1> QED BY <1>3 DEF Recursion
=============================================================================
