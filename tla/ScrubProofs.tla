----------------------------- MODULE ScrubProofs -----------------------------
(***************************************************************************)
(* Proofs about Scrub for trees of any size and depth.                     *)
(***************************************************************************)
EXTENDS Scrub, FiniteSetTheorems, NatSetInduction, TLAPS

-----------------------------------------------------------------------------
(* The n-th of a set of positions.                                         *)

\* Each number up to their number is the place of one of them, and each has
\* a place.
LEMMA PositionsHavePlaces ==
    ASSUME NEW last \in Nat, NEW K \in SUBSET (1 .. last)
    PROVE  /\ Cardinality(K) \in Nat
           /\ \A n \in 1 .. Cardinality(K) : Nth(K, n) \in K
           /\ \A k \in K : \E n \in 1 .. Cardinality(K) : Nth(K, n) = k
  <1> DEFINE size == Cardinality(K)
             UpTo(k) == {j \in K : j <= k}
             place == [k \in K |-> Cardinality(UpTo(k))]
  <1>1. IsFiniteSet(K)
    <2>1. 1 \in Int /\ last \in Int
      OBVIOUS
    <2>2. IsFiniteSet(1 .. last)
      BY <2>1, FS_Interval
    <2> QED BY <2>2, FS_Subset
  <1>2. size \in Nat
    BY <1>1, FS_CardinalityType
  <1>3. ASSUME NEW k \in K PROVE place[k] \in 1 .. size
    <2>1. UpTo(k) \in SUBSET K /\ k \in UpTo(k)
      OBVIOUS
    <2>2. place[k] = Cardinality(UpTo(k))
      OBVIOUS
    <2> HIDE DEF UpTo, place
    <2>3. IsFiniteSet(UpTo(k)) /\ Cardinality(UpTo(k)) <= size
      BY <1>1, <2>1, FS_Subset
    <2>4. Cardinality(UpTo(k)) \in Nat
      BY <2>3, FS_CardinalityType
    <2>5. Cardinality(UpTo(k)) # 0
      BY <2>1, <2>3, FS_EmptySet
    <2> HIDE DEF size
    <2> QED BY <1>2, <2>2, <2>3, <2>4, <2>5
  <1>4. ASSUME NEW j \in K, NEW k \in K, place[j] = place[k], j <= k PROVE j = k
    <2>1. UpTo(j) \in SUBSET UpTo(k) /\ UpTo(k) \in SUBSET K /\ k \in UpTo(k)
      <3>1. \A i \in K : i \in Int
        OBVIOUS
      <3>2. \A i \in K : i <= j => i <= k
        BY <1>4, <3>1
      <3>3. k <= k
        BY <3>1
      <3> QED BY <3>2, <3>3
    <2>2. Cardinality(UpTo(j)) = Cardinality(UpTo(k))
      BY <1>4
    <2>3. UpTo(j) = UpTo(k)
      <3> HIDE DEF UpTo
      <3>1. IsFiniteSet(UpTo(k))
        BY <1>1, <2>1, FS_Subset
      <3> QED BY <2>1, <2>2, <3>1, FS_Subset
    <2>4. k <= j
      BY <2>1, <2>3
    <2> QED BY <1>4, <2>4
  <1>5. ASSUME NEW j \in K, NEW k \in K, place[j] = place[k] PROVE j = k
    <2>1. j <= k \/ k <= j
      OBVIOUS
    <2> HIDE DEF place
    <2> QED BY <1>4, <1>5, <2>1
  <1>6. ASSUME NEW n \in 1 .. size, \A k \in K : place[k] # n PROVE FALSE
    <2> DEFINE T == (1 .. size) \ {n}
    <2> HIDE DEF size
    <2>1. place \in [K -> T]
      BY <1>3, <1>6
    <2>2. IsFiniteSet(1 .. size) /\ Cardinality(1 .. size) = size
      <3>1. 1 \in Int /\ size \in Int
        BY <1>2
      <3>2. IsFiniteSet(1 .. size) /\ Cardinality(1 .. size) = IF 1 > size THEN 0 ELSE size - 1 + 1
        BY <3>1, FS_Interval
      <3> QED BY <1>2, <3>2
    <2>3. IsFiniteSet(T) /\ Cardinality(T) = size - 1
      BY <1>6, <2>2, FS_RemoveElement
    <2>4. Cardinality(T) < Cardinality(K)
      BY <1>2, <2>3 DEF size
    <2> HIDE DEF T, place
    <2>5. PICK j, k \in K : j # k /\ place[j] = place[k]
      BY <1>1, <2>1, <2>3, <2>4, FS_PigeonHole
    <2> QED BY <1>5, <2>5
  <1>7. \A n : \A k \in K : place[k] = n => Nth(K, n) = k
    <2> SUFFICES ASSUME NEW k \in K PROVE Nth(K, place[k]) = k
      OBVIOUS
    <2>1. Nth(K, place[k]) = CHOOSE j \in K : place[j] = place[k]
      BY DEF Nth
    <2> HIDE DEF place
    <2> QED BY <1>5, <2>1
  <1> HIDE DEF place
  <1>8. \A n \in 1 .. size : Nth(K, n) \in K
    BY <1>6, <1>7
  <1>9. \A k \in K : \E n \in 1 .. size : Nth(K, n) = k
    BY <1>3, <1>7
  <1> QED BY <1>2, <1>8, <1>9

\* If nothing is left out, the n-th is n.
LEMMA AllPositions ==
    ASSUME NEW last \in Nat
    PROVE  /\ Cardinality(1 .. last) = last
           /\ \A n \in 1 .. last : Nth(1 .. last, n) = n
  <1>1. ASSUME NEW n \in 0 .. last PROVE Cardinality(1 .. n) = n
    <2>1. 1 \in Int /\ n \in Int
      OBVIOUS
    <2>2. Cardinality(1 .. n) = IF 1 > n THEN 0 ELSE n - 1 + 1
      BY <2>1, FS_Interval
    <2> QED BY <2>2
  <1>2. ASSUME NEW n \in 1 .. last PROVE Nth(1 .. last, n) = n
    <2>1. \A k \in 1 .. last : {j \in 1 .. last : j <= k} = 1 .. k
      OBVIOUS
    <2>2. \A k \in 1 .. last : Cardinality({j \in 1 .. last : j <= k}) = k
      <3> TAKE k \in 1 .. last
      <3>1. k \in 0 .. last
        OBVIOUS
      <3>2. {j \in 1 .. last : j <= k} = 1 .. k
        BY <2>1, Zenon
      <3>3. Cardinality(1 .. k) = k
        BY <1>1, <3>1, Zenon
      <3> QED BY <3>2, <3>3, Zenon
    <2> QED BY <2>2 DEF Nth
  <1> QED BY <1>1, <1>2

-----------------------------------------------------------------------------
(* What is made of an object depends on what its parts are scrubbed to.    *)

\* The list of an object has the elements that are kept, in order.
LEMMA ListedIs ==
    ASSUME NEW x, IsSequence(x.elems), NEW v
    PROVE  /\ Listed(v, x) \in Seq({Scrubbed(v, x.elems[k]) : k \in Kept(v, x)})
           /\ ~(x.kind = "group" /\ Named(v, x) # NoFields) =>
                \A k \in Kept(v, x) : \E n \in DOMAIN Listed(v, x) :
                  Listed(v, x)[n] = Scrubbed(v, x.elems[k])
  <1> DEFINE K == Kept(v, x)
             S == {Scrubbed(v, x.elems[k]) : k \in K}
             size == Cardinality(K)
             s == [n \in 1 .. size |-> Scrubbed(v, x.elems[Nth(K, n)])]
  <1>1. /\ size \in Nat
        /\ \A n \in 1 .. size : Nth(K, n) \in K
        /\ \A k \in K : \E n \in 1 .. size : Nth(K, n) = k
    <2>1. DOMAIN x.elems = 1 .. Len(x.elems) /\ Len(x.elems) \in Nat
      BY DEF IsSequence
    <2>2. K \in SUBSET (1 .. Len(x.elems))
      BY <2>1 DEF Kept
    <2> HIDE DEF K
    <2> QED BY <2>1, <2>2, PositionsHavePlaces
  <1>2. Listed(v, x) = IF x.kind = "group" /\ Named(v, x) # NoFields THEN <<>> ELSE s
    BY DEF Listed
  <1> HIDE DEF K, size
  <1>3. s \in Seq(S)
    BY <1>1
  <1>4. \A k \in K : \E n \in DOMAIN s : s[n] = Scrubbed(v, x.elems[k])
    BY <1>1
  <1> HIDE DEF s
  <1>5. <<>> \in Seq(S)
    OBVIOUS
  <1>6. Listed(v, x) \in Seq(S)
    <2> HIDE DEF S
    <2> QED BY <1>2, <1>3, <1>5
  <1> QED BY <1>2, <1>4, <1>6, Zenon DEF K

\* y is x with its NULLs replaced, as far as w and v tell.
PartsReplaced(w, y, v, x, null) ==
    /\ y.kind = x.kind
    /\ DOMAIN y.elems = DOMAIN x.elems
    /\ DOMAIN y.fields = DOMAIN x.fields
    /\ \A n \in DOMAIN x.elems : Scrubbed(w, y.elems[n]) = Replaced(Scrubbed(v, x.elems[n]), null)
    /\ \A k \in DOMAIN x.fields : Scrubbed(w, y.fields[k]) = Replaced(Scrubbed(v, x.fields[k]), null)

\* What can take the place of NULL; NULL itself changes nothing.
IsNull(null) == null = Null \/ null = Atom(null.atom)

LEMMA ReplacedIs ==
    ASSUME NEW null, IsNull(null)
    PROVE  /\ \A u : Replaced(u, null) = Nothing <=> u = Nothing
           /\ \A u : IsRef(u) => Replaced(u, null) = u
           /\ \A u : Replaced(u, null).kind \in Kinds <=> u.kind \in Kinds
           /\ \A u : Replaced(u, null).kind = "list" <=> u.kind = "list"
  BY DEF IsNull, Replaced, Null, Nothing, Atom, Value, IsRef, Kinds

LEMMA NamedReplaced ==
    ASSUME NEW w, NEW y, NEW v, NEW x, NEW null, IsNull(null), PartsReplaced(w, y, v, x, null)
    PROVE  /\ Named(w, y) = [k \in DOMAIN Named(v, x) |-> Replaced(Named(v, x)[k], null)]
           /\ DOMAIN Named(w, y) = DOMAIN Named(v, x)
           /\ Named(w, y) = NoFields <=> Named(v, x) = NoFields
           /\ Kept(w, y) = Kept(v, x)
  <1>1. \A k \in DOMAIN x.fields :
           Scrubbed(w, y.fields[k]) # Nothing <=> Scrubbed(v, x.fields[k]) # Nothing
    BY ReplacedIs DEF PartsReplaced
  <1>2. \A k \in DOMAIN x.elems :
           Scrubbed(w, y.elems[k]) # Nothing <=> Scrubbed(v, x.elems[k]) # Nothing
    BY ReplacedIs DEF PartsReplaced
  <1>3. Kept(w, y) = Kept(v, x)
    BY <1>2 DEF Kept, PartsReplaced
  <1> DEFINE D == {k \in DOMAIN x.fields : Scrubbed(v, x.fields[k]) # Nothing}
  <1>4. Named(v, x) = [k \in D |-> Scrubbed(v, x.fields[k])]
    BY DEF Named
  <1>5. Named(w, y) = [k \in D |-> Replaced(Scrubbed(v, x.fields[k]), null)]
    <2>1. {k \in DOMAIN y.fields : Scrubbed(w, y.fields[k]) # Nothing} = D
      BY <1>1 DEF PartsReplaced
    <2>2. Named(w, y) = [k \in D |-> Scrubbed(w, y.fields[k])]
      BY <2>1 DEF Named
    <2> QED BY <2>2 DEF PartsReplaced
  <1>6. \A f : DOMAIN f = D => (f = NoFields => D = {})
    BY DEF NoFields
  <1>7. D = {} => Named(w, y) = NoFields /\ Named(v, x) = NoFields
    BY <1>4, <1>5 DEF NoFields
  <1> HIDE DEF D
  <1> QED BY <1>3, <1>4, <1>5, <1>6, <1>7

LEMMA ListedReplaced ==
    ASSUME NEW w, NEW y, NEW v, NEW x, NEW null, IsNull(null),
           IsSequence(x.elems), PartsReplaced(w, y, v, x, null)
    PROVE  /\ Listed(w, y) = [n \in DOMAIN Listed(v, x) |-> Replaced(Listed(v, x)[n], null)]
           /\ Len(Listed(w, y)) = Len(Listed(v, x))
  <1> DEFINE K == Kept(v, x)
             size == Cardinality(K)
  <1>1. size \in Nat /\ \A n \in 1 .. size : Nth(K, n) \in DOMAIN x.elems
    <2>1. DOMAIN x.elems = 1 .. Len(x.elems) /\ Len(x.elems) \in Nat
      BY DEF IsSequence
    <2>2. K \in SUBSET (1 .. Len(x.elems))
      BY <2>1 DEF Kept
    <2> HIDE DEF K
    <2> QED BY <2>1, <2>2, PositionsHavePlaces
  <1>2. Kept(w, y) = K /\ (Named(w, y) = NoFields <=> Named(v, x) = NoFields)
    BY NamedReplaced
  <1>3. y.kind = x.kind
    BY DEF PartsReplaced
  <1>4. CASE x.kind = "group" /\ Named(v, x) # NoFields
    <2>1. Listed(v, x) = <<>> /\ Listed(w, y) = <<>>
      BY <1>2, <1>3, <1>4 DEF Listed
    <2> QED BY <2>1
  <1>5. CASE ~(x.kind = "group" /\ Named(v, x) # NoFields)
    <2>1. Listed(v, x) = [n \in 1 .. size |-> Scrubbed(v, x.elems[Nth(K, n)])]
      BY <1>5 DEF Listed
    <2>2. Listed(w, y) = [n \in 1 .. size |-> Scrubbed(w, y.elems[Nth(K, n)])]
      BY <1>2, <1>3, <1>5 DEF Listed
    <2> HIDE DEF K, size
    <2>3. \A n \in 1 .. size : Scrubbed(w, y.elems[Nth(K, n)])
                                 = Replaced(Scrubbed(v, x.elems[Nth(K, n)]), null)
      BY <1>1 DEF PartsReplaced
    <2>4. Listed(w, y) = [n \in DOMAIN Listed(v, x) |-> Replaced(Listed(v, x)[n], null)]
      BY <2>1, <2>2, <2>3
    <2>5. Len(Listed(v, x)) = size /\ Len(Listed(w, y)) = size
      BY <1>1, <2>1, <2>2
    <2> QED BY <2>4, <2>5
  <1> QED BY <1>4, <1>5

LEMMA ScrubbedReplaced ==
    ASSUME NEW w, NEW y, NEW v, NEW x, NEW null, IsNull(null),
           IsSequence(x.elems), PartsReplaced(w, y, v, x, null), NEW o, NEW i
    PROVE  /\ ScrubbedList(w, y, i) = Replaced(ScrubbedList(v, x, i), null)
           /\ ScrubbedObject(o, w, y, i) = Replaced(ScrubbedObject(o, v, x, i), null)
  <1>1. /\ Listed(w, y) = [n \in DOMAIN Listed(v, x) |-> Replaced(Listed(v, x)[n], null)]
        /\ Len(Listed(w, y)) = Len(Listed(v, x))
    BY ListedReplaced
  <1>2. DOMAIN Listed(v, x) = 1 .. Len(Listed(v, x)) /\ Len(Listed(v, x)) \in Nat
    BY ListedIs
  <1>3. \A at : Replaced(Ref("list", at), null) = Ref("list", at)
    BY ReplacedIs DEF Ref, Value, IsRef, Kinds
  <1>4. \A at : Replaced(Ref("dict", at), null) = Ref("dict", at)
    BY ReplacedIs DEF Ref, Value, IsRef, Kinds
  <1>5. Replaced(Nothing, null) = Nothing
    BY ReplacedIs
  <1>6. ScrubbedList(w, y, i) = Replaced(ScrubbedList(v, x, i), null)
    <2>1. CASE Len(Listed(v, x)) = 0
      BY <1>1, <1>5, <2>1 DEF ScrubbedList
    <2>2. CASE Len(Listed(v, x)) = 1
      <3>1. Listed(w, y)[1] = Replaced(Listed(v, x)[1], null)
        BY <1>1, <1>2, <2>2
      <3>2. ScrubbedList(w, y, i) = Listed(w, y)[1] /\ ScrubbedList(v, x, i) = Listed(v, x)[1]
        BY <1>1, <2>2 DEF ScrubbedList
      <3> QED BY <3>1, <3>2
    <2>3. CASE Len(Listed(v, x)) \notin {0, 1}
      BY <1>1, <1>3, <2>3 DEF ScrubbedList
    <2> QED BY <2>1, <2>2, <2>3
  <1>7. Named(w, y) = NoFields <=> Named(v, x) = NoFields
    BY NamedReplaced
  <1>8. y.kind = x.kind
    BY DEF PartsReplaced
  <1>9. ScrubbedObject(o, w, y, i) = Replaced(ScrubbedObject(o, v, x, i), null)
    <2>1. CASE x.kind = "call"
      BY <1>4, <1>8, <2>1 DEF ScrubbedObject
    <2>2. CASE x.kind = "dict"
      BY <1>4, <1>8, <2>2 DEF ScrubbedObject
    <2>3. CASE x.kind \notin {"call", "dict"} /\ Named(v, x) # NoFields
      BY <1>4, <1>7, <1>8, <2>3 DEF ScrubbedObject
    <2>4. CASE x.kind \notin {"call", "dict"} /\ Named(v, x) = NoFields
      BY <1>6, <1>7, <1>8, <2>4 DEF ScrubbedObject
    <2> QED BY <2>1, <2>2, <2>3, <2>4
  <1> QED BY <1>6, <1>9

-----------------------------------------------------------------------------
(* scrub() gives every object of a heap a value.                           *)

\* The part of IsTree that is about the heap.
IsHeap(heap) ==
    /\ IsSequence(heap)
    /\ \A i \in DOMAIN heap :
          /\ IsObject(heap[i])
          /\ \A n \in DOMAIN heap[i].elems : IsValue(heap[i].elems[n], heap, i)
          /\ \A k \in DOMAIN heap[i].fields : IsValue(heap[i].fields[k], heap, i)

LEMMA HeapIs ==
    ASSUME NEW heap, IsHeap(heap)
    PROVE  /\ Len(heap) \in Nat /\ DOMAIN heap = 1 .. Len(heap)
           /\ \A i \in DOMAIN heap : heap[i].kind \in Kinds /\ IsSequence(heap[i].elems)
  <1>1. \A i \in DOMAIN heap : heap[i].kind \in Kinds /\ IsSequence(heap[i].elems)
    BY DEF IsHeap, IsObject
  <1>2. Len(heap) \in Nat /\ DOMAIN heap = 1 .. Len(heap)
    BY DEF IsHeap, IsSequence
  <1> QED BY <1>1, <1>2

\* Parts of an object are before it, so that values up to there are enough.
LEMMA EarlierParts ==
    ASSUME NEW heap, IsHeap(heap), NEW i \in DOMAIN heap, NEW v, NEW w,
           \A j \in 1 .. i - 1 : v[j] = w[j]
    PROVE  PartsReplaced(w, heap[i], v, heap[i], Null)
  <1>1. \A u : Replaced(u, Null) = u
    BY DEF Replaced
  <1>2. ASSUME NEW u, IsValue(u, heap, i) PROVE Scrubbed(v, u) = Scrubbed(w, u)
    BY <1>2 DEF IsValue, Scrubbed, IsRef, Kinds, Null, Nothing, Atom, Value
  <1>3. /\ \A n \in DOMAIN heap[i].elems : IsValue(heap[i].elems[n], heap, i)
        /\ \A k \in DOMAIN heap[i].fields : IsValue(heap[i].fields[k], heap, i)
    BY DEF IsHeap
  <1> QED BY <1>1, <1>2, <1>3 DEF PartsReplaced

LEMMA ScrubbedEarlier ==
    ASSUME NEW heap, IsHeap(heap), NEW i \in DOMAIN heap, NEW v, NEW w, NEW o,
           \A j \in 1 .. i - 1 : v[j] = w[j]
    PROVE  ScrubbedObject(o, v, heap[i], i) = ScrubbedObject(o, w, heap[i], i)
  <1>1. PartsReplaced(w, heap[i], v, heap[i], Null)
    BY EarlierParts
  <1>2. IsNull(Null) /\ IsSequence(heap[i].elems)
    BY HeapIs DEF IsNull
  <1>3. ScrubbedObject(o, w, heap[i], i) = Replaced(ScrubbedObject(o, v, heap[i], i), Null)
    BY <1>1, <1>2, ScrubbedReplaced
  <1> QED BY <1>3 DEF Replaced

LEMMA ScrubbedAllIs ==
    ASSUME NEW o, NEW heap, IsHeap(heap)
    PROVE  ScrubbedAll(o, heap)
             = [i \in DOMAIN heap |-> ScrubbedObject(o, ScrubbedAll(o, heap), heap[i], i)]
  <1> DEFINE last == Len(heap)
             Is(f, n) == /\ f = [i \in 1 .. n |-> f[i]]
                         /\ \A i \in 1 .. n : f[i] = ScrubbedObject(o, f, heap[i], i)
             T == {n \in 0 .. last : \E f : Is(f, n)}
  <1>1. last \in Nat /\ DOMAIN heap = 1 .. last
    BY HeapIs
  <1> HIDE DEF last
  <1>2. 0 \in T
    <2>1. Is([i \in 1 .. 0 |-> i], 0)
      OBVIOUS
    <2> HIDE DEF Is
    <2> QED BY <1>1, <2>1
  <1>3. ASSUME NEW n \in 0 .. last, n \in T, n < last PROVE n + 1 \in T
    <2>1. PICK f : Is(f, n)
      BY <1>3
    <2>2. PICK m : m = n + 1
      OBVIOUS
    <2> DEFINE g == [i \in 1 .. m |-> IF i = m THEN ScrubbedObject(o, f, heap[m], m) ELSE f[i]]
    <2>3. m \in 1 .. last /\ \A i \in 1 .. m : i # m => i \in 1 .. n
      BY <1>1, <1>3, <2>2
    <2>4. \A i \in 1 .. n : g[i] = f[i]
      BY <1>1, <2>2
    <2>5. ASSUME NEW i \in 1 .. m PROVE g[i] = ScrubbedObject(o, g, heap[i], i)
      <3>1. \A j \in 1 .. i - 1 : f[j] = g[j]
        <4>1. \A j \in 1 .. i - 1 : j \in 1 .. n
          BY <1>1, <2>2
        <4> HIDE DEF g
        <4> QED BY <2>4, <4>1
      <3>2. g[i] = ScrubbedObject(o, f, heap[i], i)
        <4>1. CASE i = m
          BY <4>1
        <4>2. CASE i # m
          BY <2>1, <2>3, <4>2
        <4> QED BY <4>1, <4>2
      <3>3. i \in DOMAIN heap
        BY <1>1, <2>3
      <3> HIDE DEF g
      <3>4. ScrubbedObject(o, f, heap[i], i) = ScrubbedObject(o, g, heap[i], i)
        BY <3>1, <3>3, ScrubbedEarlier
      <3> QED BY <3>2, <3>4
    <2>6. Is(g, m)
      <3>1. g = [i \in 1 .. m |-> g[i]]
        OBVIOUS
      <3> HIDE DEF g
      <3> QED BY <2>5, <3>1
    <2> HIDE DEF Is, g
    <2> QED BY <1>1, <2>2, <2>3, <2>6
  <1>4. last \in T
    <2> HIDE DEF T
    <2>1. 0 .. last \subseteq T
      BY <1>1, <1>2, <1>3, UpToInduction
    <2> QED BY <1>1, <2>1
  <1>5. \E f : f = [i \in DOMAIN heap |-> ScrubbedObject(o, f, heap[i], i)]
    <2>1. PICK f : Is(f, last)
      BY <1>4
    <2>2. f = [i \in DOMAIN heap |-> f[i]]
      BY <1>1, <2>1
    <2> QED BY <1>1, <2>1, <2>2
  <1> DEFINE all == CHOOSE f : f = [i \in DOMAIN heap |-> ScrubbedObject(o, f, heap[i], i)]
  <1>6. all = [i \in DOMAIN heap |-> ScrubbedObject(o, all, heap[i], i)]
    BY <1>5
  <1>7. ScrubbedAll(o, heap) = all
    BY DEF ScrubbedAll
  <1> QED BY <1>6, <1>7

-----------------------------------------------------------------------------
(* Scrubbing goes with the replacement of NULLs.                           *)

LEMMA ReplacedParts ==
    ASSUME NEW x, NEW null
    PROVE  /\ ReplacedIn(x, null).kind = x.kind
           /\ DOMAIN ReplacedIn(x, null).elems = DOMAIN x.elems
           /\ DOMAIN ReplacedIn(x, null).fields = DOMAIN x.fields
           /\ \A n \in DOMAIN x.elems : ReplacedIn(x, null).elems[n] = Replaced(x.elems[n], null)
           /\ \A k \in DOMAIN x.fields : ReplacedIn(x, null).fields[k] = Replaced(x.fields[k], null)
  BY DEF ReplacedIn, Object

\* A sequence is one by its domain.
LEMMA SequenceIs ==
    ASSUME NEW s, NEW last \in Nat, s = [n \in 1 .. last |-> s[n]]
    PROVE  IsSequence(s) /\ Len(s) = last /\ DOMAIN s = 1 .. last
  <1> DEFINE S == {s[n] : n \in 1 .. last}
  <1>1. \A n \in 1 .. last : s[n] \in S
    OBVIOUS
  <1> HIDE DEF S
  <1>2. s \in [1 .. last -> S]
    BY <1>1
  <1>3. s \in Seq(S) /\ Len(s) = last /\ DOMAIN s = 1 .. last
    BY <1>2
  <1> QED BY <1>3 DEF IsSequence, S

LEMMA ReplacedObject ==
    ASSUME NEW x, IsObject(x), NEW null
    PROVE  IsObject(ReplacedIn(x, null))
  <1> DEFINE y == ReplacedIn(x, null)
  <1>1. /\ y.kind = x.kind
        /\ y.elems = [n \in DOMAIN x.elems |-> Replaced(x.elems[n], null)]
        /\ y.fields = [k \in DOMAIN x.fields |-> Replaced(x.fields[k], null)]
    BY DEF ReplacedIn, Object
  <1> HIDE DEF y
  <1>2. DOMAIN x.elems = 1 .. Len(x.elems) /\ Len(x.elems) \in Nat
    BY DEF IsObject, IsSequence
  <1>3. IsSequence(y.elems)
    <2> DEFINE s == y.elems
    <2>1. s = [n \in 1 .. Len(x.elems) |-> s[n]]
      BY <1>1, <1>2
    <2> HIDE DEF s
    <2>2. IsSequence(s)
      BY <1>2, <2>1, SequenceIs
    <2> QED BY <2>2 DEF s
  <1>4. x.fields = NoFields => y.fields = NoFields
    BY <1>1 DEF NoFields
  <1>5. x.elems = <<>> => y.elems = <<>>
    BY <1>1
  <1>6. x.kind = "group" /\ y.fields # NoFields =>
          {y.elems[n] : n \in DOMAIN y.elems} = {y.fields[k] : k \in DOMAIN y.fields}
    <2> SUFFICES ASSUME x.kind = "group", y.fields # NoFields
                 PROVE  {y.elems[n] : n \in DOMAIN y.elems} = {y.fields[k] : k \in DOMAIN y.fields}
      OBVIOUS
    <2>1. {x.elems[n] : n \in DOMAIN x.elems} = {x.fields[k] : k \in DOMAIN x.fields}
      BY <1>4 DEF IsObject
    <2>2. \A n \in DOMAIN x.elems : \E k \in DOMAIN x.fields : x.elems[n] = x.fields[k]
      BY <2>1
    <2>3. \A k \in DOMAIN x.fields : \E n \in DOMAIN x.elems : x.elems[n] = x.fields[k]
      BY <2>1
    <2>4. DOMAIN y.elems = DOMAIN x.elems /\ DOMAIN y.fields = DOMAIN x.fields
      BY <1>1
    <2>5. \A n \in DOMAIN x.elems : \E k \in DOMAIN x.fields : y.elems[n] = y.fields[k]
      BY <1>1, <2>2
    <2>6. \A k \in DOMAIN x.fields : \E n \in DOMAIN x.elems : y.elems[n] = y.fields[k]
      BY <1>1, <2>3
    <2> QED BY <2>4, <2>5, <2>6
  <1> QED BY <1>1, <1>3, <1>4, <1>5, <1>6 DEF IsObject, y

LEMMA ReplacedHeap ==
    ASSUME NEW heap, IsHeap(heap), NEW null, IsNull(null)
    PROVE  /\ IsHeap(ReplacedAll(heap, null))
           /\ Len(ReplacedAll(heap, null)) = Len(heap)
           /\ DOMAIN ReplacedAll(heap, null) = DOMAIN heap
           /\ \A u, i : IsValue(u, heap, i) /\ i \in 1 .. Len(heap) + 1 =>
                          IsValue(Replaced(u, null), ReplacedAll(heap, null), i)
  <1> DEFINE r == ReplacedAll(heap, null)
  <1>1. Len(heap) \in Nat /\ DOMAIN heap = 1 .. Len(heap)
    BY HeapIs
  <1>2. r = [i \in 1 .. Len(heap) |-> ReplacedIn(heap[i], null)]
    BY <1>1 DEF ReplacedAll
  <1>3. \A i \in DOMAIN heap :
           /\ r[i].kind = heap[i].kind
           /\ r[i].elems = [n \in DOMAIN heap[i].elems |-> Replaced(heap[i].elems[n], null)]
           /\ r[i].fields = [k \in DOMAIN heap[i].fields |-> Replaced(heap[i].fields[k], null)]
    BY <1>1, <1>2 DEF ReplacedIn, Object
  <1>4. \A i \in DOMAIN heap : r[i] = ReplacedIn(heap[i], null)
    BY <1>1, <1>2
  <1>5. r = [i \in 1 .. Len(heap) |-> r[i]]
    BY <1>2
  <1> HIDE DEF r
  <1>6. IsSequence(r) /\ Len(r) = Len(heap) /\ DOMAIN r = 1 .. Len(heap)
    BY <1>1, <1>5, SequenceIs
  <1>7. ASSUME NEW u, NEW i \in 1 .. Len(heap) + 1, IsValue(u, heap, i)
        PROVE  IsValue(Replaced(u, null), r, i)
    <2>1. CASE IsRef(u)
      <3>1. u.at \in 1 .. i - 1 /\ u = Ref(heap[u.at].kind, u.at)
        BY <1>7, <2>1 DEF IsValue, IsRef, Kinds, Null, Nothing, Atom, Value
      <3>2. u.at \in DOMAIN heap
        BY <1>1, <3>1
      <3>3. Replaced(u, null) = u
        BY <2>1, ReplacedIs
      <3>4. u = Ref(r[u.at].kind, u.at)
        BY <1>3, <3>1, <3>2
      <3> QED BY <2>1, <3>1, <3>3, <3>4 DEF IsValue
    <2>2. CASE ~IsRef(u)
      <3>1. u = Atom(u.atom) \/ u \in {Null, Nothing}
        BY <1>7, <2>2 DEF IsValue
      <3>2. Replaced(u, null) \in {u, null}
        BY DEF Replaced
      <3> QED BY <3>1, <3>2 DEF IsNull, IsValue
    <2> QED BY <2>1, <2>2
  <1>8. ASSUME NEW i \in DOMAIN r
        PROVE  /\ IsObject(r[i])
               /\ \A n \in DOMAIN r[i].elems : IsValue(r[i].elems[n], r, i)
               /\ \A k \in DOMAIN r[i].fields : IsValue(r[i].fields[k], r, i)
    <2>1. i \in DOMAIN heap /\ i \in 1 .. Len(heap) + 1
      BY <1>1, <1>6
    <2>2. IsObject(heap[i])
      BY <2>1 DEF IsHeap
    <2>3. IsObject(r[i])
      BY <1>4, <2>1, <2>2, ReplacedObject
    <2>4. \A n \in DOMAIN heap[i].elems : IsValue(heap[i].elems[n], heap, i)
      BY <2>1 DEF IsHeap
    <2>5. \A k \in DOMAIN heap[i].fields : IsValue(heap[i].fields[k], heap, i)
      BY <2>1 DEF IsHeap
    <2> DEFINE y == ReplacedIn(heap[i], null)
    <2>6. r[i] = y
      BY <1>4, <2>1
    <2>7. /\ DOMAIN y.elems = DOMAIN heap[i].elems
          /\ DOMAIN y.fields = DOMAIN heap[i].fields
          /\ \A n \in DOMAIN heap[i].elems : y.elems[n] = Replaced(heap[i].elems[n], null)
          /\ \A k \in DOMAIN heap[i].fields : y.fields[k] = Replaced(heap[i].fields[k], null)
      BY ReplacedParts
    <2> HIDE DEF y
    <2>8. \A n \in DOMAIN y.elems : IsValue(y.elems[n], r, i)
      BY <1>7, <2>1, <2>4, <2>7
    <2>9. \A k \in DOMAIN y.fields : IsValue(y.fields[k], r, i)
      BY <1>7, <2>1, <2>5, <2>7
    <2> QED BY <2>3, <2>6, <2>8, <2>9
  <1>9. IsHeap(r)
    BY <1>6, <1>8 DEF IsHeap
  <1> QED BY <1>1, <1>6, <1>7, <1>9 DEF r

\* The values of the objects are those of before with their NULLs replaced.
LEMMA ValuesReplaced ==
    ASSUME NEW o, NEW heap, IsHeap(heap), NEW null, IsNull(null)
    PROVE  \A i \in DOMAIN heap :
             /\ ScrubbedAll(o, ReplacedAll(heap, null))[i]
                  = Replaced(ScrubbedAll(o, heap)[i], null)
             /\ PartsReplaced(ScrubbedAll(o, ReplacedAll(heap, null)), ReplacedAll(heap, null)[i],
                              ScrubbedAll(o, heap), heap[i], null)
  <1> DEFINE r == ReplacedAll(heap, null)
             v == ScrubbedAll(o, heap)
             w == ScrubbedAll(o, r)
             last == Len(heap)
             T == {i \in 1 .. last : w[i] = Replaced(v[i], null)}
  <1>1. last \in Nat /\ DOMAIN heap = 1 .. last
    BY HeapIs
  <1>2. IsHeap(r) /\ DOMAIN r = 1 .. last
    BY <1>1, ReplacedHeap
  <1>3. \A i \in DOMAIN heap : r[i] = ReplacedIn(heap[i], null)
    BY DEF ReplacedAll
  <1>4. \A i \in 1 .. last : v[i] = ScrubbedObject(o, v, heap[i], i)
    <2>1. v = [i \in DOMAIN heap |-> ScrubbedObject(o, v, heap[i], i)]
      BY ScrubbedAllIs
    <2> HIDE DEF v
    <2> QED BY <1>1, <2>1
  <1>5. \A i \in 1 .. last : w[i] = ScrubbedObject(o, w, r[i], i)
    <2>1. w = [i \in DOMAIN r |-> ScrubbedObject(o, w, r[i], i)]
      BY <1>2, ScrubbedAllIs
    <2> HIDE DEF w, r
    <2> QED BY <1>2, <2>1
  <1> HIDE DEF last, v, w, r
  <1>6. ASSUME NEW i \in 1 .. last, \A j \in 1 .. i - 1 : w[j] = Replaced(v[j], null)
        PROVE  PartsReplaced(w, r[i], v, heap[i], null)
    <2>1. ASSUME NEW u, IsValue(u, heap, i)
          PROVE  Scrubbed(w, Replaced(u, null)) = Replaced(Scrubbed(v, u), null)
      <3>1. CASE IsRef(u)
        <4>1. u.at \in 1 .. i - 1
          BY <2>1, <3>1 DEF IsValue, IsRef, Kinds, Null, Nothing, Atom, Value
        <4>2. Replaced(u, null) = u
          BY <3>1, ReplacedIs
        <4> QED BY <1>6, <3>1, <4>1, <4>2 DEF Scrubbed
      <3>2. CASE ~IsRef(u)
        <4>1. ~IsRef(Replaced(u, null))
          BY <3>2, ReplacedIs DEF IsRef
        <4> QED BY <3>2, <4>1 DEF Scrubbed
      <3> QED BY <3>1, <3>2
    <2>2. i \in DOMAIN heap
      BY <1>1
    <2>3. \A n \in DOMAIN heap[i].elems : IsValue(heap[i].elems[n], heap, i)
      BY <2>2 DEF IsHeap
    <2>4. \A k \in DOMAIN heap[i].fields : IsValue(heap[i].fields[k], heap, i)
      BY <2>2 DEF IsHeap
    <2> DEFINE y == ReplacedIn(heap[i], null)
    <2>5. r[i] = y
      BY <1>3, <2>2
    <2>6. /\ y.kind = heap[i].kind
          /\ DOMAIN y.elems = DOMAIN heap[i].elems
          /\ DOMAIN y.fields = DOMAIN heap[i].fields
          /\ \A n \in DOMAIN heap[i].elems : y.elems[n] = Replaced(heap[i].elems[n], null)
          /\ \A k \in DOMAIN heap[i].fields : y.fields[k] = Replaced(heap[i].fields[k], null)
      BY ReplacedParts
    <2> HIDE DEF y
    <2>7. PartsReplaced(w, y, v, heap[i], null)
      BY <2>1, <2>3, <2>4, <2>6 DEF PartsReplaced
    <2> QED BY <2>5, <2>7
  <1>7. ASSUME NEW i \in 1 .. last, \A j \in 1 .. i - 1 : j \in T PROVE i \in T
    <2>1. PartsReplaced(w, r[i], v, heap[i], null)
      BY <1>6, <1>7
    <2>2. IsSequence(heap[i].elems)
      BY <1>1, HeapIs
    <2>3. ScrubbedObject(o, w, r[i], i) = Replaced(ScrubbedObject(o, v, heap[i], i), null)
      BY <2>1, <2>2, ScrubbedReplaced
    <2> QED BY <1>4, <1>5, <2>3
  <1>8. \A i \in 1 .. last : i \in T
    <2> HIDE DEF T
    <2> QED BY <1>1, <1>7, BelowInduction
  <1>9. \A i \in 1 .. last : w[i] = Replaced(v[i], null)
    BY <1>8
  <1>10. \A i \in 1 .. last : PartsReplaced(w, r[i], v, heap[i], null)
    <2> TAKE i \in 1 .. last
    <2>1. \A j \in 1 .. i - 1 : w[j] = Replaced(v[j], null)
      BY <1>1, <1>9
    <2> QED BY <1>6, <2>1
  <1> QED BY <1>1, <1>9, <1>10 DEF v, w, r

-----------------------------------------------------------------------------
(* The heap that is made.                                                  *)

\* Each position belongs to one container of one object.
LEMMA Positions ==
    ASSUME NEW last \in Nat
    PROVE  /\ \A i \in 1 .. last :
                /\ ListAt(i) \in 1 .. 3 * last /\ (ListAt(i) + 2) \div 3 = i
                /\ DictAt(i) \in 1 .. 3 * last /\ (DictAt(i) + 2) \div 3 = i
                /\ CallAt(i) \in 1 .. 3 * last /\ (CallAt(i) + 2) \div 3 = i
           /\ \A at \in 1 .. 3 * last :
                \E i \in 1 .. last : at \in {ListAt(i), DictAt(i), CallAt(i)}
  <1>1. \A i \in 1 .. last :
          /\ ListAt(i) \in 1 .. 3 * last /\ (ListAt(i) + 2) \div 3 = i
          /\ DictAt(i) \in 1 .. 3 * last /\ (DictAt(i) + 2) \div 3 = i
          /\ CallAt(i) \in 1 .. 3 * last /\ (CallAt(i) + 2) \div 3 = i
    BY DEF ListAt, DictAt, CallAt
  <1>2. ASSUME NEW at \in 1 .. 3 * last
        PROVE  \E i \in 1 .. last : at \in {ListAt(i), DictAt(i), CallAt(i)}
    <2> DEFINE i == (at + 2) \div 3
    <2>1. i \in 1 .. last /\ at + 2 \in 3 * i .. 3 * i + 2
      OBVIOUS
    <2> HIDE DEF i
    <2>2. at = 3 * i - 2 \/ at = 3 * i - 1 \/ at = 3 * i
      BY <2>1
    <2> QED BY <2>1, <2>2 DEF ListAt, DictAt, CallAt
  <1> QED BY <1>1, <1>2

LEMMA PositionsDiffer ==
    ASSUME NEW i \in Nat, NEW j \in Nat
    PROVE  /\ ListAt(i) = ListAt(j) => i = j
           /\ DictAt(i) = DictAt(j) => i = j
           /\ ListAt(i) # DictAt(j) /\ ListAt(i) # CallAt(j) /\ DictAt(i) # CallAt(j)
  BY DEF ListAt, DictAt, CallAt

LEMMA MadeHeapIs ==
    ASSUME NEW o, NEW heap, IsHeap(heap)
    PROVE  /\ IsSequence(MadeHeap(o, heap)) /\ Len(MadeHeap(o, heap)) = 3 * Len(heap)
           /\ DOMAIN MadeHeap(o, heap) = 1 .. 3 * Len(heap)
           /\ \A i \in DOMAIN heap :
                /\ MadeHeap(o, heap)[ListAt(i)] = MadeList(o, ScrubbedAll(o, heap), heap[i])
                /\ MadeHeap(o, heap)[DictAt(i)] = MadeDict(o, ScrubbedAll(o, heap), heap[i], i)
                /\ MadeHeap(o, heap)[CallAt(i)] = MadeCall(o, ScrubbedAll(o, heap), heap[i], i)
  <1> DEFINE v == ScrubbedAll(o, heap)
             last == Len(heap)
             made == MadeHeap(o, heap)
  <1>1. last \in Nat /\ DOMAIN heap = 1 .. last
    BY HeapIs
  <1>2. made = [at \in 1 .. 3 * last |->
                  Made(o, v, heap[(at + 2) \div 3], (at + 2) \div 3)[at + 3 - 3 * ((at + 2) \div 3)]]
    BY DEF MadeHeap
  <1> HIDE DEF v, made, last
  <1>3. IsSequence(made) /\ Len(made) = 3 * last /\ DOMAIN made = 1 .. 3 * last
    <2>1. 3 * last \in Nat
      BY <1>1
    <2>2. made = [at \in 1 .. 3 * last |-> made[at]]
      BY <1>2
    <2> QED BY <2>1, <2>2, SequenceIs
  <1>4. ASSUME NEW i \in 1 .. last, NEW at \in 1 .. 3 * last, (at + 2) \div 3 = i
        PROVE  made[at] = Made(o, v, heap[i], i)[at + 3 - 3 * i]
    BY <1>2, <1>4
  <1>5. ASSUME NEW i \in 1 .. last
        PROVE  /\ made[ListAt(i)] = MadeList(o, v, heap[i])
               /\ made[DictAt(i)] = MadeDict(o, v, heap[i], i)
               /\ made[CallAt(i)] = MadeCall(o, v, heap[i], i)
    <2>1. /\ made[ListAt(i)] = Made(o, v, heap[i], i)[ListAt(i) + 3 - 3 * i]
          /\ made[DictAt(i)] = Made(o, v, heap[i], i)[DictAt(i) + 3 - 3 * i]
          /\ made[CallAt(i)] = Made(o, v, heap[i], i)[CallAt(i) + 3 - 3 * i]
      BY <1>1, <1>4, Positions
    <2>2. ListAt(i) + 3 - 3 * i = 1 /\ DictAt(i) + 3 - 3 * i = 2 /\ CallAt(i) + 3 - 3 * i = 3
      BY <1>1 DEF ListAt, DictAt, CallAt
    <2> QED BY <2>1, <2>2 DEF Made
  <1> QED BY <1>1, <1>3, <1>5 DEF v, made, last

-----------------------------------------------------------------------------
(* The containers that are made hold the same with its NULLs replaced.     *)

LEMMA ReplacedList ==
    ASSUME NEW s, NEW null
    PROVE  ReplacedIn(List(s), null) = List([n \in DOMAIN s |-> Replaced(s[n], null)])
  <1>1. [k \in DOMAIN NoFields |-> Replaced(NoFields[k], null)] = NoFields
    BY DEF NoFields
  <1> QED BY <1>1 DEF ReplacedIn, List, Object

LEMMA ReplacedDict ==
    ASSUME NEW f, NEW null
    PROVE  ReplacedIn(Dict(f), null) = Dict([k \in DOMAIN f |-> Replaced(f[k], null)])
  <1>1. [n \in DOMAIN <<>> |-> Replaced(<<>>[n], null)] = <<>>
    OBVIOUS
  <1> QED BY <1>1 DEF ReplacedIn, Dict, Object

LEMMA ReplacedEmpty ==
    ASSUME NEW null
    PROVE  ReplacedIn(Empty, null) = Empty
  <1>1. [k \in DOMAIN NoFields |-> Replaced(NoFields[k], null)] = NoFields
    BY DEF NoFields
  <1> QED BY <1>1, ReplacedDict DEF Empty

LEMMA ReplacedWith ==
    ASSUME NEW f, NEW g, NEW k, NEW u, NEW null,
           g = [j \in DOMAIN f |-> Replaced(f[j], null)]
    PROVE  With(g, k, Replaced(u, null))
             = [j \in DOMAIN With(f, k, u) |-> Replaced(With(f, k, u)[j], null)]
  BY DEF With

\* The callbacks do with a NULL what they do with the value in its place.
LEMMA SimpleOpReplaced ==
    ASSUME NEW op, NEW args, NEW f, NEW g, NEW i, NEW null, IsNull(null),
           g = [j \in DOMAIN f |-> Replaced(f[j], null)]
    PROVE  simple_op(op, Replaced(args, null), g, i)
             = [k \in DOMAIN simple_op(op, args, f, i) |->
                  Replaced(simple_op(op, args, f, i)[k], null)]
  <1>1. Replaced(args, null) = Nothing <=> args = Nothing
    BY ReplacedIs
  <1>2. Replaced(Ref("dict", ListAt(i)), null) = Ref("dict", ListAt(i))
    BY ReplacedIs DEF Ref, Value, IsRef, Kinds
  <1> DEFINE u == IF args = Nothing THEN Ref("dict", ListAt(i)) ELSE args
  <1>3. Replaced(u, null) = IF Replaced(args, null) = Nothing THEN Ref("dict", ListAt(i))
                            ELSE Replaced(args, null)
    BY <1>1, <1>2
  <1>4. simple_op(op, args, f, i) = With(f, op, u)
    BY DEF simple_op
  <1>5. simple_op(op, Replaced(args, null), g, i) = With(g, op, Replaced(u, null))
    BY <1>3 DEF simple_op
  <1> HIDE DEF u
  <1>6. With(g, op, Replaced(u, null)) = [k \in DOMAIN With(f, op, u) |-> Replaced(With(f, op, u)[k], null)]
    BY ReplacedWith
  <1> QED BY <1>4, <1>5, <1>6

LEMMA NormalOpReplaced ==
    ASSUME NEW op, NEW args, args # Null, NEW f, NEW g, NEW i, NEW null, IsNull(null),
           g = [j \in DOMAIN f |-> Replaced(f[j], null)]
    PROVE  normal_op(op, Replaced(args, null), g, i)
             = [k \in DOMAIN normal_op(op, args, f, i) |->
                  Replaced(normal_op(op, args, f, i)[k], null)]
  <1>1. \A at : \A kind \in {"list", "dict"} : Replaced(Ref(kind, at), null) = Ref(kind, at)
    BY ReplacedIs DEF Ref, Value, IsRef, Kinds
  <1> DEFINE named == With(NoFields, "op", Atom(op))
             wrapped == Listwrap(args, i)
             called == IF args = Nothing THEN named ELSE With(named, "args", wrapped)
             n == normal_op(op, args, f, i)
  <1>2. Replaced(args, null) = args
    BY DEF Replaced
  <1>3. f = NoFields <=> g = NoFields
    BY DEF NoFields
  <1>4. normal_op(op, Replaced(args, null), g, i) = n
    BY <1>2, <1>3 DEF normal_op
  <1>5. Replaced(Atom(op), null) = Atom(op)
    BY DEF Replaced, Atom, Null, Value
  <1>6. Replaced(wrapped, null) = wrapped
    BY <1>1, <1>2 DEF Listwrap
  <1>7. Replaced(Ref("dict", DictAt(i)), null) = Ref("dict", DictAt(i))
    BY <1>1
  <1>8. n = IF f = NoFields THEN called ELSE With(called, "kwargs", Ref("dict", DictAt(i)))
    BY DEF normal_op
  <1> HIDE DEF wrapped, n
  <1>9. \A k \in DOMAIN named : Replaced(named[k], null) = named[k]
    BY <1>5 DEF With, NoFields
  <1> HIDE DEF named
  <1>10. \A k \in DOMAIN called : Replaced(called[k], null) = called[k]
    BY <1>6, <1>9 DEF With
  <1>11. called = [k \in DOMAIN called |-> called[k]]
    <2>1. named = [k \in DOMAIN named |-> named[k]]
      BY DEF named, With
    <2> QED BY <2>1 DEF With
  <1> HIDE DEF called
  <1>12. \A k \in DOMAIN n : Replaced(n[k], null) = n[k]
    BY <1>7, <1>8, <1>10 DEF With
  <1>13. n = [k \in DOMAIN n |-> n[k]]
    BY <1>8, <1>11 DEF With
  <1> QED BY <1>4, <1>12, <1>13 DEF n

\* What Replaceable and IsCase ask of a call, and of all of them.
SoundCall(o, v, x, i) ==
    x.kind = "call" =>
      /\ Renamed(o, x.op) \notin DOMAIN x.fields
      /\ ScrubbedList(v, x, i) = Null => o.calls = "simple_op" /\ Renamed(o, x.op) = x.op

Sound(o, heap) == \A i \in DOMAIN heap : SoundCall(o, ScrubbedAll(o, heap), heap[i], i)

LEMMA MadeReplaced ==
    ASSUME NEW w, NEW y, NEW v, NEW x, NEW null, IsNull(null),
           IsSequence(x.elems), PartsReplaced(w, y, v, x, null), y.op = x.op,
           NEW o, NEW i,
           x.kind = "call" /\ o.calls = "normal_op" => ScrubbedList(v, x, i) # Null
    PROVE  /\ MadeList(o, w, y) = ReplacedIn(MadeList(o, v, x), null)
           /\ MadeDict(o, w, y, i) = ReplacedIn(MadeDict(o, v, x, i), null)
           /\ MadeCall(o, w, y, i) = ReplacedIn(MadeCall(o, v, x, i), null)
  <1>1. y.kind = x.kind
    BY DEF PartsReplaced
  <1>2. /\ Listed(w, y) = [n \in DOMAIN Listed(v, x) |-> Replaced(Listed(v, x)[n], null)]
        /\ Len(Listed(w, y)) = Len(Listed(v, x))
    BY ListedReplaced
  <1>3. Named(w, y) = [k \in DOMAIN Named(v, x) |-> Replaced(Named(v, x)[k], null)]
    BY NamedReplaced
  <1>4. ScrubbedList(w, y, i) = Replaced(ScrubbedList(v, x, i), null)
    BY ScrubbedReplaced
  <1>5. MadeList(o, w, y) = ReplacedIn(MadeList(o, v, x), null)
    <2> DEFINE P == \/ Len(Listed(v, x)) > 1
                    \/ Len(Listed(v, x)) = 1 /\ x.kind = "call" /\ o.calls = "normal_op"
    <2>1. MadeList(o, v, x) = IF P THEN List(Listed(v, x)) ELSE Empty
      BY DEF MadeList
    <2>2. MadeList(o, w, y) = IF P THEN List(Listed(w, y)) ELSE Empty
      BY <1>1, <1>2 DEF MadeList
    <2>3. List(Listed(w, y)) = ReplacedIn(List(Listed(v, x)), null)
      BY <1>2, ReplacedList
    <2> HIDE DEF P
    <2> QED BY <2>1, <2>2, <2>3, ReplacedEmpty
  <1> DEFINE args == ScrubbedList(v, x, i)
             f == Named(v, x)
             op == Renamed(o, x.op)
  <1>6. MadeDict(o, w, y, i) = ReplacedIn(MadeDict(o, v, x, i), null)
    <2>1. CASE x.kind = "call" /\ o.calls = "simple_op"
      <3>1. MadeDict(o, v, x, i) = Dict(simple_op(op, args, f, i))
        BY <2>1 DEF MadeDict
      <3>2. MadeDict(o, w, y, i) = Dict(simple_op(op, Replaced(args, null), Named(w, y), i))
        BY <1>1, <1>4, <2>1 DEF MadeDict
      <3> HIDE DEF args, f, op
      <3>3. simple_op(op, Replaced(args, null), Named(w, y), i)
              = [k \in DOMAIN simple_op(op, args, f, i) |-> Replaced(simple_op(op, args, f, i)[k], null)]
        BY <1>3, SimpleOpReplaced DEF f
      <3> QED BY <3>1, <3>2, <3>3, ReplacedDict
    <2>2. CASE ~(x.kind = "call" /\ o.calls = "simple_op")
      <3>1. MadeDict(o, v, x, i) = Dict(f) /\ MadeDict(o, w, y, i) = Dict(Named(w, y))
        BY <1>1, <2>2 DEF MadeDict
      <3> QED BY <1>3, <3>1, ReplacedDict
    <2> QED BY <2>1, <2>2
  <1>7. MadeCall(o, w, y, i) = ReplacedIn(MadeCall(o, v, x, i), null)
    <2>1. CASE x.kind = "call" /\ o.calls = "normal_op"
      <3>1. MadeCall(o, v, x, i) = Dict(normal_op(op, args, f, i))
        BY <2>1 DEF MadeCall
      <3>2. MadeCall(o, w, y, i) = Dict(normal_op(op, Replaced(args, null), Named(w, y), i))
        BY <1>1, <1>4, <2>1 DEF MadeCall
      <3>3. args # Null
        BY <2>1
      <3> DEFINE g == Named(w, y)
                 before == normal_op(op, args, f, i)
                 after == normal_op(op, Replaced(args, null), g, i)
      <3>4. g = [k \in DOMAIN f |-> Replaced(f[k], null)]
        BY <1>3
      <3> HIDE DEF args, f, op, g
      <3>5. after = [k \in DOMAIN before |-> Replaced(before[k], null)]
        BY ONLY IsNull(null), <3>3, <3>4, NormalOpReplaced
      <3> HIDE DEF before, after
      <3>6. ReplacedIn(Dict(before), null) = Dict(after)
        BY <3>5, ReplacedDict
      <3> QED BY <3>1, <3>2, <3>6 DEF before, after, g
    <2>2. CASE ~(x.kind = "call" /\ o.calls = "normal_op")
      <3>1. MadeCall(o, v, x, i) = Empty /\ MadeCall(o, w, y, i) = Empty
        BY <1>1, <2>2 DEF MadeCall
      <3> QED BY <3>1, ReplacedEmpty
    <2> QED BY <2>1, <2>2
  <1> QED BY <1>5, <1>6, <1>7

\* Scrubbing the heap with its NULLs replaced makes the heap that scrubbing
\* makes of it, with its NULLs replaced.
LEMMA MadeHeapReplaced ==
    ASSUME NEW o, NEW heap, IsHeap(heap), Sound(o, heap), NEW null, IsNull(null)
    PROVE  MadeHeap(o, ReplacedAll(heap, null)) = ReplacedAll(MadeHeap(o, heap), null)
  <1> DEFINE r == ReplacedAll(heap, null)
             v == ScrubbedAll(o, heap)
             w == ScrubbedAll(o, r)
             last == Len(heap)
             before == MadeHeap(o, heap)
             after == MadeHeap(o, r)
  <1>1. last \in Nat /\ DOMAIN heap = 1 .. last
    BY HeapIs
  <1>2. IsHeap(r) /\ Len(r) = last /\ DOMAIN r = 1 .. last
    BY <1>1, ReplacedHeap
  <1>3. /\ DOMAIN before = 1 .. 3 * last
        /\ \A i \in 1 .. last :
             /\ before[ListAt(i)] = MadeList(o, v, heap[i])
             /\ before[DictAt(i)] = MadeDict(o, v, heap[i], i)
             /\ before[CallAt(i)] = MadeCall(o, v, heap[i], i)
    BY <1>1, MadeHeapIs
  <1>4. /\ DOMAIN after = 1 .. 3 * last
        /\ \A i \in 1 .. last :
             /\ after[ListAt(i)] = MadeList(o, w, r[i])
             /\ after[DictAt(i)] = MadeDict(o, w, r[i], i)
             /\ after[CallAt(i)] = MadeCall(o, w, r[i], i)
    <2> HIDE DEF r
    <2> QED BY <1>2, MadeHeapIs
  <1>5. \A i \in 1 .. last :
          /\ MadeList(o, w, r[i]) = ReplacedIn(MadeList(o, v, heap[i]), null)
          /\ MadeDict(o, w, r[i], i) = ReplacedIn(MadeDict(o, v, heap[i], i), null)
          /\ MadeCall(o, w, r[i], i) = ReplacedIn(MadeCall(o, v, heap[i], i), null)
    <2> TAKE i \in 1 .. last
    <2>1. PartsReplaced(w, r[i], v, heap[i], null)
      BY <1>1, ValuesReplaced
    <2>2. IsSequence(heap[i].elems)
      BY <1>1, HeapIs
    <2>3. r[i].op = heap[i].op
      BY <1>1 DEF ReplacedAll, ReplacedIn, Object
    <2>4. heap[i].kind = "call" /\ o.calls = "normal_op" => ScrubbedList(v, heap[i], i) # Null
      BY <1>1 DEF Sound, SoundCall
    <2> HIDE DEF r, v, w
    <2> QED BY <2>1, <2>2, <2>3, <2>4, MadeReplaced
  <1>6. after = [at \in 1 .. 3 * last |-> after[at]]
    BY <1>2 DEF MadeHeap
  <1> HIDE DEF r, v, w, last, before, after
  <1>7. ASSUME NEW at \in 1 .. 3 * last PROVE after[at] = ReplacedIn(before[at], null)
    <2>1. PICK i \in 1 .. last : at \in {ListAt(i), DictAt(i), CallAt(i)}
      BY <1>1, Positions
    <2> QED BY <1>3, <1>4, <1>5, <2>1
  <1>8. after = ReplacedAll(before, null)
    BY <1>3, <1>6, <1>7 DEF ReplacedAll
  <1> QED BY <1>8 DEF after, before, r

-----------------------------------------------------------------------------
(* The locations are those of the NULLs in what is made.                   *)

\* The steps of the locations at one position.
StepsAt(locs, walk, at) == {l.step : l \in {m \in locs : m.walk = walk /\ m.at = at}}

\* Where a list and a dictionary have their NULLs.
NullIndexes(s) == {Index(k) : k \in {j \in DOMAIN s : s[j] = Null}}
NullFields(f) == {Field(k) : k \in {j \in DOMAIN f : f[j] = Null}}

\* The steps recorded for the list and for the dictionary of an object.
ListSteps(v, x) == IF Len(Listed(v, x)) > 1 THEN NullIndexes(Listed(v, x)) ELSE {}
DictSteps(v, x, i) ==
    NullFields(Named(v, x))
    \cup (IF x.kind = "call" /\ ScrubbedList(v, x, i) = Null THEN {Field(x.op)} ELSE {})

LEMMA StepsAre ==
    ASSUME NEW o, NEW heap, IsHeap(heap), NEW i \in DOMAIN heap, NEW walk, NEW locs,
           {l \in locs : l.walk = walk} = Locations(o, heap, walk),
           NEW v, v = ScrubbedAll(o, heap), NEW x, x = heap[i]
    PROVE  /\ StepsAt(locs, walk, ListAt(i)) = ListSteps(v, x)
           /\ StepsAt(locs, walk, DictAt(i)) = DictSteps(v, x, i)
           /\ StepsAt(locs, walk, CallAt(i)) = {}
  <1> DEFINE L(j) == ListLocs(v, heap[j], j, walk)
             D(j) == DictLocs(v, heap[j], j, walk)
             C(j) == CallLocs(v, heap[j], j, walk)
  <1>1. \A j \in DOMAIN heap : j \in Nat
    BY HeapIs
  <1>2. \A at : StepsAt(locs, walk, at) = {l.step : l \in {m \in Locations(o, heap, walk) : m.at = at}}
    <2> TAKE at
    <2>1. {m \in locs : m.walk = walk /\ m.at = at} = {m \in {l \in locs : l.walk = walk} : m.at = at}
      OBVIOUS
    <2> QED BY <2>1 DEF StepsAt
  <1>3. Locations(o, heap, walk) = UNION {L(j) \cup D(j) \cup C(j) : j \in DOMAIN heap}
    BY DEF Locations
  <1>4. \A j \in DOMAIN heap : /\ \A l \in L(j) : l.at = ListAt(j)
                               /\ \A l \in D(j) : l.at = DictAt(j)
                               /\ \A l \in C(j) : l.at = DictAt(j)
    BY DEF ListLocs, DictLocs, CallLocs, Slot
  <1>5. {l.step : l \in L(i)} = IF Len(Listed(v, x)) > 1 THEN NullIndexes(Listed(v, x)) ELSE {}
    <2> DEFINE K == {j \in DOMAIN Listed(v, x) : Len(Listed(v, x)) > 1 /\ Listed(v, x)[j] = Null}
    <2>1. L(i) = {Slot(walk, ListAt(i), Index(k)) : k \in K}
      BY DEF ListLocs
    <2>2. K = IF Len(Listed(v, x)) > 1 THEN {j \in DOMAIN Listed(v, x) : Listed(v, x)[j] = Null} ELSE {}
      OBVIOUS
    <2> HIDE DEF K, L
    <2>3. {l.step : l \in L(i)} = {Index(k) : k \in K}
      <3>1. \A s : Slot(walk, ListAt(i), s).step = s
        BY DEF Slot
      <3> QED BY ONLY <2>1, <3>1
    <2> QED BY <2>2, <2>3 DEF NullIndexes
  <1>6. {l.step : l \in D(i)} = NullFields(Named(v, x))
    <2> DEFINE K == {j \in DOMAIN Named(v, x) : Named(v, x)[j] = Null}
    <2>1. D(i) = {Slot(walk, DictAt(i), Field(k)) : k \in K}
      BY DEF DictLocs
    <2> HIDE DEF K, D
    <2>2. {l.step : l \in D(i)} = {Field(k) : k \in K}
      <3>1. \A s : Slot(walk, DictAt(i), s).step = s
        BY DEF Slot
      <3> QED BY ONLY <2>1, <3>1
    <2> QED BY <2>2 DEF NullFields, K
  <1>7. {l.step : l \in C(i)} = IF x.kind = "call" /\ ScrubbedList(v, x, i) = Null
                                THEN {Field(x.op)} ELSE {}
    <2>1. Slot(walk, DictAt(i), Field(x.op)).step = Field(x.op)
      BY DEF Slot
    <2> QED BY <2>1 DEF CallLocs
  <1> HIDE DEF L, D, C
  <1>8. {m \in Locations(o, heap, walk) : m.at = ListAt(i)} = L(i)
    BY <1>1, <1>3, <1>4, PositionsDiffer
  <1>9. {m \in Locations(o, heap, walk) : m.at = DictAt(i)} = D(i) \cup C(i)
    BY <1>1, <1>3, <1>4, PositionsDiffer
  <1>10. {m \in Locations(o, heap, walk) : m.at = CallAt(i)} = {}
    BY <1>1, <1>3, <1>4, PositionsDiffer
  <1>11. {l.step : l \in D(i) \cup C(i)} = {l.step : l \in D(i)} \cup {l.step : l \in C(i)}
    OBVIOUS
  <1>12. StepsAt(locs, walk, ListAt(i)) = {l.step : l \in L(i)}
    BY <1>2, <1>8
  <1>13. StepsAt(locs, walk, DictAt(i)) = {l.step : l \in D(i)} \cup {l.step : l \in C(i)}
    BY <1>2, <1>9, <1>11
  <1>14. StepsAt(locs, walk, CallAt(i)) = {}
    <2>1. StepsAt(locs, walk, CallAt(i)) = {l.step : l \in {}}
      BY <1>2, <1>10
    <2> QED BY <2>1
  <1> QED BY <1>5, <1>6, <1>7, <1>12, <1>13, <1>14, Zenon DEF ListSteps, DictSteps

\* A list that gets null at its NULLs.
LEMMA PutInList ==
    ASSUME NEW s, NEW null
    PROVE  PutIn(List(s), NullIndexes(s), null) = ReplacedIn(List(s), null)
  <1>1. \A k \in DOMAIN s : Index(k) \in NullIndexes(s) <=> s[k] = Null
    BY DEF Index, NullIndexes
  <1>2. List(s).kind = "list" /\ List(s).elems = s
    BY DEF List, Object
  <1>3. PutIn(List(s), NullIndexes(s), null)
          = List([k \in DOMAIN s |-> IF Index(k) \in NullIndexes(s) THEN null ELSE s[k]])
    BY <1>2 DEF PutIn
  <1>4. [k \in DOMAIN s |-> IF Index(k) \in NullIndexes(s) THEN null ELSE s[k]]
          = [k \in DOMAIN s |-> Replaced(s[k], null)]
    BY <1>1 DEF Replaced
  <1> QED BY <1>3, <1>4, ReplacedList

\* A dictionary that gets null at its NULLs.
LEMMA PutInDict ==
    ASSUME NEW f, NEW null
    PROVE  PutIn(Dict(f), NullFields(f), null) = ReplacedIn(Dict(f), null)
  <1> DEFINE keys == {k \in DOMAIN f : f[k] = Null}
  <1>1. {s[1] : s \in NullFields(f)} = keys
    <2>1. \A k : Field(k)[1] = k
      BY DEF Field
    <2>2. NullFields(f) = {Field(k) : k \in keys}
      BY DEF NullFields
    <2> HIDE DEF keys
    <2>3. {s[1] : s \in NullFields(f)} = {Field(k)[1] : k \in keys}
      BY <2>2
    <2> QED BY <2>1, <2>3
  <1>2. Dict(f).kind = "dict" /\ Dict(f).fields = f
    BY DEF Dict, Object
  <1> HIDE DEF keys
  <1>3. PutIn(Dict(f), NullFields(f), null)
          = Dict([k \in DOMAIN f \cup keys |-> IF k \in keys THEN null ELSE f[k]])
    BY <1>1, <1>2 DEF PutIn
  <1>4. [k \in DOMAIN f \cup keys |-> IF k \in keys THEN null ELSE f[k]]
          = [k \in DOMAIN f |-> Replaced(f[k], null)]
    BY DEF Replaced, keys
  <1> QED BY <1>3, <1>4, ReplacedDict

\* A dictionary without NULLs.
LEMMA NoNullFields ==
    ASSUME NEW f, \A k \in DOMAIN f : f[k] # Null
    PROVE  NullFields(f) = {}
  BY DEF NullFields

LEMMA NullFieldsWith ==
    ASSUME NEW f, NEW k, k \notin DOMAIN f, NEW u
    PROVE  NullFields(With(f, k, u)) = NullFields(f) \cup (IF u = Null THEN {Field(k)} ELSE {})
  <1> DEFINE K == {j \in DOMAIN f : f[j] = Null}
             N == {j \in DOMAIN With(f, k, u) : With(f, k, u)[j] = Null}
  <1>1. N = K \cup (IF u = Null THEN {k} ELSE {})
    BY DEF With
  <1>2. NullFields(f) = {Field(j) : j \in K} /\ NullFields(With(f, k, u)) = {Field(j) : j \in N}
    BY DEF NullFields
  <1> HIDE DEF K, N
  <1> QED BY ONLY <1>1, <1>2

\* The answer of normal_op has no NULL among its fields.
LEMMA NormalOpNoNulls ==
    ASSUME NEW op, NEW args, args # Null, NEW kwargs, NEW i
    PROVE  \A k \in DOMAIN normal_op(op, args, kwargs, i) : normal_op(op, args, kwargs, i)[k] # Null
  <1> DEFINE Free(f) == \A k \in DOMAIN f : f[k] # Null
  <1>1. \A f, k, u : Free(f) /\ u # Null => Free(With(f, k, u))
    BY DEF With
  <1>2. Free(NoFields)
    BY DEF NoFields
  <1>3. Atom(op) # Null /\ Listwrap(args, i) # Null /\ Ref("dict", DictAt(i)) # Null
    BY DEF Atom, Null, Ref, Value, Listwrap
  <1> HIDE DEF Free
  <1>4. Free(With(NoFields, "op", Atom(op)))
    BY <1>1, <1>2, <1>3
  <1>5. Free(With(With(NoFields, "op", Atom(op)), "args", Listwrap(args, i)))
    BY <1>1, <1>3, <1>4
  <1>6. Free(normal_op(op, args, kwargs, i))
    BY <1>1, <1>3, <1>4, <1>5 DEF normal_op
  <1> QED BY <1>6 DEF Free

\* Each container gets null where its NULLs are.
LEMMA PutInMade ==
    ASSUME NEW o, NEW v, NEW x, IsSequence(x.elems), NEW i \in Nat, NEW null,
           o.calls \in {"simple_op", "normal_op"},
           SoundCall(o, v, x, i)
    PROVE  /\ PutIn(MadeList(o, v, x), ListSteps(v, x), null) = ReplacedIn(MadeList(o, v, x), null)
           /\ PutIn(MadeDict(o, v, x, i), DictSteps(v, x, i), null)
                = ReplacedIn(MadeDict(o, v, x, i), null)
           /\ PutIn(MadeCall(o, v, x, i), {}, null) = ReplacedIn(MadeCall(o, v, x, i), null)
  <1> DEFINE s == Listed(v, x)
             f == Named(v, x)
             args == ScrubbedList(v, x, i)
             op == Renamed(o, x.op)
             u == IF args = Nothing THEN Ref("dict", ListAt(i)) ELSE args
  <1>0. /\ x.kind = "call" =>
             /\ op \notin DOMAIN x.fields
             /\ args = Null => o.calls = "simple_op" /\ op = x.op
        /\ ListSteps(v, x) = IF Len(s) > 1 THEN NullIndexes(s) ELSE {}
        /\ DictSteps(v, x, i)
             = NullFields(f) \cup (IF x.kind = "call" /\ args = Null THEN {Field(x.op)} ELSE {})
    BY DEF SoundCall, ListSteps, DictSteps
  <1>1. DOMAIN s = 1 .. Len(s) /\ Len(s) \in Nat
    BY ListedIs
  <1>2. Len(s) = 1 => args = s[1]
    BY DEF ScrubbedList
  <1>3. PutIn(Empty, {}, null) = ReplacedIn(Empty, null)
    <2>1. NullFields(NoFields) = {}
      BY NoNullFields DEF NoFields
    <2>2. PutIn(Dict(NoFields), NullFields(NoFields), null) = ReplacedIn(Dict(NoFields), null)
      BY PutInDict
    <2> QED BY <2>1, <2>2 DEF Empty
  <1>4. DOMAIN f \subseteq DOMAIN x.fields
    BY DEF Named
  <1>5. MadeList(o, v, x) = IF \/ Len(s) > 1
                               \/ Len(s) = 1 /\ x.kind = "call" /\ o.calls = "normal_op"
                            THEN List(s) ELSE Empty
    BY DEF MadeList
  <1>6. /\ x.kind = "call" /\ o.calls = "simple_op" =>
             MadeDict(o, v, x, i) = Dict(With(f, op, u)) /\ MadeCall(o, v, x, i) = Empty
        /\ x.kind = "call" /\ o.calls = "normal_op" =>
             MadeDict(o, v, x, i) = Dict(f) /\ MadeCall(o, v, x, i) = Dict(normal_op(op, args, f, i))
        /\ x.kind # "call" =>
             MadeDict(o, v, x, i) = Dict(f) /\ MadeCall(o, v, x, i) = Empty
    BY DEF MadeDict, MadeCall, simple_op
  <1>7. u = Null <=> args = Null
    BY DEF Ref, Value, Null, Nothing
  <1> HIDE DEF s, f, args, op, u
  <1>8. PutIn(MadeList(o, v, x), IF Len(s) > 1 THEN NullIndexes(s) ELSE {}, null)
          = ReplacedIn(MadeList(o, v, x), null)
    <2>1. CASE Len(s) > 1
      BY <1>5, <2>1, PutInList
    <2>2. CASE Len(s) = 1 /\ x.kind = "call" /\ o.calls = "normal_op"
      <3>1. s[1] # Null
        BY <1>0, <1>2, <2>2
      <3>2. NullIndexes(s) = {}
        BY <1>1, <2>2, <3>1 DEF NullIndexes
      <3> QED BY <1>5, <2>2, <3>2, PutInList
    <2>3. CASE ~(Len(s) > 1) /\ ~(Len(s) = 1 /\ x.kind = "call" /\ o.calls = "normal_op")
      BY <1>3, <1>5, <2>3
    <2> QED BY <2>1, <2>2, <2>3
  <1>9. PutIn(MadeDict(o, v, x, i),
              NullFields(f) \cup (IF x.kind = "call" /\ args = Null THEN {Field(x.op)} ELSE {}), null)
          = ReplacedIn(MadeDict(o, v, x, i), null)
    <2> DEFINE own == IF x.kind = "call" /\ args = Null THEN {Field(x.op)} ELSE {}
    <2>1. CASE x.kind = "call" /\ o.calls = "simple_op"
      <3>1. op \notin DOMAIN f
        BY <1>0, <1>4, <2>1
      <3>2. NullFields(With(f, op, u)) = NullFields(f) \cup (IF u = Null THEN {Field(op)} ELSE {})
        BY <3>1, NullFieldsWith
      <3>3. own = IF u = Null THEN {Field(op)} ELSE {}
        BY <1>0, <1>7, <2>1
      <3> QED BY <1>6, <2>1, <3>2, <3>3, PutInDict
    <2>2. CASE ~(x.kind = "call" /\ o.calls = "simple_op")
      <3>1. own = {}
        BY <1>0, <2>2
      <3>2. MadeDict(o, v, x, i) = Dict(f)
        BY <1>6, <2>2
      <3> QED BY <3>1, <3>2, PutInDict
    <2> QED BY <2>1, <2>2
  <1>10. PutIn(MadeCall(o, v, x, i), {}, null) = ReplacedIn(MadeCall(o, v, x, i), null)
    <2>1. CASE x.kind = "call" /\ o.calls = "normal_op"
      <3>1. args # Null
        BY <1>0, <2>1
      <3> DEFINE n == normal_op(op, args, f, i)
      <3>2. \A k \in DOMAIN n : n[k] # Null
        BY <3>1, NormalOpNoNulls
      <3>3. MadeCall(o, v, x, i) = Dict(n)
        BY <1>6, <2>1
      <3> HIDE DEF n
      <3>4. NullFields(n) = {}
        BY <3>2, NoNullFields
      <3>5. PutIn(Dict(n), NullFields(n), null) = ReplacedIn(Dict(n), null)
        BY PutInDict
      <3> QED BY <3>3, <3>4, <3>5
    <2>2. CASE ~(x.kind = "call" /\ o.calls = "normal_op")
      BY <1>3, <1>6, <2>2
    <2> QED BY <2>1, <2>2
  <1> QED BY <1>0, <1>8, <1>9, <1>10, Zenon DEF s, f, args, op

\* Putting null in the locations that scrub() records replaces each NULL in
\* what it makes, and nothing else.
LEMMA PutIsReplaced ==
    ASSUME NEW o, o.calls \in {"simple_op", "normal_op"}, NEW heap, IsHeap(heap), Sound(o, heap),
           NEW walk, NEW locs, {l \in locs : l.walk = walk} = Locations(o, heap, walk),
           NEW null, NEW root
    PROVE  Put(Tree(MadeHeap(o, heap), root), walk, locs, null)
             = Tree(ReplacedAll(MadeHeap(o, heap), null), root)
  <1> DEFINE made == MadeHeap(o, heap)
             last == Len(heap)
             v == ScrubbedAll(o, heap)
  <1>1. last \in Nat /\ DOMAIN heap = 1 .. last
    BY HeapIs
  <1>2. /\ DOMAIN made = 1 .. 3 * last
        /\ \A i \in 1 .. last :
             /\ made[ListAt(i)] = MadeList(o, v, heap[i])
             /\ made[DictAt(i)] = MadeDict(o, v, heap[i], i)
             /\ made[CallAt(i)] = MadeCall(o, v, heap[i], i)
    BY <1>1, MadeHeapIs
  <1>3. ASSUME NEW i \in 1 .. last, NEW x, x = heap[i]
        PROVE  /\ PutIn(MadeList(o, v, x), StepsAt(locs, walk, ListAt(i)), null)
                    = ReplacedIn(MadeList(o, v, x), null)
               /\ PutIn(MadeDict(o, v, x, i), StepsAt(locs, walk, DictAt(i)), null)
                    = ReplacedIn(MadeDict(o, v, x, i), null)
               /\ PutIn(MadeCall(o, v, x, i), StepsAt(locs, walk, CallAt(i)), null)
                    = ReplacedIn(MadeCall(o, v, x, i), null)
    <2>1. i \in DOMAIN heap
      BY <1>1
    <2>2. IsSequence(x.elems)
      BY <1>3, <2>1, HeapIs
    <2>3. SoundCall(o, v, x, i)
      BY <1>3, <2>1 DEF Sound
    <2>4. /\ StepsAt(locs, walk, ListAt(i)) = ListSteps(v, x)
          /\ StepsAt(locs, walk, DictAt(i)) = DictSteps(v, x, i)
          /\ StepsAt(locs, walk, CallAt(i)) = {}
      BY <1>3, <2>1, StepsAre
    <2> HIDE DEF v
    <2>5. i \in Nat
      BY <1>1
    <2> QED BY <2>2, <2>3, <2>4, <2>5, PutInMade
  <1> HIDE DEF v, made, last
  <1>4. ASSUME NEW at \in DOMAIN made
        PROVE  PutIn(made[at], StepsAt(locs, walk, at), null) = ReplacedIn(made[at], null)
    <2>1. PICK i \in 1 .. last : at \in {ListAt(i), DictAt(i), CallAt(i)}
      BY <1>1, <1>2, Positions
    <2> QED BY <1>2, <1>3, <2>1
  <1>5. /\ Tree(made, root).heap = made /\ Tree(made, root).root = root
    BY DEF Tree
  <1>6. Put(Tree(made, root), walk, locs, null)
          = Tree([at \in DOMAIN made |-> PutIn(made[at], StepsAt(locs, walk, at), null)], root)
    BY <1>5 DEF Put, StepsAt
  <1>7. [at \in DOMAIN made |-> PutIn(made[at], StepsAt(locs, walk, at), null)]
          = [at \in DOMAIN made |-> ReplacedIn(made[at], null)]
    BY <1>4
  <1> QED BY <1>6, <1>7 DEF ReplacedAll, made

-----------------------------------------------------------------------------
(* What scrub() makes is a heap again.                                     *)

LEMMA LaterValue ==
    ASSUME NEW h, NEW i \in Nat, NEW j \in Nat, i <= j, NEW u, IsValue(u, h, i)
    PROVE  IsValue(u, h, j)
  <1>1. \A at \in 1 .. i - 1 : at \in 1 .. j - 1
    OBVIOUS
  <1> QED BY <1>1 DEF IsValue

LEMMA Values ==
    ASSUME NEW h, NEW i \in Nat
    PROVE  /\ IsValue(Nothing, h, i) /\ IsValue(Null, h, i)
           /\ \A a : IsValue(Atom(a), h, i)
           /\ \A kind \in Kinds, at \in 1 .. i - 1 :
                h[at].kind = kind => IsValue(Ref(kind, at), h, i)
  <1>1. IsValue(Nothing, h, i) /\ IsValue(Null, h, i) /\ \A a : IsValue(Atom(a), h, i)
    BY DEF IsValue, Atom, Value
  <1>3. ASSUME NEW kind \in Kinds, NEW at \in 1 .. i - 1, h[at].kind = kind
        PROVE  IsValue(Ref(kind, at), h, i)
    <2>1. Ref(kind, at).kind = kind /\ Ref(kind, at).at = at
      BY DEF Ref, Value
    <2> QED BY <1>3, <2>1 DEF IsValue, IsRef
  <1> QED BY <1>1, <1>3

\* What the parts of object i are scrubbed to is before its containers, and
\* the object itself is in one of them.
LEMMA ObjectValues ==
    ASSUME NEW heap, IsHeap(heap), NEW i \in 1 .. Len(heap), NEW x, x = heap[i],
           NEW v, NEW made, NEW o,
           \A j \in 1 .. i - 1 : IsValue(v[j], made, ListAt(j + 1)),
           made[ListAt(i)] = MadeList(o, v, x),
           made[DictAt(i)].kind = "dict", made[CallAt(i)].kind = "dict"
    PROVE  /\ \A n \in DOMAIN Listed(v, x) :
                Listed(v, x)[n] # Nothing /\ IsValue(Listed(v, x)[n], made, ListAt(i))
           /\ \A k \in DOMAIN Named(v, x) :
                Named(v, x)[k] # Nothing /\ IsValue(Named(v, x)[k], made, ListAt(i))
           /\ IsValue(ScrubbedList(v, x, i), made, DictAt(i))
           /\ IsValue(ScrubbedObject(o, v, x, i), made, ListAt(i + 1))
  <1>1. /\ Len(heap) \in Nat /\ DOMAIN heap = 1 .. Len(heap) /\ i \in Nat /\ i \in DOMAIN heap
        /\ IsSequence(x.elems)
    BY HeapIs
  <1>2. /\ ListAt(i) \in Nat /\ DictAt(i) \in Nat /\ CallAt(i) \in Nat /\ ListAt(i + 1) \in Nat
        /\ ListAt(i) \in 1 .. DictAt(i) - 1 /\ ListAt(i) <= DictAt(i)
        /\ ListAt(i) \in 1 .. ListAt(i + 1) - 1 /\ DictAt(i) \in 1 .. ListAt(i + 1) - 1
        /\ CallAt(i) \in 1 .. ListAt(i + 1) - 1 /\ DictAt(i) <= ListAt(i + 1)
    BY <1>1 DEF ListAt, DictAt, CallAt
  <1>3. ASSUME NEW u, IsValue(u, heap, i) PROVE IsValue(Scrubbed(v, u), made, ListAt(i))
    <2>1. CASE IsRef(u)
      <3>1. u.at \in 1 .. i - 1
        BY <1>3, <2>1 DEF IsValue, IsRef, Kinds, Null, Nothing, Atom, Value
      <3>2. PICK j \in 1 .. i - 1 : j = u.at
        BY <3>1
      <3>3. IsValue(v[j], made, ListAt(j + 1))
        OBVIOUS
      <3>4. ListAt(j + 1) \in Nat /\ ListAt(j + 1) <= ListAt(i)
        BY <1>1 DEF ListAt
      <3>5. IsValue(v[j], made, ListAt(i))
        BY <1>2, <3>3, <3>4, LaterValue
      <3> QED BY <2>1, <3>2, <3>5 DEF Scrubbed
    <2>2. CASE ~IsRef(u)
      <3>1. u = Atom(u.atom) \/ u = Null \/ u = Nothing
        BY <1>3, <2>2 DEF IsValue
      <3>2. IsValue(u, made, ListAt(i))
        BY <1>2, <3>1, Values
      <3> QED BY <2>2, <3>2 DEF Scrubbed
    <2> QED BY <2>1, <2>2
  <1>4. \A k \in DOMAIN x.elems : IsValue(Scrubbed(v, x.elems[k]), made, ListAt(i))
    BY <1>1, <1>3 DEF IsHeap
  <1>5. \A k \in DOMAIN x.fields : IsValue(Scrubbed(v, x.fields[k]), made, ListAt(i))
    BY <1>1, <1>3 DEF IsHeap
  <1> DEFINE s == Listed(v, x)
  <1>6. s \in Seq({Scrubbed(v, x.elems[k]) : k \in Kept(v, x)})
    BY <1>1, ListedIs
  <1>7. \A n \in DOMAIN s : s[n] # Nothing /\ IsValue(s[n], made, ListAt(i))
    <2>1. \A n \in DOMAIN s : \E k \in Kept(v, x) : s[n] = Scrubbed(v, x.elems[k])
      <3> HIDE DEF s
      <3> QED BY <1>6
    <2>2. \A k \in Kept(v, x) : k \in DOMAIN x.elems /\ Scrubbed(v, x.elems[k]) # Nothing
      BY DEF Kept
    <2> HIDE DEF s
    <2> QED BY <1>4, <2>1, <2>2
  <1>8. \A k \in DOMAIN Named(v, x) :
          Named(v, x)[k] # Nothing /\ IsValue(Named(v, x)[k], made, ListAt(i))
    BY <1>5 DEF Named
  <1>9. IsValue(ScrubbedList(v, x, i), made, DictAt(i))
    <2>1. Len(s) \in Nat /\ DOMAIN s = 1 .. Len(s)
      BY <1>6
    <2>2. ScrubbedList(v, x, i) = IF Len(s) = 0 THEN Nothing ELSE IF Len(s) = 1 THEN s[1]
                                  ELSE Ref("list", ListAt(i))
      BY DEF ScrubbedList
    <2>3. Len(s) > 1 => made[ListAt(i)].kind = "list"
      BY DEF MadeList, List, Object
    <2> HIDE DEF s
    <2>4. CASE Len(s) = 0
      BY <1>2, <2>2, <2>4, Values
    <2>5. CASE Len(s) = 1
      <3>1. IsValue(s[1], made, ListAt(i))
        BY <1>7, <2>1, <2>5
      <3>2. IsValue(s[1], made, DictAt(i))
        BY <1>2, <3>1, LaterValue
      <3> QED BY <2>2, <2>5, <3>2
    <2>6. CASE Len(s) > 1
      <3>1. made[ListAt(i)].kind = "list" /\ "list" \in Kinds
        BY <2>3, <2>6 DEF Kinds
      <3>2. IsValue(Ref("list", ListAt(i)), made, DictAt(i))
        BY <1>2, <3>1, Values
      <3> QED BY ONLY <2>1, <2>2, <2>6, <3>2
    <2> QED BY <2>1, <2>4, <2>5, <2>6
  <1>10. IsValue(ScrubbedObject(o, v, x, i), made, ListAt(i + 1))
    <2>1. ScrubbedObject(o, v, x, i) \in
            {Ref("dict", DictAt(i)), Ref("dict", CallAt(i)), ScrubbedList(v, x, i)}
      <3>1. CASE x.kind = "call"
        BY <3>1 DEF ScrubbedObject
      <3>2. CASE x.kind = "dict"
        BY <3>2 DEF ScrubbedObject
      <3>3. CASE x.kind \notin {"call", "dict"}
        BY <3>3 DEF ScrubbedObject
      <3> QED BY <3>1, <3>2, <3>3
    <2>2. "dict" \in Kinds
      BY DEF Kinds
    <2>3. IsValue(Ref("dict", DictAt(i)), made, ListAt(i + 1))
      BY <1>2, <2>2, Values
    <2>4. IsValue(Ref("dict", CallAt(i)), made, ListAt(i + 1))
      BY <1>2, <2>2, Values
    <2>5. IsValue(ScrubbedList(v, x, i), made, ListAt(i + 1))
      BY <1>2, <1>9, LaterValue
    <2> QED BY <2>1, <2>3, <2>4, <2>5
  <1> QED BY <1>7, <1>8, <1>9, <1>10

\* What each object of a heap is.
Holds(x, h, at) ==
    /\ IsObject(x)
    /\ \A n \in DOMAIN x.elems : IsValue(x.elems[n], h, at)
    /\ \A k \in DOMAIN x.fields : IsValue(x.fields[k], h, at)

LEMMA ListHolds ==
    ASSUME NEW s, IsSequence(s), NEW h, NEW at, \A n \in DOMAIN s : IsValue(s[n], h, at)
    PROVE  Holds(List(s), h, at)
  <1>1. /\ List(s).kind = "list" /\ List(s).elems = s /\ List(s).fields = NoFields
        /\ DOMAIN NoFields = {}
    BY DEF List, Object, NoFields
  <1>2. IsObject(List(s))
    BY <1>1 DEF IsObject, Kinds
  <1> QED BY <1>1, <1>2 DEF Holds

LEMMA DictHolds ==
    ASSUME NEW f, NEW h, NEW at, \A k \in DOMAIN f : IsValue(f[k], h, at)
    PROVE  Holds(Dict(f), h, at)
  <1>1. /\ Dict(f).kind = "dict" /\ Dict(f).elems = <<>> /\ Dict(f).fields = f
    BY DEF Dict, Object
  <1>2. IsSequence(<<>>) /\ DOMAIN <<>> = {}
    BY DEF IsSequence
  <1>3. IsObject(Dict(f))
    BY <1>1, <1>2 DEF IsObject, Kinds
  <1> QED BY <1>1, <1>2, <1>3 DEF Holds

LEMMA ValuesMade ==
    ASSUME NEW heap, IsHeap(heap), NEW o, NEW v, v = ScrubbedAll(o, heap),
           NEW made, made = MadeHeap(o, heap)
    PROVE  \A i \in 1 .. Len(heap) :
             /\ \A n \in DOMAIN Listed(v, heap[i]) :
                  /\ Listed(v, heap[i])[n] # Nothing
                  /\ IsValue(Listed(v, heap[i])[n], made, ListAt(i))
             /\ \A k \in DOMAIN Named(v, heap[i]) :
                  /\ Named(v, heap[i])[k] # Nothing
                  /\ IsValue(Named(v, heap[i])[k], made, ListAt(i))
             /\ IsValue(ScrubbedList(v, heap[i], i), made, DictAt(i))
             /\ IsValue(v[i], made, ListAt(i + 1))
  <1> DEFINE last == Len(heap)
             Are(i, x) ==
                /\ \A n \in DOMAIN Listed(v, x) :
                     Listed(v, x)[n] # Nothing /\ IsValue(Listed(v, x)[n], made, ListAt(i))
                /\ \A k \in DOMAIN Named(v, x) :
                     Named(v, x)[k] # Nothing /\ IsValue(Named(v, x)[k], made, ListAt(i))
                /\ IsValue(ScrubbedList(v, x, i), made, DictAt(i))
             T == {i \in 1 .. last : Are(i, heap[i]) /\ IsValue(v[i], made, ListAt(i + 1))}
  <1>1. last \in Nat /\ DOMAIN heap = 1 .. last
    BY HeapIs
  <1>2. \A i \in 1 .. last : v[i] = ScrubbedObject(o, v, heap[i], i)
    <2>1. v = [i \in DOMAIN heap |-> ScrubbedObject(o, v, heap[i], i)]
      BY ScrubbedAllIs
    <2> QED BY <1>1, <2>1
  <1>3. \A i \in 1 .. last :
          /\ made[ListAt(i)] = MadeList(o, v, heap[i])
          /\ made[DictAt(i)].kind = "dict" /\ made[CallAt(i)].kind = "dict"
    <2>1. \A i \in 1 .. last :
            /\ made[ListAt(i)] = MadeList(o, v, heap[i])
            /\ made[DictAt(i)] = MadeDict(o, v, heap[i], i)
            /\ made[CallAt(i)] = MadeCall(o, v, heap[i], i)
      BY <1>1, MadeHeapIs
    <2>2. \A x, i : MadeDict(o, v, x, i).kind = "dict" /\ MadeCall(o, v, x, i).kind = "dict"
      BY DEF MadeDict, MadeCall, Dict, Empty, Object
    <2> QED BY <2>1, <2>2
  <1>4. ASSUME NEW i \in 1 .. last, \A j \in 1 .. i - 1 : j \in T PROVE i \in T
    <2>1. \A j \in 1 .. i - 1 : IsValue(v[j], made, ListAt(j + 1))
      BY <1>4
    <2>2. Are(i, heap[i]) /\ IsValue(ScrubbedObject(o, v, heap[i], i), made, ListAt(i + 1))
      BY ONLY IsHeap(heap), i \in 1 .. Len(heap), <1>3, <2>1, ObjectValues
    <2> HIDE DEF Are
    <2> QED BY <1>2, <2>2
  <1>5. \A i \in 1 .. last : i \in T
    <2> HIDE DEF T
    <2> QED BY <1>1, <1>4, BelowInduction
  <1> QED BY <1>5

LEMMA WithValues ==
    ASSUME NEW h, NEW at, NEW f, \A j \in DOMAIN f : IsValue(f[j], h, at),
           NEW k, NEW u, IsValue(u, h, at)
    PROVE  \A j \in DOMAIN With(f, k, u) : IsValue(With(f, k, u)[j], h, at)
  BY DEF With

\* A tree that scrub() has made is not changed by another one.
Tidy(x) ==
    /\ x.kind \in {"list", "dict"} /\ x.op = none
    /\ x.kind = "list" => Len(x.elems) > 1
    /\ \A n \in DOMAIN x.elems : x.elems[n] # Nothing
    /\ \A k \in DOMAIN x.fields : x.fields[k] # Nothing

LEMMA TidyDict ==
    ASSUME NEW f, \A k \in DOMAIN f : f[k] # Nothing
    PROVE  Tidy(Dict(f))
  <1>1. /\ Dict(f).kind = "dict" /\ Dict(f).elems = <<>> /\ Dict(f).fields = f
        /\ Dict(f).op = none /\ DOMAIN <<>> = {}
    BY DEF Dict, Object
  <1> QED BY <1>1 DEF Tidy

LEMMA TidyList ==
    ASSUME NEW s, Len(s) > 1, \A n \in DOMAIN s : s[n] # Nothing
    PROVE  Tidy(List(s))
  <1>1. /\ List(s).kind = "list" /\ List(s).elems = s /\ List(s).fields = NoFields
        /\ List(s).op = none /\ DOMAIN NoFields = {}
    BY DEF List, Object, NoFields
  <1> QED BY <1>1 DEF Tidy

LEMMA MadeHolds ==
    ASSUME NEW o, o.calls \in {"simple_op", "normal_op"}, NEW v, NEW x, NEW i \in Nat \ {0},
           NEW made, IsSequence(Listed(v, x)),
           \A n \in DOMAIN Listed(v, x) :
             Listed(v, x)[n] # Nothing /\ IsValue(Listed(v, x)[n], made, ListAt(i)),
           \A k \in DOMAIN Named(v, x) :
             Named(v, x)[k] # Nothing /\ IsValue(Named(v, x)[k], made, ListAt(i)),
           IsValue(ScrubbedList(v, x, i), made, DictAt(i)),
           made[ListAt(i)] = MadeList(o, v, x), made[DictAt(i)].kind = "dict"
    PROVE  /\ Holds(MadeList(o, v, x), made, ListAt(i))
           /\ Holds(MadeDict(o, v, x, i), made, DictAt(i))
           /\ Holds(MadeCall(o, v, x, i), made, CallAt(i))
           /\ o.calls = "simple_op" =>
                Tidy(MadeList(o, v, x)) /\ Tidy(MadeDict(o, v, x, i)) /\ Tidy(MadeCall(o, v, x, i))
  <1> DEFINE s == Listed(v, x)
             f == Named(v, x)
             args == ScrubbedList(v, x, i)
             op == Renamed(o, x.op)
             u == IF args = Nothing THEN Ref("dict", ListAt(i)) ELSE args
             l == ListAt(i)
             d == DictAt(i)
             c == CallAt(i)
             listed == \/ Len(s) > 1
                       \/ Len(s) = 1 /\ x.kind = "call" /\ o.calls = "normal_op"
  <1>1. /\ l \in Nat /\ d \in Nat /\ c \in Nat /\ l <= d /\ d <= c /\ l <= c
        /\ l \in 1 .. d - 1 /\ l \in 1 .. c - 1 /\ d \in 1 .. c - 1
    BY DEF ListAt, DictAt, CallAt
  <1>2. DOMAIN s = 1 .. Len(s) /\ Len(s) \in Nat
    BY DEF IsSequence
  <1>3. MadeList(o, v, x) = IF listed THEN List(s) ELSE Empty
    BY DEF MadeList
  <1>4. args = IF Len(s) = 0 THEN Nothing ELSE IF Len(s) = 1 THEN s[1] ELSE Ref("list", l)
    BY DEF ScrubbedList
  <1>5. \A at : Holds(Empty, made, at) /\ Tidy(Empty)
    <2>1. DOMAIN NoFields = {}
      BY DEF NoFields
    <2> QED BY <2>1, DictHolds, TidyDict DEF Empty
  <1>6. /\ MadeList(o, v, x).kind = IF listed THEN "list" ELSE "dict"
        /\ made[l].kind = MadeList(o, v, x).kind
    BY <1>3 DEF List, Empty, Dict, Object
  <1>7. args = Nothing => Len(s) = 0
    BY <1>2, <1>4 DEF Ref, Value, Nothing
  <1>8. /\ x.kind = "call" /\ o.calls = "simple_op" =>
             MadeDict(o, v, x, i) = Dict(With(f, op, u)) /\ MadeCall(o, v, x, i) = Empty
        /\ x.kind = "call" /\ o.calls = "normal_op" =>
             MadeDict(o, v, x, i) = Dict(f) /\ MadeCall(o, v, x, i) = Dict(normal_op(op, args, f, i))
        /\ x.kind # "call" =>
             MadeDict(o, v, x, i) = Dict(f) /\ MadeCall(o, v, x, i) = Empty
    BY DEF MadeDict, MadeCall, simple_op
  <1>9. "dict" \in Kinds /\ "list" \in Kinds
    BY DEF Kinds
  <1>10. u # Nothing
    BY DEF Ref, Value, Nothing
  <1> HIDE DEF s, f, args, op, u, l, d, c, listed
  <1>11. \A n \in DOMAIN s : s[n] # Nothing /\ IsValue(s[n], made, l)
    BY DEF s, l
  <1>12. \A k \in DOMAIN f : f[k] # Nothing /\ IsValue(f[k], made, d)
    <2> TAKE k \in DOMAIN f
    <2>1. f[k] # Nothing /\ IsValue(f[k], made, l)
      BY DEF f, l
    <2>2. IsValue(f[k], made, d)
      BY <1>1, <2>1, LaterValue
    <2> QED BY <2>1, <2>2
  <1>13. Holds(MadeList(o, v, x), made, l)
    <2>1. IsSequence(s)
      BY DEF s
    <2>2. Holds(List(s), made, l)
      BY <1>11, <2>1, ListHolds
    <2> QED BY <1>3, <1>5, <2>2
  <1>14. o.calls = "simple_op" => Tidy(MadeList(o, v, x))
    <2>1. CASE Len(s) > 1
      BY <1>3, <1>11, <2>1, TidyList DEF listed
    <2>2. CASE ~(Len(s) > 1)
      BY <1>3, <1>5, <2>2 DEF listed
    <2> QED BY <2>1, <2>2
  <1>15. Holds(Dict(f), made, d) /\ Tidy(Dict(f))
    BY <1>12, DictHolds, TidyDict
  <1>16. CASE x.kind = "call" /\ o.calls = "simple_op"
    <2>1. IsValue(u, made, d)
      <3>1. CASE args = Nothing
        <4>1. made[l].kind = "dict"
          BY <1>2, <1>6, <1>7, <3>1 DEF listed
        <4>2. IsValue(Ref("dict", l), made, d)
          BY <1>1, <1>9, <4>1, Values
        <4> QED BY <3>1, <4>2 DEF u, l
      <3>2. CASE args # Nothing
        BY <3>2 DEF u, args, d
      <3> QED BY <3>1, <3>2
    <2>2. \A k \in DOMAIN With(f, op, u) : IsValue(With(f, op, u)[k], made, d)
      BY <1>12, <2>1, WithValues
    <2>3. \A k \in DOMAIN With(f, op, u) : With(f, op, u)[k] # Nothing
      BY <1>10, <1>12 DEF With
    <2>4. Holds(Dict(With(f, op, u)), made, d) /\ Tidy(Dict(With(f, op, u)))
      BY <2>2, <2>3, DictHolds, TidyDict
    <2> QED BY <1>5, <1>8, <1>13, <1>14, <1>16, <2>4 DEF l, d, c
  <1>17. CASE x.kind = "call" /\ o.calls = "normal_op"
    <2> DEFINE named == With(NoFields, "op", Atom(op))
               called == With(named, "args", Listwrap(args, i))
               n == normal_op(op, args, f, i)
    <2>1. IsValue(Atom(op), made, c) /\ IsValue(Ref("dict", d), made, c)
      BY <1>1, <1>9, Values DEF d
    <2>2. args # Nothing => IsValue(Listwrap(args, i), made, c)
      <3>1. CASE args.kind = "list"
        <4>1. Listwrap(args, i) = args
          BY <3>1 DEF Listwrap
        <4>2. IsValue(args, made, d)
          BY DEF args, d
        <4> QED BY <1>1, <4>1, <4>2, LaterValue
      <3>2. CASE args.kind # "list" /\ args # Nothing
        <4>1. Listwrap(args, i) = Ref("list", l)
          BY <3>2 DEF Listwrap, l
        <4>2. Len(s) = 1
          BY <1>2, <1>4, <3>2 DEF Ref, Value
        <4>3. made[l].kind = "list"
          BY <1>6, <1>17, <4>2 DEF listed
        <4>4. IsValue(Ref("list", l), made, c)
          BY <1>1, <1>9, <4>3, Values
        <4> QED BY <4>1, <4>4
      <3> QED BY <3>1, <3>2
    <2>3. \A k \in DOMAIN NoFields : IsValue(NoFields[k], made, c)
      BY DEF NoFields
    <2>4. \A k \in DOMAIN named : IsValue(named[k], made, c)
      BY <2>1, <2>3, WithValues
    <2> HIDE DEF named
    <2>5. args # Nothing => \A k \in DOMAIN called : IsValue(called[k], made, c)
      BY <2>2, <2>4, WithValues
    <2> DEFINE first == IF args = Nothing THEN named ELSE called
    <2>6. \A k \in DOMAIN first : IsValue(first[k], made, c)
      BY <2>4, <2>5
    <2>7. n = IF f = NoFields THEN first ELSE With(first, "kwargs", Ref("dict", d))
      BY DEF normal_op, named, d
    <2> HIDE DEF first, n, called
    <2>8. \A k \in DOMAIN With(first, "kwargs", Ref("dict", d)) :
            IsValue(With(first, "kwargs", Ref("dict", d))[k], made, c)
      BY <2>1, <2>6, WithValues
    <2>9. \A k \in DOMAIN n : IsValue(n[k], made, c)
      BY <2>6, <2>7, <2>8
    <2>10. Holds(Dict(n), made, c)
      BY <2>9, DictHolds
    <2> QED BY <1>8, <1>13, <1>15, <1>17, <2>10 DEF l, d, c, n
  <1>18. CASE x.kind # "call"
    BY <1>5, <1>8, <1>13, <1>14, <1>15, <1>18 DEF l, d, c
  <1> QED BY <1>16, <1>17, <1>18

LEMMA MadeIsHeap ==
    ASSUME NEW o, o.calls \in {"simple_op", "normal_op"}, NEW heap, IsHeap(heap)
    PROVE  /\ IsHeap(MadeHeap(o, heap))
           /\ o.calls = "simple_op" =>
                \A at \in DOMAIN MadeHeap(o, heap) : Tidy(MadeHeap(o, heap)[at])
           /\ \A root : IsValue(root, heap, Len(heap) + 1) =>
                IsValue(Scrubbed(ScrubbedAll(o, heap), root), MadeHeap(o, heap),
                        Len(MadeHeap(o, heap)) + 1)
  <1> DEFINE made == MadeHeap(o, heap)
             last == Len(heap)
             v == ScrubbedAll(o, heap)
  <1>1. last \in Nat /\ DOMAIN heap = 1 .. last
    BY HeapIs
  <1>2. /\ IsSequence(made) /\ Len(made) = 3 * last /\ DOMAIN made = 1 .. 3 * last
        /\ \A i \in 1 .. last :
             /\ made[ListAt(i)] = MadeList(o, v, heap[i])
             /\ made[DictAt(i)] = MadeDict(o, v, heap[i], i)
             /\ made[CallAt(i)] = MadeCall(o, v, heap[i], i)
    BY <1>1, MadeHeapIs
  <1>3. \A i \in 1 .. last :
             /\ \A n \in DOMAIN Listed(v, heap[i]) :
                  /\ Listed(v, heap[i])[n] # Nothing
                  /\ IsValue(Listed(v, heap[i])[n], made, ListAt(i))
             /\ \A k \in DOMAIN Named(v, heap[i]) :
                  /\ Named(v, heap[i])[k] # Nothing
                  /\ IsValue(Named(v, heap[i])[k], made, ListAt(i))
             /\ IsValue(ScrubbedList(v, heap[i], i), made, DictAt(i))
             /\ IsValue(v[i], made, ListAt(i + 1))
    BY ValuesMade
  <1> HIDE DEF made, v
  <1>4. ASSUME NEW i \in 1 .. last
        PROVE  /\ Holds(made[ListAt(i)], made, ListAt(i))
               /\ Holds(made[DictAt(i)], made, DictAt(i))
               /\ Holds(made[CallAt(i)], made, CallAt(i))
               /\ o.calls = "simple_op" =>
                    Tidy(made[ListAt(i)]) /\ Tidy(made[DictAt(i)]) /\ Tidy(made[CallAt(i)])
    <2>1. IsSequence(heap[i].elems)
      BY <1>1, HeapIs
    <2>2. IsSequence(Listed(v, heap[i]))
      <3> DEFINE s == Listed(v, heap[i])
                 S == {Scrubbed(v, heap[i].elems[k]) : k \in Kept(v, heap[i])}
      <3>1. s \in Seq(S)
        BY <2>1, ListedIs
      <3> HIDE DEF s, S
      <3>2. Len(s) \in Nat /\ s = [n \in 1 .. Len(s) |-> s[n]]
        BY <3>1
      <3>3. IsSequence(s)
        BY <3>2, SequenceIs
      <3> QED BY <3>3 DEF s
    <2>3. i \in Nat \ {0}
      BY <1>1
    <2>4. \A x : MadeDict(o, v, x, i).kind = "dict"
      BY DEF MadeDict, Dict, Object
    <2>5. made[ListAt(i)] = MadeList(o, v, heap[i]) /\ made[DictAt(i)].kind = "dict"
      BY <1>2, <2>4
    <2>6. /\ Holds(MadeList(o, v, heap[i]), made, ListAt(i))
          /\ Holds(MadeDict(o, v, heap[i], i), made, DictAt(i))
          /\ Holds(MadeCall(o, v, heap[i], i), made, CallAt(i))
          /\ o.calls = "simple_op" =>
               Tidy(MadeList(o, v, heap[i])) /\ Tidy(MadeDict(o, v, heap[i], i))
                 /\ Tidy(MadeCall(o, v, heap[i], i))
      <3> DEFINE x == heap[i]
      <3>1. /\ \A n \in DOMAIN Listed(v, x) :
                 Listed(v, x)[n] # Nothing /\ IsValue(Listed(v, x)[n], made, ListAt(i))
            /\ \A k \in DOMAIN Named(v, x) :
                 Named(v, x)[k] # Nothing /\ IsValue(Named(v, x)[k], made, ListAt(i))
            /\ IsValue(ScrubbedList(v, x, i), made, DictAt(i))
        BY <1>3
      <3>2. IsSequence(Listed(v, x)) /\ made[ListAt(i)] = MadeList(o, v, x)
        BY <2>2, <2>5
      <3> HIDE DEF x
      <3>3. /\ Holds(MadeList(o, v, x), made, ListAt(i))
            /\ Holds(MadeDict(o, v, x, i), made, DictAt(i))
            /\ Holds(MadeCall(o, v, x, i), made, CallAt(i))
            /\ o.calls = "simple_op" =>
                 Tidy(MadeList(o, v, x)) /\ Tidy(MadeDict(o, v, x, i)) /\ Tidy(MadeCall(o, v, x, i))
        BY ONLY o.calls \in {"simple_op", "normal_op"}, <2>3, <2>5, <3>1, <3>2, MadeHolds
      <3> QED BY <3>3 DEF x
    <2> QED BY <1>2, <2>6
  <1>5. ASSUME NEW at \in DOMAIN made
        PROVE  Holds(made[at], made, at) /\ (o.calls = "simple_op" => Tidy(made[at]))
    <2>1. at \in 1 .. 3 * last
      BY <1>2
    <2> HIDE DEF last
    <2>2. PICK i \in 1 .. last : at \in {ListAt(i), DictAt(i), CallAt(i)}
      BY <1>1, <2>1, Positions
    <2> QED BY <1>4, <2>2
  <1>6. IsHeap(made)
    BY <1>2, <1>5 DEF IsHeap, Holds
  <1>7. ASSUME NEW root, IsValue(root, heap, last + 1)
        PROVE  IsValue(Scrubbed(v, root), made, Len(made) + 1)
    <2>1. Len(made) + 1 \in Nat /\ Len(made) + 1 = ListAt(last + 1)
      BY <1>1, <1>2 DEF ListAt
    <2>2. CASE IsRef(root)
      <3>1. root.at \in 1 .. last
        BY <1>1, <1>7, <2>2 DEF IsValue, IsRef, Kinds, Null, Nothing, Atom, Value
      <3>2. PICK i \in 1 .. last : i = root.at
        BY <3>1
      <3>3. IsValue(v[i], made, ListAt(i + 1))
        BY <1>3
      <3>4. ListAt(i + 1) \in Nat /\ ListAt(i + 1) <= ListAt(last + 1)
        BY <1>1 DEF ListAt
      <3>5. IsValue(v[i], made, Len(made) + 1)
        BY <2>1, <3>3, <3>4, LaterValue
      <3> QED BY <2>2, <3>2, <3>5 DEF Scrubbed
    <2>3. CASE ~IsRef(root)
      <3>1. root = Atom(root.atom) \/ root = Null \/ root = Nothing
        BY <1>7, <2>3 DEF IsValue
      <3>2. IsValue(root, made, Len(made) + 1)
        BY <2>1, <3>1, Values
      <3> QED BY <2>3, <3>2 DEF Scrubbed
    <2> QED BY <2>2, <2>3
  <1> QED BY <1>5, <1>6, <1>7 DEF made, v

-----------------------------------------------------------------------------
(* The atoms of a tree, and the tree without positions, are functions of    *)
(* the heap as well.                                                       *)

LEMMA PartsOfObject ==
    ASSUME NEW heap, IsHeap(heap), NEW i \in DOMAIN heap, NEW v, NEW w,
           \A j \in 1 .. i - 1 : v[j] = w[j], NEW u, IsValue(u, heap, i)
    PROVE  IsRef(u) => v[u.at] = w[u.at]
  BY DEF IsValue, IsRef, Kinds, Null, Nothing, Atom, Value

LEMMA HeapParts ==
    ASSUME NEW heap, IsHeap(heap), NEW i \in DOMAIN heap
    PROVE  /\ \A n \in DOMAIN heap[i].elems : IsValue(heap[i].elems[n], heap, i)
           /\ \A k \in DOMAIN heap[i].fields : IsValue(heap[i].fields[k], heap, i)
  BY DEF IsHeap

\* Parts of an object are before it.
LEMMA AtomsEarlier ==
    ASSUME NEW heap, IsHeap(heap), NEW i \in DOMAIN heap, NEW v, NEW w,
           \A j \in 1 .. i - 1 : v[j] = w[j]
    PROVE  AtomsOfObject(v, heap[i]) = AtomsOfObject(w, heap[i])
  <1>1. ASSUME NEW u, IsValue(u, heap, i) PROVE AtomsOf(v, u) = AtomsOf(w, u)
    BY <1>1, PartsOfObject DEF AtomsOf
  <1>2. /\ \A n \in DOMAIN heap[i].elems : AtomsOf(v, heap[i].elems[n]) = AtomsOf(w, heap[i].elems[n])
        /\ \A k \in DOMAIN heap[i].fields : AtomsOf(v, heap[i].fields[k]) = AtomsOf(w, heap[i].fields[k])
    BY <1>1, HeapParts
  <1> QED BY <1>2 DEF AtomsOfObject

\* The atoms of every object are those of its parts.
LEMMA AtomsAllIs ==
    ASSUME NEW heap, IsHeap(heap)
    PROVE  AtomsAll(heap) = [i \in DOMAIN heap |-> AtomsOfObject(AtomsAll(heap), heap[i])]
  <1> DEFINE last == Len(heap)
             Is(f, n) == /\ f = [i \in 1 .. n |-> f[i]]
                         /\ \A i \in 1 .. n : f[i] = AtomsOfObject(f, heap[i])
             T == {n \in 0 .. last : \E f : Is(f, n)}
  <1>1. last \in Nat /\ DOMAIN heap = 1 .. last
    BY HeapIs
  <1> HIDE DEF last
  <1>2. 0 \in T
    <2>1. Is([i \in 1 .. 0 |-> i], 0)
      OBVIOUS
    <2> HIDE DEF Is
    <2> QED BY <1>1, <2>1
  <1>3. ASSUME NEW n \in 0 .. last, n \in T, n < last PROVE n + 1 \in T
    <2>1. PICK f : Is(f, n)
      BY <1>3
    <2>2. PICK m : m = n + 1
      OBVIOUS
    <2> DEFINE g == [i \in 1 .. m |-> IF i = m THEN AtomsOfObject(f, heap[m]) ELSE f[i]]
    <2>3. m \in 1 .. last /\ \A i \in 1 .. m : i # m => i \in 1 .. n
      BY <1>1, <1>3, <2>2
    <2>4. \A i \in 1 .. n : g[i] = f[i]
      BY <1>1, <2>2
    <2>5. ASSUME NEW i \in 1 .. m PROVE g[i] = AtomsOfObject(g, heap[i])
      <3>1. \A j \in 1 .. i - 1 : f[j] = g[j]
        <4>1. \A j \in 1 .. i - 1 : j \in 1 .. n
          BY <1>1, <2>2
        <4> HIDE DEF g
        <4> QED BY <2>4, <4>1
      <3>2. g[i] = AtomsOfObject(f, heap[i])
        <4>1. CASE i = m
          BY <4>1
        <4>2. CASE i # m
          BY <2>1, <2>3, <4>2
        <4> QED BY <4>1, <4>2
      <3>3. i \in DOMAIN heap
        BY <1>1, <2>3
      <3> HIDE DEF g
      <3>4. AtomsOfObject(f, heap[i]) = AtomsOfObject(g, heap[i])
        BY <3>1, <3>3, AtomsEarlier
      <3> QED BY <3>2, <3>4
    <2>6. Is(g, m)
      <3>1. g = [i \in 1 .. m |-> g[i]]
        OBVIOUS
      <3> HIDE DEF g
      <3> QED BY <2>5, <3>1
    <2> HIDE DEF Is, g
    <2> QED BY <1>1, <2>2, <2>3, <2>6
  <1>4. last \in T
    <2> HIDE DEF T
    <2>1. 0 .. last \subseteq T
      BY <1>1, <1>2, <1>3, UpToInduction
    <2> QED BY <1>1, <2>1
  <1>5. \E f : f = [i \in DOMAIN heap |-> AtomsOfObject(f, heap[i])]
    <2>1. PICK f : Is(f, last)
      BY <1>4
    <2>2. f = [i \in DOMAIN heap |-> f[i]]
      BY <1>1, <2>1
    <2> QED BY <1>1, <2>1, <2>2
  <1> DEFINE all == CHOOSE f : f = [i \in DOMAIN heap |-> AtomsOfObject(f, heap[i])]
  <1>6. all = [i \in DOMAIN heap |-> AtomsOfObject(all, heap[i])]
    BY <1>5
  <1>7. AtomsAll(heap) = all
    BY DEF AtomsAll
  <1> QED BY <1>6, <1>7

\* Parts of an object are before it.
LEMMA BareEarlier ==
    ASSUME NEW heap, IsHeap(heap), NEW i \in DOMAIN heap, NEW v, NEW w,
           \A j \in 1 .. i - 1 : v[j] = w[j]
    PROVE  BareObject(v, heap[i]) = BareObject(w, heap[i])
  <1>1. ASSUME NEW u, IsValue(u, heap, i) PROVE BareValue(v, u) = BareValue(w, u)
    BY <1>1, PartsOfObject DEF BareValue
  <1>2. /\ \A n \in DOMAIN heap[i].elems : BareValue(v, heap[i].elems[n]) = BareValue(w, heap[i].elems[n])
        /\ \A k \in DOMAIN heap[i].fields : BareValue(v, heap[i].fields[k]) = BareValue(w, heap[i].fields[k])
    BY <1>1, HeapParts
  <1>3. /\ [n \in DOMAIN heap[i].elems |-> BareValue(v, heap[i].elems[n])]
             = [n \in DOMAIN heap[i].elems |-> BareValue(w, heap[i].elems[n])]
        /\ [k \in DOMAIN heap[i].fields |-> BareValue(v, heap[i].fields[k])]
             = [k \in DOMAIN heap[i].fields |-> BareValue(w, heap[i].fields[k])]
    BY <1>2
  <1> QED BY <1>3 DEF BareObject

\* An object without positions has its parts without.
LEMMA BareAllIs ==
    ASSUME NEW heap, IsHeap(heap)
    PROVE  BareAll(heap) = [i \in DOMAIN heap |-> BareObject(BareAll(heap), heap[i])]
  <1> DEFINE last == Len(heap)
             Is(f, n) == /\ f = [i \in 1 .. n |-> f[i]]
                         /\ \A i \in 1 .. n : f[i] = BareObject(f, heap[i])
             T == {n \in 0 .. last : \E f : Is(f, n)}
  <1>1. last \in Nat /\ DOMAIN heap = 1 .. last
    BY HeapIs
  <1> HIDE DEF last
  <1>2. 0 \in T
    <2>1. Is([i \in 1 .. 0 |-> i], 0)
      OBVIOUS
    <2> HIDE DEF Is
    <2> QED BY <1>1, <2>1
  <1>3. ASSUME NEW n \in 0 .. last, n \in T, n < last PROVE n + 1 \in T
    <2>1. PICK f : Is(f, n)
      BY <1>3
    <2>2. PICK m : m = n + 1
      OBVIOUS
    <2> DEFINE g == [i \in 1 .. m |-> IF i = m THEN BareObject(f, heap[m]) ELSE f[i]]
    <2>3. m \in 1 .. last /\ \A i \in 1 .. m : i # m => i \in 1 .. n
      BY <1>1, <1>3, <2>2
    <2>4. \A i \in 1 .. n : g[i] = f[i]
      BY <1>1, <2>2
    <2>5. ASSUME NEW i \in 1 .. m PROVE g[i] = BareObject(g, heap[i])
      <3>1. \A j \in 1 .. i - 1 : f[j] = g[j]
        <4>1. \A j \in 1 .. i - 1 : j \in 1 .. n
          BY <1>1, <2>2
        <4> HIDE DEF g
        <4> QED BY <2>4, <4>1
      <3>2. g[i] = BareObject(f, heap[i])
        <4>1. CASE i = m
          BY <4>1
        <4>2. CASE i # m
          BY <2>1, <2>3, <4>2
        <4> QED BY <4>1, <4>2
      <3>3. i \in DOMAIN heap
        BY <1>1, <2>3
      <3> HIDE DEF g
      <3>4. BareObject(f, heap[i]) = BareObject(g, heap[i])
        BY <3>1, <3>3, BareEarlier
      <3> QED BY <3>2, <3>4
    <2>6. Is(g, m)
      <3>1. g = [i \in 1 .. m |-> g[i]]
        OBVIOUS
      <3> HIDE DEF g
      <3> QED BY <2>5, <3>1
    <2> HIDE DEF Is, g
    <2> QED BY <1>1, <2>2, <2>3, <2>6
  <1>4. last \in T
    <2> HIDE DEF T
    <2>1. 0 .. last \subseteq T
      BY <1>1, <1>2, <1>3, UpToInduction
    <2> QED BY <1>1, <2>1
  <1>5. \E f : f = [i \in DOMAIN heap |-> BareObject(f, heap[i])]
    <2>1. PICK f : Is(f, last)
      BY <1>4
    <2>2. f = [i \in DOMAIN heap |-> f[i]]
      BY <1>1, <2>1
    <2> QED BY <1>1, <2>1, <2>2
  <1> DEFINE all == CHOOSE f : f = [i \in DOMAIN heap |-> BareObject(f, heap[i])]
  <1>6. all = [i \in DOMAIN heap |-> BareObject(all, heap[i])]
    BY <1>5
  <1>7. BareAll(heap) = all
    BY DEF BareAll
  <1> QED BY <1>6, <1>7

-----------------------------------------------------------------------------
(* scrub() loses no atom.                                                  *)

LEMMA AtomsOfList ==
    ASSUME NEW B, NEW s
    PROVE  /\ \A n \in DOMAIN s : AtomsOf(B, s[n]) \subseteq AtomsOfObject(B, List(s))
  <1>1. List(s).elems = s
    BY DEF List, Object
  <1> QED BY <1>1 DEF AtomsOfObject

LEMMA AtomsOfDict ==
    ASSUME NEW B, NEW f
    PROVE  /\ \A k \in DOMAIN f : AtomsOf(B, f[k]) \subseteq AtomsOfObject(B, Dict(f))
           /\ \A a \in AtomsOfObject(B, Dict(f)) : \E k \in DOMAIN f : a \in AtomsOf(B, f[k])
  <1>1. Dict(f).fields = f /\ Dict(f).elems = <<>> /\ DOMAIN <<>> = {}
    BY DEF Dict, Object
  <1> QED BY <1>1 DEF AtomsOfObject

\* The atoms of a field that is there, and of those that were before.
LEMMA AtomsOfWith ==
    ASSUME NEW B, NEW f, NEW k, NEW u
    PROVE  /\ AtomsOf(B, u) \subseteq AtomsOfObject(B, Dict(With(f, k, u)))
           /\ k \notin DOMAIN f =>
                AtomsOfObject(B, Dict(f)) \subseteq AtomsOfObject(B, Dict(With(f, k, u)))
  <1>1. k \in DOMAIN With(f, k, u) /\ With(f, k, u)[k] = u
    BY DEF With
  <1>2. \A j \in DOMAIN f : j # k => j \in DOMAIN With(f, k, u) /\ With(f, k, u)[j] = f[j]
    BY DEF With
  <1> DEFINE g == With(f, k, u)
  <1> HIDE DEF g
  <1>3. \A j \in DOMAIN g : AtomsOf(B, g[j]) \subseteq AtomsOfObject(B, Dict(g))
    BY AtomsOfDict
  <1>4. \A a \in AtomsOfObject(B, Dict(f)) : \E j \in DOMAIN f : a \in AtomsOf(B, f[j])
    BY AtomsOfDict
  <1>5. AtomsOf(B, u) \subseteq AtomsOfObject(B, Dict(g))
    BY <1>1, <1>3 DEF g
  <1>6. k \notin DOMAIN f => AtomsOfObject(B, Dict(f)) \subseteq AtomsOfObject(B, Dict(g))
    BY <1>2, <1>3, <1>4 DEF g
  <1> QED BY <1>5, <1>6 DEF g

LEMMA ListAtoms ==
    ASSUME NEW x, IsSequence(x.elems), NEW A, NEW B, NEW v, NEW o, NEW i \in Nat,
           \A n \in DOMAIN x.elems : AtomsOf(A, x.elems[n]) \subseteq AtomsOf(B, Scrubbed(v, x.elems[n])),
           B[ListAt(i)] = AtomsOfObject(B, MadeList(o, v, x)),
           ~(x.kind = "group" /\ Named(v, x) # NoFields)
    PROVE  \A n \in DOMAIN x.elems : AtomsOf(A, x.elems[n]) \subseteq AtomsOf(B, ScrubbedList(v, x, i))
  <1> DEFINE s == Listed(v, x)
  <1> TAKE n \in DOMAIN x.elems
  <1> DEFINE u == Scrubbed(v, x.elems[n])
  <1>1. AtomsOf(A, x.elems[n]) \subseteq AtomsOf(B, u)
    OBVIOUS
  <1>2. CASE u = Nothing
    <2>1. AtomsOf(B, Nothing) = {}
      BY DEF AtomsOf, Nothing, Value, IsRef, Kinds
    <2> QED BY <1>1, <1>2, <2>1
  <1>3. CASE u # Nothing
    <2>1. n \in Kept(v, x)
      BY <1>3 DEF Kept
    <2>2. /\ s \in Seq({Scrubbed(v, x.elems[k]) : k \in Kept(v, x)})
          /\ \E m \in DOMAIN s : s[m] = u
      BY <2>1, ListedIs
    <2>3. DOMAIN s = 1 .. Len(s) /\ Len(s) \in Nat
      BY <2>2
    <2>4. PICK m \in DOMAIN s : s[m] = u
      BY <2>2
    <2>5. Len(s) = 1 => ScrubbedList(v, x, i) = s[1]
      BY DEF ScrubbedList
    <2>6. Len(s) > 1 => ScrubbedList(v, x, i) = Ref("list", ListAt(i)) /\ MadeList(o, v, x) = List(s)
      BY <2>3 DEF ScrubbedList, MadeList
    <2> HIDE DEF s, u
    <2>7. CASE Len(s) = 1
      <3>1. m = 1
        BY <2>3, <2>7
      <3> QED BY <1>1, <2>4, <2>5, <2>7, <3>1
    <2>8. CASE Len(s) > 1
      <3>1. AtomsOf(B, s[m]) \subseteq AtomsOfObject(B, List(s))
        BY AtomsOfList
      <3>2. AtomsOf(B, Ref("list", ListAt(i))) = B[ListAt(i)]
        BY DEF AtomsOf, Ref, Value, IsRef, Kinds
      <3> QED BY <1>1, <2>4, <2>6, <2>8, <3>1, <3>2
    <2>9. Len(s) # 0
      BY <2>3
    <2> QED BY <2>3, <2>7, <2>8, <2>9
  <1> QED BY <1>2, <1>3

LEMMA DictAtoms ==
    ASSUME NEW x, NEW A, NEW B, NEW v,
           \A k \in DOMAIN x.fields : AtomsOf(A, x.fields[k]) \subseteq AtomsOf(B, Scrubbed(v, x.fields[k]))
    PROVE  \A k \in DOMAIN x.fields : AtomsOf(A, x.fields[k]) \subseteq AtomsOfObject(B, Dict(Named(v, x)))
  <1> DEFINE f == Named(v, x)
  <1> TAKE k \in DOMAIN x.fields
  <1> DEFINE u == Scrubbed(v, x.fields[k])
  <1>1. AtomsOf(A, x.fields[k]) \subseteq AtomsOf(B, u)
    OBVIOUS
  <1>2. CASE u = Nothing
    <2>1. AtomsOf(B, Nothing) = {}
      BY DEF AtomsOf, Nothing, Value, IsRef, Kinds
    <2> QED BY <1>1, <1>2, <2>1
  <1>3. CASE u # Nothing
    <2>1. k \in DOMAIN f /\ f[k] = u
      BY <1>3 DEF Named
    <2> HIDE DEF f, u
    <2>2. AtomsOf(B, f[k]) \subseteq AtomsOfObject(B, Dict(f))
      BY <2>1, AtomsOfDict
    <2> QED BY <1>1, <2>1, <2>2 DEF f
  <1> QED BY <1>2, <1>3

LEMMA AtomsOfCall ==
    ASSUME NEW B, NEW v, NEW x, NEW o, NEW i \in Nat, NEW op, NEW kwargs,
           B[ListAt(i)] = AtomsOfObject(B, MadeList(o, v, x)),
           x.kind = "call", o.calls = "normal_op",
           IsSequence(Listed(v, x))
    PROVE  /\ AtomsOf(B, ScrubbedList(v, x, i))
                \subseteq AtomsOfObject(B, Dict(normal_op(op, ScrubbedList(v, x, i), kwargs, i)))
           /\ kwargs # NoFields =>
                AtomsOf(B, Ref("dict", DictAt(i)))
                  \subseteq AtomsOfObject(B, Dict(normal_op(op, ScrubbedList(v, x, i), kwargs, i)))
  <1> DEFINE s == Listed(v, x)
             args == ScrubbedList(v, x, i)
             named == With(NoFields, "op", Atom(op))
             called == With(named, "args", Listwrap(args, i))
             first == IF args = Nothing THEN named ELSE called
             n == normal_op(op, args, kwargs, i)
             d == Ref("dict", DictAt(i))
  <1>1. "args" \notin DOMAIN named /\ "kwargs" \notin DOMAIN first
    BY DEF With, NoFields
  <1>2. n = IF kwargs = NoFields THEN first ELSE With(first, "kwargs", d)
    BY DEF normal_op
  <1>3. AtomsOf(B, args) \subseteq AtomsOf(B, Listwrap(args, i)) \/ args = Nothing
    <2>1. CASE args.kind = "list"
      BY <2>1 DEF Listwrap
    <2>2. CASE args.kind # "list" /\ args # Nothing
      <3>1. Len(s) = 1 /\ args = s[1] /\ 1 \in DOMAIN s
        <4>1. args = IF Len(s) = 0 THEN Nothing ELSE IF Len(s) = 1 THEN s[1] ELSE Ref("list", ListAt(i))
          BY DEF ScrubbedList
        <4>2. DOMAIN s = 1 .. Len(s)
          BY DEF IsSequence
        <4> HIDE DEF s, args
        <4> QED BY <2>2, <4>1, <4>2 DEF Ref, Value
      <3>2. MadeList(o, v, x) = List(s)
        BY <3>1 DEF MadeList
      <3>3. Listwrap(args, i) = Ref("list", ListAt(i))
        BY <2>2 DEF Listwrap
      <3>4. AtomsOf(B, Ref("list", ListAt(i))) = B[ListAt(i)]
        BY DEF AtomsOf, Ref, Value, IsRef, Kinds
      <3> HIDE DEF s, args
      <3>5. AtomsOf(B, s[1]) \subseteq AtomsOfObject(B, List(s))
        BY <3>1, AtomsOfList
      <3> QED BY <3>1, <3>2, <3>3, <3>4, <3>5
    <2> QED BY <2>1, <2>2
  <1>4. AtomsOf(B, Nothing) = {}
    BY DEF AtomsOf, Nothing, Value, IsRef, Kinds
  <1> HIDE DEF args, named, n, d
  <1>5. AtomsOf(B, Listwrap(args, i)) \subseteq AtomsOfObject(B, Dict(called))
    BY AtomsOfWith
  <1> HIDE DEF called
  <1>6. AtomsOf(B, args) \subseteq AtomsOfObject(B, Dict(first))
    BY <1>3, <1>4, <1>5
  <1> HIDE DEF first
  <1>7. AtomsOf(B, args) \subseteq AtomsOfObject(B, Dict(n))
    <2>1. AtomsOfObject(B, Dict(first)) \subseteq AtomsOfObject(B, Dict(With(first, "kwargs", d)))
      BY <1>1, AtomsOfWith
    <2> QED BY <1>2, <1>6, <2>1
  <1>8. kwargs # NoFields => AtomsOf(B, d) \subseteq AtomsOfObject(B, Dict(n))
    BY <1>2, AtomsOfWith
  <1> QED BY <1>7, <1>8 DEF args, n, d

LEMMA ObjectAtoms ==
    ASSUME NEW x, IsObject(x), NEW A, NEW B, NEW v,
           NEW o, o.calls \in {"simple_op", "normal_op"}, NEW i \in Nat,
           \A n \in DOMAIN x.elems : AtomsOf(A, x.elems[n]) \subseteq AtomsOf(B, Scrubbed(v, x.elems[n])),
           \A k \in DOMAIN x.fields : AtomsOf(A, x.fields[k]) \subseteq AtomsOf(B, Scrubbed(v, x.fields[k])),
           B[ListAt(i)] = AtomsOfObject(B, MadeList(o, v, x)),
           B[DictAt(i)] = AtomsOfObject(B, MadeDict(o, v, x, i)),
           B[CallAt(i)] = AtomsOfObject(B, MadeCall(o, v, x, i)),
           x.kind = "call" => Renamed(o, x.op) \notin DOMAIN x.fields
    PROVE  AtomsOfObject(A, x) \subseteq AtomsOf(B, ScrubbedObject(o, v, x, i))
  <1> DEFINE f == Named(v, x)
             args == ScrubbedList(v, x, i)
             op == Renamed(o, x.op)
             all == AtomsOf(B, ScrubbedObject(o, v, x, i))
  <1>1. IsSequence(x.elems)
    BY DEF IsObject
  <1>2. \A a \in AtomsOfObject(A, x) :
          \/ \E n \in DOMAIN x.elems : a \in AtomsOf(A, x.elems[n])
          \/ \E k \in DOMAIN x.fields : a \in AtomsOf(A, x.fields[k])
    BY DEF AtomsOfObject
  <1>3. ~(x.kind = "group" /\ f # NoFields) =>
          \A n \in DOMAIN x.elems : AtomsOf(A, x.elems[n]) \subseteq AtomsOf(B, args)
    BY <1>1, ListAtoms
  <1>4. \A k \in DOMAIN x.fields : AtomsOf(A, x.fields[k]) \subseteq AtomsOfObject(B, Dict(f))
    BY DictAtoms
  <1>5. \A at : AtomsOf(B, Ref("dict", at)) = B[at]
    BY DEF AtomsOf, Ref, Value, IsRef, Kinds
  <1>6. AtomsOfObject(B, Dict(NoFields)) = {}
    <2>1. DOMAIN NoFields = {}
      BY DEF NoFields
    <2>2. \A a \in AtomsOfObject(B, Dict(NoFields)) : FALSE
      BY <2>1, AtomsOfDict
    <2> QED BY <2>2
  <1>7. x.kind \in Kinds
    BY DEF IsObject
  <1>8. DOMAIN f \subseteq DOMAIN x.fields
    BY DEF Named
  <1>9. CASE x.kind = "call" /\ o.calls = "simple_op"
    <2> DEFINE u == IF args = Nothing THEN Ref("dict", ListAt(i)) ELSE args
               g == With(f, op, u)
    <2>1. MadeDict(o, v, x, i) = Dict(g)
      BY <1>9 DEF MadeDict, simple_op
    <2>2. ScrubbedObject(o, v, x, i) = Ref("dict", DictAt(i))
      BY <1>9 DEF ScrubbedObject
    <2>3. all = AtomsOfObject(B, Dict(g))
      BY <1>5, <2>1, <2>2
    <2>4. AtomsOf(B, Nothing) = {}
      BY DEF AtomsOf, Nothing, Value, IsRef, Kinds
    <2>5. op \notin DOMAIN f
      BY <1>8, <1>9
    <2> HIDE DEF f, args, op, all
    <2>6. AtomsOf(B, args) \subseteq AtomsOf(B, u)
      BY <2>4
    <2> HIDE DEF u
    <2>7. AtomsOf(B, u) \subseteq AtomsOfObject(B, Dict(g)) /\ AtomsOfObject(B, Dict(f)) \subseteq AtomsOfObject(B, Dict(g))
      BY <2>5, AtomsOfWith
    <2> HIDE DEF g
    <2>8. AtomsOf(B, args) \subseteq all /\ AtomsOfObject(B, Dict(f)) \subseteq all
      BY <2>3, <2>6, <2>7
    <2>9. AtomsOfObject(A, x) \subseteq all
      BY <1>2, <1>3, <1>4, <1>9, <2>8
    <2> QED BY <2>9 DEF all
  <1>10. CASE x.kind = "call" /\ o.calls = "normal_op"
    <2> DEFINE g == normal_op(op, args, f, i)
    <2>1. MadeDict(o, v, x, i) = Dict(f) /\ MadeCall(o, v, x, i) = Dict(g)
      BY <1>10 DEF MadeDict, MadeCall
    <2>2. ScrubbedObject(o, v, x, i) = Ref("dict", CallAt(i))
      BY <1>10 DEF ScrubbedObject
    <2>3. all = AtomsOfObject(B, Dict(g)) /\ AtomsOf(B, Ref("dict", DictAt(i))) = AtomsOfObject(B, Dict(f))
      BY <1>5, <2>1, <2>2
    <2>4. IsSequence(Listed(v, x))
      <3> DEFINE s == Listed(v, x)
                 S == {Scrubbed(v, x.elems[k]) : k \in Kept(v, x)}
      <3>1. s \in Seq(S)
        BY <1>1, ListedIs
      <3> HIDE DEF s, S
      <3>2. Len(s) \in Nat /\ s = [n \in 1 .. Len(s) |-> s[n]]
        BY <3>1
      <3>3. IsSequence(s)
        BY <3>2, SequenceIs
      <3> QED BY <3>3 DEF s
    <2>5. /\ AtomsOf(B, args) \subseteq AtomsOfObject(B, Dict(g))
          /\ f # NoFields => AtomsOf(B, Ref("dict", DictAt(i))) \subseteq AtomsOfObject(B, Dict(g))
      BY <1>10, <2>4, AtomsOfCall
    <2> HIDE DEF f, args, op, all, g
    <2>6. AtomsOf(B, args) \subseteq all /\ AtomsOfObject(B, Dict(f)) \subseteq all
      BY <1>6, <2>3, <2>5
    <2>7. AtomsOfObject(A, x) \subseteq all
      BY <1>2, <1>3, <1>4, <1>10, <2>6
    <2> QED BY <2>7 DEF all
  <1>11. CASE x.kind = "dict"
    <2>1. x.elems = <<>> /\ DOMAIN <<>> = {}
      BY <1>11 DEF IsObject
    <2>2. ScrubbedObject(o, v, x, i) = Ref("dict", DictAt(i)) /\ MadeDict(o, v, x, i) = Dict(f)
      BY <1>11 DEF ScrubbedObject, MadeDict
    <2>3. all = AtomsOfObject(B, Dict(f))
      BY <1>5, <2>2
    <2> HIDE DEF f, args, op, all
    <2>4. AtomsOfObject(A, x) \subseteq all
      BY <1>2, <1>4, <2>1, <2>3
    <2> QED BY <2>4 DEF all
  <1>12. CASE x.kind \in {"list", "group"} /\ f = NoFields
    <2>1. ScrubbedObject(o, v, x, i) = args
      BY <1>12 DEF ScrubbedObject
    <2>2. all = AtomsOf(B, args)
      BY <2>1
    <2> HIDE DEF f, args, op, all
    <2>3. AtomsOfObject(A, x) \subseteq all
      BY <1>2, <1>3, <1>4, <1>6, <1>12, <2>2
    <2> QED BY <2>3 DEF all
  <1>13. CASE x.kind \in {"list", "group"} /\ f # NoFields
    <2>1. x.kind = "group" /\ x.fields # NoFields
      <3>1. x.fields = NoFields => f = NoFields
        BY DEF Named, NoFields
      <3> QED BY <1>13, <3>1 DEF IsObject
    <2>2. {x.elems[n] : n \in DOMAIN x.elems} = {x.fields[k] : k \in DOMAIN x.fields}
      BY <2>1 DEF IsObject
    <2>3. \A n \in DOMAIN x.elems : \E k \in DOMAIN x.fields : x.elems[n] = x.fields[k]
      BY <2>2
    <2>4. ScrubbedObject(o, v, x, i) = Ref("dict", DictAt(i)) /\ MadeDict(o, v, x, i) = Dict(f)
      BY <1>13 DEF ScrubbedObject, MadeDict
    <2>5. all = AtomsOfObject(B, Dict(f))
      BY <1>5, <2>4
    <2> HIDE DEF f, args, op, all
    <2>6. AtomsOfObject(A, x) \subseteq all
      BY <1>2, <1>4, <2>3, <2>5
    <2> QED BY <2>6 DEF all
  <1> QED BY <1>7, <1>9, <1>10, <1>11, <1>12, <1>13 DEF Kinds

LEMMA AtomsKept ==
    ASSUME NEW o, o.calls \in {"simple_op", "normal_op"}, NEW heap, IsHeap(heap),
           \A i \in DOMAIN heap : heap[i].kind = "call" =>
             Renamed(o, heap[i].op) \notin DOMAIN heap[i].fields,
           NEW root, IsValue(root, heap, Len(heap) + 1)
    PROVE  Atoms(Tree(heap, root))
             \subseteq Atoms(Tree(MadeHeap(o, heap), Scrubbed(ScrubbedAll(o, heap), root)))
  <1> DEFINE made == MadeHeap(o, heap)
             last == Len(heap)
             v == ScrubbedAll(o, heap)
             A == AtomsAll(heap)
             B == AtomsAll(made)
             T == {i \in 1 .. last : A[i] \subseteq AtomsOf(B, v[i])}
  <1>1. last \in Nat /\ DOMAIN heap = 1 .. last
    BY HeapIs
  <1>2. /\ DOMAIN made = 1 .. 3 * last
        /\ \A i \in 1 .. last :
             /\ made[ListAt(i)] = MadeList(o, v, heap[i])
             /\ made[DictAt(i)] = MadeDict(o, v, heap[i], i)
             /\ made[CallAt(i)] = MadeCall(o, v, heap[i], i)
    BY <1>1, MadeHeapIs
  <1>3. \A i \in 1 .. last : A[i] = AtomsOfObject(A, heap[i])
    <2>1. A = [i \in DOMAIN heap |-> AtomsOfObject(A, heap[i])]
      BY AtomsAllIs
    <2> HIDE DEF A
    <2> QED BY <1>1, <2>1
  <1>4. \A at \in 1 .. 3 * last : B[at] = AtomsOfObject(B, made[at])
    <2>1. IsHeap(made)
      BY MadeIsHeap
    <2> HIDE DEF made
    <2>2. B = [at \in DOMAIN made |-> AtomsOfObject(B, made[at])]
      BY <2>1, AtomsAllIs
    <2> HIDE DEF B
    <2> QED BY <1>2, <2>2
  <1>5. \A i \in 1 .. last : v[i] = ScrubbedObject(o, v, heap[i], i)
    <2>1. v = [i \in DOMAIN heap |-> ScrubbedObject(o, v, heap[i], i)]
      BY ScrubbedAllIs
    <2> HIDE DEF v
    <2> QED BY <1>1, <2>1
  <1> HIDE DEF made, v, A, B, last
  <1>6. ASSUME NEW i \in Nat, NEW u, IsValue(u, heap, i), \A j \in 1 .. i - 1 : A[j] \subseteq AtomsOf(B, v[j])
        PROVE  AtomsOf(A, u) \subseteq AtomsOf(B, Scrubbed(v, u))
    <2>1. CASE IsRef(u)
      <3>1. u.at \in 1 .. i - 1
        BY <1>6, <2>1 DEF IsValue, IsRef, Kinds, Null, Nothing, Atom, Value
      <3>2. AtomsOf(A, u) = A[u.at] /\ Scrubbed(v, u) = v[u.at]
        BY <2>1 DEF AtomsOf, Scrubbed
      <3> QED BY <1>6, <3>1, <3>2
    <2>2. CASE ~IsRef(u)
      BY <2>2 DEF AtomsOf, Scrubbed
    <2> QED BY <2>1, <2>2
  <1>7. ASSUME NEW i \in 1 .. last, \A j \in 1 .. i - 1 : j \in T PROVE i \in T
    <2>1. \A j \in 1 .. i - 1 : A[j] \subseteq AtomsOf(B, v[j])
      BY <1>7
    <2>2. PICK x : x = heap[i]
      OBVIOUS
    <2>3. i \in Nat /\ i \in DOMAIN heap
      BY <1>1
    <2>4. IsObject(x)
      BY <2>2, <2>3 DEF IsHeap
    <2>5. \A n \in DOMAIN x.elems : AtomsOf(A, x.elems[n]) \subseteq AtomsOf(B, Scrubbed(v, x.elems[n]))
      BY <1>6, <2>1, <2>2, <2>3, HeapParts
    <2>6. \A k \in DOMAIN x.fields : AtomsOf(A, x.fields[k]) \subseteq AtomsOf(B, Scrubbed(v, x.fields[k]))
      BY <1>6, <2>1, <2>2, <2>3, HeapParts
    <2>7. /\ B[ListAt(i)] = AtomsOfObject(B, MadeList(o, v, x))
          /\ B[DictAt(i)] = AtomsOfObject(B, MadeDict(o, v, x, i))
          /\ B[CallAt(i)] = AtomsOfObject(B, MadeCall(o, v, x, i))
      BY <1>1, <1>2, <1>4, <2>2, Positions
    <2>8. x.kind = "call" => Renamed(o, x.op) \notin DOMAIN x.fields
      BY <2>2, <2>3
    <2>9. AtomsOfObject(A, x) \subseteq AtomsOf(B, ScrubbedObject(o, v, x, i))
      BY ONLY o.calls \in {"simple_op", "normal_op"}, <2>3, <2>4, <2>5, <2>6, <2>7, <2>8, ObjectAtoms
    <2> QED BY <1>3, <1>5, <2>2, <2>9
  <1>8. \A i \in 1 .. last : i \in T
    <2> HIDE DEF T
    <2> QED BY <1>1, <1>7, BelowInduction
  <1>9. AtomsOf(A, root) \subseteq AtomsOf(B, Scrubbed(v, root))
    <2>1. last + 1 \in Nat /\ IsValue(root, heap, last + 1)
      BY <1>1 DEF last
    <2>2. \A j \in 1 .. (last + 1) - 1 : A[j] \subseteq AtomsOf(B, v[j])
      BY <1>1, <1>8
    <2> QED BY <1>6, <2>1, <2>2
  <1> QED BY <1>9 DEF Atoms, Tree, A, B, v, made

-----------------------------------------------------------------------------
(* A tree that scrub() has made is not changed by another one.             *)

LEMMA TidyListed ==
    ASSUME NEW x, IsSequence(x.elems), x.kind = "list", NEW v,
           \A n \in DOMAIN x.elems : Scrubbed(v, x.elems[n]) # Nothing
    PROVE  Listed(v, x) = [n \in DOMAIN x.elems |-> Scrubbed(v, x.elems[n])]
  <1> DEFINE last == Len(x.elems)
  <1>1. last \in Nat /\ DOMAIN x.elems = 1 .. last
    BY DEF IsSequence
  <1>2. Kept(v, x) = 1 .. last
    BY <1>1 DEF Kept
  <1>3. Listed(v, x) = [n \in 1 .. Cardinality(Kept(v, x)) |-> Scrubbed(v, x.elems[Nth(Kept(v, x), n)])]
    BY DEF Listed
  <1> HIDE DEF last
  <1>4. Cardinality(1 .. last) = last /\ \A n \in 1 .. last : Nth(1 .. last, n) = n
    BY <1>1, AllPositions
  <1>5. Cardinality(Kept(v, x)) = last
    BY <1>2, <1>4
  <1>6. \A n \in 1 .. last : Nth(Kept(v, x), n) = n
    BY <1>2, <1>4
  <1> QED BY <1>1, <1>3, <1>5, <1>6

LEMMA TidyObject ==
    ASSUME NEW x, IsObject(x), Tidy(x), NEW v, NEW o, NEW i \in Nat, NEW B, NEW C,
           \A n \in DOMAIN x.elems :
             /\ Scrubbed(v, x.elems[n]) # Nothing
             /\ BareValue(B, Scrubbed(v, x.elems[n])) = BareValue(C, x.elems[n]),
           \A k \in DOMAIN x.fields :
             /\ Scrubbed(v, x.fields[k]) # Nothing
             /\ BareValue(B, Scrubbed(v, x.fields[k])) = BareValue(C, x.fields[k]),
           B[ListAt(i)] = BareObject(B, MadeList(o, v, x)),
           B[DictAt(i)] = BareObject(B, MadeDict(o, v, x, i))
    PROVE  /\ BareValue(B, ScrubbedObject(o, v, x, i)) = BareObject(C, x)
           /\ ScrubbedObject(o, v, x, i) # Nothing
  <1>1. \A at : \A kind \in Kinds :
          Ref(kind, at) # Nothing /\ BareValue(B, Ref(kind, at)) = B[at]
    BY DEF Ref, Value, Nothing, BareValue, IsRef, Kinds
  <1>2. "list" \in Kinds /\ "dict" \in Kinds
    BY DEF Kinds
  <1>3. CASE x.kind = "list"
    <2> DEFINE s == Listed(v, x)
    <2>1. IsSequence(x.elems) /\ x.fields = NoFields /\ x.op = none /\ Len(x.elems) > 1
      BY <1>3 DEF IsObject, Tidy
    <2>2. s = [n \in DOMAIN x.elems |-> Scrubbed(v, x.elems[n])]
      BY <1>3, <2>1, TidyListed
    <2>3. Len(s) = Len(x.elems) /\ DOMAIN s = DOMAIN x.elems
      <3> DEFINE last == Len(x.elems)
      <3>1. DOMAIN x.elems = 1 .. last /\ last \in Nat
        BY <2>1 DEF IsSequence
      <3> HIDE DEF s, last
      <3>2. s = [n \in 1 .. last |-> s[n]]
        BY <2>2, <3>1
      <3>3. Len(s) = last /\ DOMAIN s = 1 .. last
        BY <3>1, <3>2, SequenceIs
      <3> QED BY <3>1, <3>3 DEF last
    <2>4. Named(v, x) = NoFields
      BY <2>1 DEF Named, NoFields
    <2>5. ScrubbedObject(o, v, x, i) = ScrubbedList(v, x, i)
      BY <1>3, <2>4 DEF ScrubbedObject
    <2>6. Len(s) > 1 => ScrubbedList(v, x, i) = Ref("list", ListAt(i)) /\ MadeList(o, v, x) = List(s)
      <3>1. ScrubbedList(v, x, i) = IF Len(s) = 0 THEN Nothing ELSE IF Len(s) = 1 THEN s[1]
                                    ELSE Ref("list", ListAt(i))
        BY DEF ScrubbedList
      <3>2. Len(s) > 1 => MadeList(o, v, x) = List(s)
        BY DEF MadeList
      <3>3. Len(s) > 1 => Len(s) # 0 /\ Len(s) # 1
        <4>1. Len(x.elems) \in Nat
          BY <2>1 DEF IsSequence
        <4>2. PICK m \in Nat : m = Len(s)
          BY <2>3, <4>1
        <4>3. m > 1 => m # 0 /\ m # 1
          OBVIOUS
        <4> QED BY <4>2, <4>3
      <3> HIDE DEF s
      <3> QED BY <3>1, <3>2, <3>3
    <2>7. ScrubbedObject(o, v, x, i) = Ref("list", ListAt(i)) /\ MadeList(o, v, x) = List(s)
      BY <2>1, <2>3, <2>5, <2>6
    <2>8. BareValue(B, ScrubbedObject(o, v, x, i)) = BareObject(B, List(s))
      BY <1>1, <1>2, <2>7
    <2>9. /\ List(s).kind = "list" /\ List(s).op = none /\ List(s).elems = s /\ List(s).fields = NoFields
      BY DEF List, Object
    <2> HIDE DEF s
    <2>10. [n \in DOMAIN s |-> BareValue(B, s[n])] = [n \in DOMAIN x.elems |-> BareValue(C, x.elems[n])]
      BY <2>2, <2>3
    <2>11. [k \in DOMAIN NoFields |-> BareValue(B, NoFields[k])]
             = [k \in DOMAIN NoFields |-> BareValue(C, NoFields[k])]
      BY DEF NoFields
    <2>12. BareObject(B, List(s)) = BareObject(C, x)
      BY <1>3, <2>1, <2>9, <2>10, <2>11 DEF BareObject
    <2> QED BY <1>1, <1>2, <2>7, <2>8, <2>12
  <1>4. CASE x.kind = "dict"
    <2> DEFINE f == Named(v, x)
    <2>1. x.elems = <<>> /\ x.op = none
      BY <1>4 DEF IsObject, Tidy
    <2>2. f = [k \in DOMAIN x.fields |-> Scrubbed(v, x.fields[k])]
      <3>1. {k \in DOMAIN x.fields : Scrubbed(v, x.fields[k]) # Nothing} = DOMAIN x.fields
        OBVIOUS
      <3> QED BY <3>1 DEF Named
    <2>3. ScrubbedObject(o, v, x, i) = Ref("dict", DictAt(i)) /\ MadeDict(o, v, x, i) = Dict(f)
      BY <1>4 DEF ScrubbedObject, MadeDict
    <2>4. BareValue(B, ScrubbedObject(o, v, x, i)) = BareObject(B, Dict(f))
      BY <1>1, <1>2, <2>3
    <2>5. /\ Dict(f).kind = "dict" /\ Dict(f).op = none /\ Dict(f).elems = <<>> /\ Dict(f).fields = f
      BY DEF Dict, Object
    <2> HIDE DEF f
    <2>6. DOMAIN f = DOMAIN x.fields
      BY <2>2
    <2>7. [k \in DOMAIN f |-> BareValue(B, f[k])] = [k \in DOMAIN x.fields |-> BareValue(C, x.fields[k])]
      BY <2>2, <2>6
    <2>8. [n \in DOMAIN <<>> |-> BareValue(B, <<>>[n])] = [n \in DOMAIN <<>> |-> BareValue(C, <<>>[n])]
      OBVIOUS
    <2>9. BareObject(B, Dict(f)) = BareObject(C, x)
      BY <1>4, <2>1, <2>5, <2>7, <2>8 DEF BareObject
    <2> QED BY <1>1, <1>2, <2>3, <2>4, <2>9
  <1> QED BY <1>3, <1>4 DEF Tidy

LEMMA TidyKept ==
    ASSUME NEW o, o.calls \in {"simple_op", "normal_op"}, NEW heap, IsHeap(heap),
           \A i \in DOMAIN heap : Tidy(heap[i]),
           NEW root, IsValue(root, heap, Len(heap) + 1)
    PROVE  Bare(Tree(MadeHeap(o, heap), Scrubbed(ScrubbedAll(o, heap), root))) = Bare(Tree(heap, root))
  <1> DEFINE made == MadeHeap(o, heap)
             last == Len(heap)
             v == ScrubbedAll(o, heap)
             C == BareAll(heap)
             B == BareAll(made)
             T == {i \in 1 .. last : v[i] # Nothing /\ BareValue(B, v[i]) = C[i]}
  <1>1. last \in Nat /\ DOMAIN heap = 1 .. last
    BY HeapIs
  <1>2. /\ DOMAIN made = 1 .. 3 * last
        /\ \A i \in 1 .. last :
             /\ made[ListAt(i)] = MadeList(o, v, heap[i])
             /\ made[DictAt(i)] = MadeDict(o, v, heap[i], i)
             /\ made[CallAt(i)] = MadeCall(o, v, heap[i], i)
    BY <1>1, MadeHeapIs
  <1>3. \A i \in 1 .. last : C[i] = BareObject(C, heap[i])
    <2>1. C = [i \in DOMAIN heap |-> BareObject(C, heap[i])]
      BY BareAllIs
    <2> HIDE DEF C
    <2> QED BY <1>1, <2>1
  <1>4. \A at \in 1 .. 3 * last : B[at] = BareObject(B, made[at])
    <2>1. IsHeap(made)
      BY MadeIsHeap
    <2> HIDE DEF made
    <2>2. B = [at \in DOMAIN made |-> BareObject(B, made[at])]
      BY <2>1, BareAllIs
    <2> HIDE DEF B
    <2> QED BY <1>2, <2>2
  <1>5. \A i \in 1 .. last : v[i] = ScrubbedObject(o, v, heap[i], i)
    <2>1. v = [i \in DOMAIN heap |-> ScrubbedObject(o, v, heap[i], i)]
      BY ScrubbedAllIs
    <2> HIDE DEF v
    <2> QED BY <1>1, <2>1
  <1> HIDE DEF made, v, C, B, last
  <1>6. ASSUME NEW i \in Nat, NEW u, IsValue(u, heap, i),
               \A j \in 1 .. i - 1 : v[j] # Nothing /\ BareValue(B, v[j]) = C[j]
        PROVE  /\ u # Nothing => Scrubbed(v, u) # Nothing
               /\ BareValue(B, Scrubbed(v, u)) = BareValue(C, u)
    <2>1. CASE IsRef(u)
      <3>1. u.at \in 1 .. i - 1
        BY <1>6, <2>1 DEF IsValue, IsRef, Kinds, Null, Nothing, Atom, Value
      <3>2. BareValue(C, u) = C[u.at] /\ Scrubbed(v, u) = v[u.at]
        BY <2>1 DEF BareValue, Scrubbed
      <3> QED BY <1>6, <3>1, <3>2
    <2>2. CASE ~IsRef(u)
      BY <2>2 DEF BareValue, Scrubbed
    <2> QED BY <2>1, <2>2
  <1>7. ASSUME NEW i \in 1 .. last, \A j \in 1 .. i - 1 : j \in T PROVE i \in T
    <2>1. \A j \in 1 .. i - 1 : v[j] # Nothing /\ BareValue(B, v[j]) = C[j]
      BY <1>7
    <2>2. PICK x : x = heap[i]
      OBVIOUS
    <2>3. i \in Nat /\ i \in DOMAIN heap
      BY <1>1
    <2>4. IsObject(x) /\ Tidy(x)
      BY <2>2, <2>3 DEF IsHeap
    <2>5. \A n \in DOMAIN x.elems :
             /\ Scrubbed(v, x.elems[n]) # Nothing
             /\ BareValue(B, Scrubbed(v, x.elems[n])) = BareValue(C, x.elems[n])
      <3>1. \A n \in DOMAIN x.elems : IsValue(x.elems[n], heap, i) /\ x.elems[n] # Nothing
        BY <2>2, <2>3, <2>4, HeapParts DEF Tidy
      <3> QED BY <1>6, <2>1, <2>3, <3>1
    <2>6. \A k \in DOMAIN x.fields :
             /\ Scrubbed(v, x.fields[k]) # Nothing
             /\ BareValue(B, Scrubbed(v, x.fields[k])) = BareValue(C, x.fields[k])
      <3>1. \A k \in DOMAIN x.fields : IsValue(x.fields[k], heap, i) /\ x.fields[k] # Nothing
        BY <2>2, <2>3, <2>4, HeapParts DEF Tidy
      <3> QED BY <1>6, <2>1, <2>3, <3>1
    <2>7. /\ B[ListAt(i)] = BareObject(B, MadeList(o, v, x))
          /\ B[DictAt(i)] = BareObject(B, MadeDict(o, v, x, i))
      BY <1>1, <1>2, <1>4, <2>2, Positions
    <2>8. /\ BareValue(B, ScrubbedObject(o, v, x, i)) = BareObject(C, x)
          /\ ScrubbedObject(o, v, x, i) # Nothing
      BY ONLY <2>3, <2>4, <2>5, <2>6, <2>7, TidyObject
    <2> QED BY <1>3, <1>5, <2>2, <2>8
  <1>8. \A i \in 1 .. last : i \in T
    <2> HIDE DEF T
    <2> QED BY <1>1, <1>7, BelowInduction
  <1>9. BareValue(B, Scrubbed(v, root)) = BareValue(C, root)
    <2>1. last + 1 \in Nat /\ IsValue(root, heap, last + 1)
      BY <1>1 DEF last
    <2>2. \A j \in 1 .. (last + 1) - 1 : v[j] # Nothing /\ BareValue(B, v[j]) = C[j]
      BY <1>1, <1>8
    <2> QED BY <1>6, <2>1, <2>2
  <1> QED BY <1>9 DEF Bare, Tree, C, B, v, made

-----------------------------------------------------------------------------
(* The whole of scrub() and of the rewriting.                              *)

LEMMA TreeIs ==
    ASSUME NEW tree
    PROVE  IsTree(tree) => IsHeap(tree.heap) /\ IsValue(tree.root, tree.heap, Len(tree.heap) + 1)
  <1>1. IsTree(tree) => IsHeap(tree.heap)
    BY DEF IsTree, IsHeap
  <1>2. IsTree(tree) => IsValue(tree.root, tree.heap, Len(tree.heap) + 1)
    BY DEF IsTree
  <1> QED BY <1>1, <1>2

\* The tree that is made, with its NULLs replaced, is that of the tree with
\* its NULLs replaced.
LEMMA OutReplaced ==
    ASSUME NEW o, NEW heap, IsHeap(heap), Sound(o, heap), NEW null, IsNull(null),
           NEW root, IsValue(root, heap, Len(heap) + 1), NEW r, r = ReplacedAll(heap, null)
    PROVE  /\ MadeHeap(o, r) = ReplacedAll(MadeHeap(o, heap), null)
           /\ Scrubbed(ScrubbedAll(o, r), Replaced(root, null))
                = Replaced(Scrubbed(ScrubbedAll(o, heap), root), null)
  <1> DEFINE v == ScrubbedAll(o, heap)
             w == ScrubbedAll(o, r)
  <1>1. \A i \in DOMAIN heap : w[i] = Replaced(v[i], null)
    BY ValuesReplaced
  <1>2. Len(heap) \in Nat /\ DOMAIN heap = 1 .. Len(heap)
    BY HeapIs
  <1> HIDE DEF v, w
  <1>3. Scrubbed(w, Replaced(root, null)) = Replaced(Scrubbed(v, root), null)
    <2>1. CASE IsRef(root)
      <3>1. root.at \in DOMAIN heap
        BY <1>2, <2>1 DEF IsValue, IsRef, Kinds, Null, Nothing, Atom, Value
      <3>2. Replaced(root, null) = root
        BY <2>1, ReplacedIs
      <3> QED BY <1>1, <2>1, <3>1, <3>2 DEF Scrubbed
    <2>2. CASE ~IsRef(root)
      <3>1. ~IsRef(Replaced(root, null))
        BY <2>2, ReplacedIs DEF IsRef
      <3> QED BY <2>2, <3>1 DEF Scrubbed
    <2> QED BY <2>1, <2>2
  <1>4. MadeHeap(o, r) = ReplacedAll(MadeHeap(o, heap), null)
    BY MadeHeapReplaced
  <1> QED BY <1>3, <1>4 DEF v, w

\* Rewriting what scrub() made is scrubbing what was rewritten.
LEMMA PutScrubbed ==
    ASSUME NEW o, o.calls \in {"simple_op", "normal_op"}, NEW tree, IsTree(tree),
           Sound(o, tree.heap), NEW null, IsNull(null), NEW walk, NEW locs,
           {l \in locs : l.walk = walk} = Locations(o, tree.heap, walk),
           Scrubbed(ScrubbedAll(o, tree.heap), tree.root) # Null
    PROVE  Put(scrub(o, tree, walk).out, walk, locs, null)
             = scrub(o, Substituted(tree, null), walk).out
  <1> DEFINE heap == tree.heap
             root == tree.root
             v == ScrubbedAll(o, heap)
             made == MadeHeap(o, heap)
             r == ReplacedAll(heap, null)
             out == Scrubbed(v, root)
  <1>1. IsHeap(heap) /\ IsValue(root, heap, Len(heap) + 1)
    BY TreeIs
  <1>2. scrub(o, tree, walk).out = Tree(made, out)
    BY DEF scrub
  <1>3. scrub(o, Substituted(tree, null), walk).out
          = Tree(MadeHeap(o, r), Scrubbed(ScrubbedAll(o, r), Replaced(root, null)))
    BY DEF scrub, Substituted, Tree
  <1>4. Replaced(out, null) = out
    BY DEF Replaced
  <1>5. /\ MadeHeap(o, r) = ReplacedAll(made, null)
        /\ Scrubbed(ScrubbedAll(o, r), Replaced(root, null)) = Replaced(out, null)
    <2> HIDE DEF heap, root
    <2> QED BY <1>1, OutReplaced DEF heap
  <1>6. Put(Tree(made, out), walk, locs, null) = Tree(ReplacedAll(made, null), out)
    <2> HIDE DEF heap, root, out
    <2> QED BY <1>1, PutIsReplaced DEF heap
  <1> HIDE DEF made, out, r, v, heap, root
  <1> QED BY <1>2, <1>3, <1>4, <1>5, <1>6

\* The limit of a frame.
LEMMA NegIs ==
    ASSUME NEW h, NEW root, NEW tree, tree = Neg(Tree(h, root)),
           IsHeap(h), IsValue(root, h, Len(h) + 1)
    PROVE  /\ IsTree(tree)
           /\ Len(tree.heap) = Len(h) + 1 /\ DOMAIN tree.heap = 1 .. Len(h) + 1
           /\ tree.heap[Len(h) + 1] = Dict(With(NoFields, "neg", root))
           /\ \A i \in 1 .. Len(h) : tree.heap[i] = h[i]
           /\ tree.root = Ref("dict", Len(h) + 1)
           /\ (\A i \in DOMAIN h : Tidy(h[i])) /\ root # Nothing =>
                \A i \in DOMAIN tree.heap : Tidy(tree.heap[i])
           /\ (\A i \in DOMAIN h : h[i].kind # "call") =>
                \A i \in DOMAIN tree.heap : tree.heap[i].kind # "call"
  <1> DEFINE last == Len(h)
             f == With(NoFields, "neg", root)
             g == tree.heap
  <1>1. last \in Nat /\ DOMAIN h = 1 .. last
    BY HeapIs
  <1>2. g = Append(h, Dict(f)) /\ tree.root = Ref("dict", last + 1)
    BY DEF Neg, Tree
  <1>3. h \in Seq({h[n] : n \in DOMAIN h})
    BY DEF IsHeap, IsSequence
  <1>4. /\ Len(g) = last + 1 /\ DOMAIN g = 1 .. last + 1
        /\ g[last + 1] = Dict(f) /\ \A i \in 1 .. last : g[i] = h[i]
        /\ g = [i \in 1 .. last + 1 |-> g[i]]
    <2> DEFINE S == {h[n] : n \in DOMAIN h} \cup {Dict(f)}
    <2>1. PICK d : d = Dict(f)
      OBVIOUS
    <2>2. {h[n] : n \in DOMAIN h} \subseteq S /\ d \in S
      BY <2>1
    <2> HIDE DEF S, f
    <2>3. h \in Seq(S)
      BY <1>3, <2>2
    <2>4. /\ Append(h, d) \in Seq(S) /\ Len(Append(h, d)) = last + 1
          /\ Append(h, d)[last + 1] = d /\ \A i \in 1 .. last : Append(h, d)[i] = h[i]
      BY <1>1, <2>2, <2>3
    <2>5. g = Append(h, d)
      BY <1>2, <2>1
    <2> HIDE DEF g
    <2>6. g \in Seq(S) /\ Len(g) = last + 1
      BY <2>4, <2>5
    <2>7. DOMAIN g = 1 .. last + 1 /\ g = [i \in 1 .. last + 1 |-> g[i]]
      BY <2>6
    <2> QED BY <2>1, <2>4, <2>5, <2>6, <2>7
  <1>5. IsSequence(g)
    <2>1. last + 1 \in Nat
      BY <1>1
    <2> HIDE DEF g, last
    <2> QED BY <1>4, <2>1, SequenceIs
  <1>6. DOMAIN f = {"neg"} /\ f["neg"] = root
    BY DEF With, NoFields
  <1> HIDE DEF last, g, f
  <1>7. \A u : \A i \in 1 .. last + 1 : IsValue(u, h, i) => IsValue(u, g, i)
    <2>1. \A i \in 1 .. last + 1 : \A j \in 1 .. i - 1 : g[j] = h[j]
      <3>1. \A i \in 1 .. last + 1 : \A j \in 1 .. i - 1 : j \in 1 .. last
        BY <1>1
      <3> QED BY <1>4, <3>1
    <2> QED BY <2>1 DEF IsValue
  <1>8. \A i \in 1 .. last : Holds(g[i], g, i)
    <2> TAKE i \in 1 .. last
    <2>1. Holds(h[i], h, i)
      BY <1>1 DEF IsHeap, Holds
    <2>2. i \in 1 .. last + 1
      BY <1>1
    <2>3. Holds(h[i], g, i)
      BY <1>7, <2>1, <2>2 DEF Holds
    <2> QED BY <1>4, <2>3
  <1>9. IsValue(root, g, last + 1)
    BY <1>1, <1>7 DEF last
  <1>10. Holds(g[last + 1], g, last + 1)
    <2>1. \A k \in DOMAIN f : IsValue(f[k], g, last + 1)
      BY <1>6, <1>9
    <2>2. Holds(Dict(f), g, last + 1)
      BY <2>1, DictHolds
    <2> QED BY <1>4, <2>2
  <1>11. \A i \in DOMAIN g : Holds(g[i], g, i)
    <2> TAKE i \in DOMAIN g
    <2>1. i \in 1 .. last \/ i = last + 1
      BY <1>1, <1>4
    <2> QED BY <1>8, <1>10, <2>1
  <1>12. IsValue(Ref("dict", last + 1), g, Len(g) + 1)
    <2>1. g[last + 1].kind = "dict" /\ "dict" \in Kinds
      BY <1>4 DEF Dict, Object, Kinds
    <2>2. last + 1 \in 1 .. (Len(g) + 1) - 1 /\ Len(g) + 1 \in Nat
      BY <1>1, <1>4
    <2> QED BY <2>1, <2>2, Values
  <1>13. IsTree(tree)
    BY <1>2, <1>5, <1>11, <1>12 DEF IsTree, Holds, g
  <1>14. (\A i \in DOMAIN h : Tidy(h[i])) /\ root # Nothing => \A i \in DOMAIN g : Tidy(g[i])
    <2> SUFFICES ASSUME \A i \in DOMAIN h : Tidy(h[i]), root # Nothing, NEW i \in DOMAIN g
                 PROVE  Tidy(g[i])
      OBVIOUS
    <2>1. Tidy(Dict(f))
      BY <1>6, TidyDict
    <2>2. i \in 1 .. last \/ i = last + 1
      BY <1>1, <1>4
    <2> QED BY <1>1, <1>4, <2>1, <2>2
  <1>15. (\A i \in DOMAIN h : h[i].kind # "call") => \A i \in DOMAIN g : g[i].kind # "call"
    <2> SUFFICES ASSUME \A i \in DOMAIN h : h[i].kind # "call", NEW i \in DOMAIN g
                 PROVE  g[i].kind # "call"
      OBVIOUS
    <2>1. Dict(f).kind # "call"
      BY DEF Dict, Object
    <2>2. i \in 1 .. last \/ i = last + 1
      BY <1>1, <1>4
    <2> QED BY <1>1, <1>4, <2>1, <2>2
  <1> QED BY <1>2, <1>4, <1>13, <1>14, <1>15 DEF g, last, f

LEMMA NegReplaced ==
    ASSUME NEW h, NEW root, IsHeap(h), IsValue(root, h, Len(h) + 1), NEW null, IsNull(null)
    PROVE  Substituted(Neg(Tree(h, root)), null)
             = Neg(Tree(ReplacedAll(h, null), Replaced(root, null)))
  <1> DEFINE r == ReplacedAll(h, null)
             to == Replaced(root, null)
             last == Len(h)
             one == Neg(Tree(h, root))
             two == Neg(Tree(r, to))
  <1>1. last \in Nat /\ DOMAIN h = 1 .. last
    BY HeapIs
  <1>2. IsHeap(r) /\ Len(r) = last /\ IsValue(to, r, last + 1)
    BY <1>1, ReplacedHeap
  <1>3. \A i \in 1 .. last : r[i] = ReplacedIn(h[i], null)
    BY <1>1 DEF ReplacedAll
  <1>4. one = Tree(one.heap, one.root) /\ two = Tree(two.heap, two.root)
    BY DEF Neg, Tree
  <1> HIDE DEF r, to, one, two
  <1>5. /\ DOMAIN one.heap = 1 .. last + 1
        /\ one.heap[last + 1] = Dict(With(NoFields, "neg", root))
        /\ \A i \in 1 .. last : one.heap[i] = h[i]
        /\ one.root = Ref("dict", last + 1)
    BY NegIs DEF one
  <1>6. /\ IsTree(two)
        /\ DOMAIN two.heap = 1 .. last + 1
        /\ two.heap[last + 1] = Dict(With(NoFields, "neg", to))
        /\ \A i \in 1 .. last : two.heap[i] = r[i]
        /\ two.root = Ref("dict", last + 1)
    <2> HIDE DEF last
    <2>1. \A tree : tree = Neg(Tree(r, to)) =>
            /\ IsTree(tree)
            /\ DOMAIN tree.heap = 1 .. Len(r) + 1
            /\ tree.heap[Len(r) + 1] = Dict(With(NoFields, "neg", to))
            /\ \A i \in 1 .. Len(r) : tree.heap[i] = r[i]
            /\ tree.root = Ref("dict", Len(r) + 1)
      BY <1>2, NegIs
    <2> QED BY <1>2, <2>1 DEF two
  <1>7. two.heap = [i \in 1 .. last + 1 |-> two.heap[i]]
    <2>1. IsSequence(two.heap)
      BY <1>6 DEF IsTree
    <2> DEFINE s == two.heap
    <2> HIDE DEF s
    <2>2. s \in Seq({s[n] : n \in DOMAIN s})
      BY <2>1 DEF IsSequence, s
    <2>3. s = [n \in DOMAIN s |-> s[n]]
      <3> PICK S : s \in Seq(S)
        BY <2>2
      <3> QED OBVIOUS
    <2> QED BY <1>6, <2>3 DEF s
  <1>8. Dict(With(NoFields, "neg", to)) = ReplacedIn(Dict(With(NoFields, "neg", root)), null)
    <2> DEFINE f == With(NoFields, "neg", root)
    <2>1. NoFields = [j \in DOMAIN NoFields |-> Replaced(NoFields[j], null)]
      BY DEF NoFields
    <2>2. With(NoFields, "neg", to) = [j \in DOMAIN f |-> Replaced(f[j], null)]
      <3>1. With(NoFields, "neg", Replaced(root, null)) = [j \in DOMAIN f |-> Replaced(f[j], null)]
        BY ONLY <2>1, ReplacedWith
      <3> QED BY <3>1 DEF to
    <2> HIDE DEF f
    <2>3. ReplacedIn(Dict(f), null) = Dict([j \in DOMAIN f |-> Replaced(f[j], null)])
      BY ReplacedDict
    <2> QED BY <2>2, <2>3 DEF f
  <1>9. \A i \in 1 .. last + 1 : two.heap[i] = ReplacedIn(one.heap[i], null)
    <2> TAKE i \in 1 .. last + 1
    <2>1. i \in 1 .. last \/ i = last + 1
      BY <1>1
    <2> QED BY <1>3, <1>5, <1>6, <1>8, <2>1
  <1>10. ReplacedAll(one.heap, null) = two.heap
    <2>1. ReplacedAll(one.heap, null) = [i \in 1 .. last + 1 |-> ReplacedIn(one.heap[i], null)]
      BY <1>5 DEF ReplacedAll
    <2> HIDE DEF last
    <2> QED BY <1>7, <1>9, <2>1
  <1>11. Replaced(one.root, null) = two.root
    <2>1. Ref("dict", last + 1) # Null
      BY DEF Ref, Value, Null
    <2> QED BY <1>5, <1>6, <2>1 DEF Replaced
  <1>12. Substituted(one, null) = Tree(two.heap, two.root)
    BY <1>10, <1>11 DEF Substituted
  <1> QED BY <1>4, <1>12 DEF one, two, r, to

LEMMA NegAtoms ==
    ASSUME NEW h, NEW root, IsHeap(h), IsValue(root, h, Len(h) + 1)
    PROVE  Atoms(Tree(h, root)) \subseteq Atoms(Neg(Tree(h, root)))
  <1> DEFINE last == Len(h)
             tree == Neg(Tree(h, root))
             g == tree.heap
             A == AtomsAll(h)
             B == AtomsAll(g)
             T == {i \in 1 .. last : A[i] = B[i]}
  <1>1. last \in Nat /\ DOMAIN h = 1 .. last
    BY HeapIs
  <1>2. /\ IsTree(tree)
        /\ DOMAIN g = 1 .. last + 1
        /\ g[last + 1] = Dict(With(NoFields, "neg", root))
        /\ \A i \in 1 .. last : g[i] = h[i]
        /\ tree.root = Ref("dict", last + 1)
    BY NegIs
  <1>3. \A i \in 1 .. last : A[i] = AtomsOfObject(A, h[i])
    <2>1. A = [i \in DOMAIN h |-> AtomsOfObject(A, h[i])]
      BY AtomsAllIs
    <2> HIDE DEF A
    <2> QED BY <1>1, <2>1
  <1>4. \A i \in 1 .. last + 1 : B[i] = AtomsOfObject(B, g[i])
    <2>1. IsHeap(g)
      BY <1>2, TreeIs
    <2> HIDE DEF g
    <2>2. B = [i \in DOMAIN g |-> AtomsOfObject(B, g[i])]
      BY <2>1, AtomsAllIs
    <2> HIDE DEF B
    <2> QED BY <1>2, <2>2
  <1> HIDE DEF A, B, g, tree
  <1>5. ASSUME NEW i \in 1 .. last, \A j \in 1 .. i - 1 : j \in T PROVE i \in T
    <2>1. \A j \in 1 .. i - 1 : A[j] = B[j]
      BY <1>5
    <2>2. i \in DOMAIN h /\ i \in 1 .. last + 1
      BY <1>1
    <2>3. AtomsOfObject(A, h[i]) = AtomsOfObject(B, h[i])
      BY <2>1, <2>2, AtomsEarlier
    <2> QED BY <1>2, <1>3, <1>4, <2>2, <2>3
  <1>6. \A i \in 1 .. last : i \in T
    <2> HIDE DEF T
    <2> QED BY <1>1, <1>5, BelowInduction
  <1>7. AtomsOf(A, root) = AtomsOf(B, root)
    <2>1. CASE IsRef(root)
      <3>1. root.at \in 1 .. last
        BY <1>1, <2>1 DEF IsValue, IsRef, Kinds, Null, Nothing, Atom, Value
      <3> QED BY <1>6, <2>1, <3>1 DEF AtomsOf
    <2>2. CASE ~IsRef(root)
      BY <2>2 DEF AtomsOf
    <2> QED BY <2>1, <2>2
  <1>8. AtomsOf(B, root) \subseteq AtomsOfObject(B, Dict(With(NoFields, "neg", root)))
    BY AtomsOfWith
  <1>9. AtomsOf(B, tree.root) = B[last + 1]
    BY <1>2 DEF AtomsOf, Ref, Value, IsRef, Kinds
  <1>10. last + 1 \in 1 .. last + 1
    BY <1>1
  <1>11. AtomsOf(A, root) \subseteq AtomsOf(B, tree.root)
    BY <1>2, <1>4, <1>7, <1>8, <1>9, <1>10
  <1>12. Atoms(Tree(h, root)) = AtomsOf(A, root) /\ Atoms(tree) = AtomsOf(B, tree.root)
    BY DEF Atoms, Tree, A, B, g
  <1> QED BY <1>11, <1>12 DEF tree

LEMMA CaseIs ==
    ASSUME NEW c \in Cases
    PROVE  /\ IsTree(c.tree) /\ c.calls \in {"simple_op", "normal_op"} /\ IsNull(c.null)
           /\ \A i \in DOMAIN c.tree.heap : c.tree.heap[i].kind = "call" =>
                Renamed(c, c.tree.heap[i].op) \notin DOMAIN c.tree.heap[i].fields
           /\ Replaceable(c) => /\ Sound(c, c.tree.heap)
                                /\ Scrubbed(ScrubbedAll(c, c.tree.heap), c.tree.root) # Null
                                /\ c.early => c.calls = "simple_op"
  <1>1. IsCase(c)
    BY CasesAssumption
  <1>2. IsTree(c.tree) /\ c.calls \in {"simple_op", "normal_op"} /\ IsNull(c.null)
    BY <1>1 DEF IsCase, IsNull
  <1>3. \A i \in DOMAIN c.tree.heap : c.tree.heap[i].kind = "call" =>
          Renamed(c, c.tree.heap[i].op) \notin DOMAIN c.tree.heap[i].fields
    BY <1>1 DEF IsCase
  <1>4. ASSUME Replaceable(c)
        PROVE  /\ Sound(c, c.tree.heap)
               /\ Scrubbed(ScrubbedAll(c, c.tree.heap), c.tree.root) # Null
               /\ c.early => c.calls = "simple_op"
    <2>1. Sound(c, c.tree.heap)
      BY <1>3, <1>4 DEF Replaceable, Sound, SoundCall
    <2> QED BY <1>4, <2>1 DEF Replaceable
  <1> QED BY <1>2, <1>3, <1>4

\* What the tree with the value in place of NULL is scrubbed to.
Whole(c) == scrub(c, Substituted(c.tree, c.null), "whole").out

\* It has all the atoms.
LEMMA WholeAtoms ==
    ASSUME NEW c \in Cases
    PROVE  Atoms(Substituted(c.tree, c.null)) \subseteq Atoms(Whole(c))
  <1> DEFINE heap == c.tree.heap
             root == c.tree.root
             null == c.null
             r == ReplacedAll(heap, null)
             to == Replaced(root, null)
  <1>1. IsTree(c.tree) /\ c.calls \in {"simple_op", "normal_op"} /\ IsNull(null)
    BY CaseIs
  <1>2. IsHeap(heap) /\ IsValue(root, heap, Len(heap) + 1)
    BY <1>1, TreeIs
  <1>3. Len(heap) \in Nat /\ DOMAIN heap = 1 .. Len(heap)
    BY <1>2, HeapIs
  <1>4. IsHeap(r) /\ DOMAIN r = DOMAIN heap /\ IsValue(to, r, Len(r) + 1)
    <2> HIDE DEF heap, root, null
    <2>1. Len(heap) + 1 \in 1 .. Len(heap) + 1
      BY <1>3
    <2> QED BY <1>1, <1>2, <2>1, ReplacedHeap
  <1>5. \A i \in DOMAIN r : r[i].kind = "call" => Renamed(c, r[i].op) \notin DOMAIN r[i].fields
    <2>1. \A i \in DOMAIN heap : heap[i].kind = "call" => Renamed(c, heap[i].op) \notin DOMAIN heap[i].fields
      BY CaseIs
    <2>2. \A i \in DOMAIN heap : /\ r[i].kind = heap[i].kind /\ r[i].op = heap[i].op
                                 /\ DOMAIN r[i].fields = DOMAIN heap[i].fields
      BY DEF ReplacedAll, ReplacedIn, Object
    <2> HIDE DEF r, heap
    <2> QED BY <1>4, <2>1, <2>2
  <1>6. Substituted(c.tree, null) = Tree(r, to)
    BY DEF Substituted
  <1>7. Whole(c) = Tree(MadeHeap(c, r), Scrubbed(ScrubbedAll(c, r), to))
    BY DEF Whole, scrub, Substituted, Tree
  <1> HIDE DEF r, to
  <1>8. Atoms(Tree(r, to)) \subseteq Atoms(Tree(MadeHeap(c, r), Scrubbed(ScrubbedAll(c, r), to)))
    BY <1>1, <1>4, <1>5, AtomsKept
  <1> QED BY <1>6, <1>7, <1>8

\* Scrubbing part of the tree early makes no difference.
LEMMA EarlyIs ==
    ASSUME NEW c \in Cases, Replaceable(c), c.early,
           NEW e, e = scrub(c, c.tree, "early").out, e.root.kind = "dict"
    PROVE  /\ IsTree(Neg(e)) /\ Sound(c, Neg(e).heap)
           /\ Scrubbed(ScrubbedAll(c, Neg(e).heap), Neg(e).root) # Null
           /\ Substituted(Neg(e), c.null) = Neg(Whole(c))
           /\ Bare(scrub(c, Neg(Whole(c)), "whole").out) = Bare(Neg(Whole(c)))
           /\ Atoms(Whole(c)) \subseteq Atoms(scrub(c, Neg(Whole(c)), "whole").out)
  <1> DEFINE heap == c.tree.heap
             root == c.tree.root
             null == c.null
             r == ReplacedAll(heap, null)
             to == Replaced(root, null)
             h == MadeHeap(c, heap)
             out == Scrubbed(ScrubbedAll(c, heap), root)
             h2 == MadeHeap(c, r)
             out2 == Scrubbed(ScrubbedAll(c, r), to)
  <1>1. /\ IsTree(c.tree) /\ c.calls = "simple_op" /\ IsNull(null) /\ Sound(c, heap)
        /\ c.calls \in {"simple_op", "normal_op"}
    BY CaseIs
  <1>2. IsHeap(heap) /\ IsValue(root, heap, Len(heap) + 1)
    BY <1>1, TreeIs
  <1>3. Len(heap) \in Nat /\ DOMAIN heap = 1 .. Len(heap)
    BY <1>2, HeapIs
  <1>4. e = Tree(h, out) /\ e.root = out
    BY DEF scrub, Tree
  <1>5. Whole(c) = Tree(h2, out2)
    BY DEF Whole, scrub, Substituted, Tree
  <1>6. IsHeap(r) /\ IsValue(to, r, Len(r) + 1)
    <2> HIDE DEF heap, root, null
    <2>1. Len(heap) + 1 \in 1 .. Len(heap) + 1
      BY <1>3
    <2> QED BY <1>1, <1>2, <2>1, ReplacedHeap
  <1>7. h2 = ReplacedAll(h, null) /\ out2 = Replaced(out, null)
    <2> HIDE DEF heap, root, null
    <2> QED BY <1>1, <1>2, OutReplaced
  <1> HIDE DEF heap, root, null, r, to
  <1>8. IsHeap(h) /\ (\A at \in DOMAIN h : Tidy(h[at])) /\ IsValue(out, h, Len(h) + 1)
    BY <1>1, <1>2, MadeIsHeap
  <1>9. IsHeap(h2) /\ (\A at \in DOMAIN h2 : Tidy(h2[at])) /\ IsValue(out2, h2, Len(h2) + 1)
    BY <1>1, <1>6, MadeIsHeap
  <1> HIDE DEF h, out, h2, out2
  <1>10. out2 = out /\ out # Nothing
    <2>1. out.kind = "dict"
      BY <1>4
    <2> QED BY <1>7, <2>1 DEF Replaced, Null, Nothing, Value
  <1>11. Neg(e) = Neg(Tree(h, out)) /\ Neg(Whole(c)) = Neg(Tree(h2, out2))
    BY <1>4, <1>5
  <1> DEFINE one == Neg(e)
             two == Neg(Whole(c))
  <1> HIDE DEF one, two
  <1>12. /\ IsTree(one) /\ one.root = Ref("dict", Len(h) + 1)
         /\ DOMAIN one.heap = 1 .. Len(h) + 1 /\ Len(one.heap) = Len(h) + 1
         /\ one.heap[Len(h) + 1] = Dict(With(NoFields, "neg", out))
         /\ \A i \in DOMAIN one.heap : Tidy(one.heap[i])
    <2>1. one = Neg(Tree(h, out))
      BY <1>11 DEF one
    <2> QED BY <1>8, <1>10, <2>1, NegIs
  <1>13. IsTree(two) /\ \A i \in DOMAIN two.heap : Tidy(two.heap[i])
    <2>1. two = Neg(Tree(h2, out2))
      BY <1>11 DEF two
    <2> QED BY <1>9, <1>10, <2>1, NegIs
  <1>14. Sound(c, one.heap)
    <2>1. \A i \in DOMAIN one.heap : one.heap[i].kind # "call"
      BY <1>12 DEF Tidy
    <2> QED BY <2>1 DEF Sound, SoundCall
  <1>15. Scrubbed(ScrubbedAll(c, one.heap), one.root) # Null
    <2> DEFINE v == ScrubbedAll(c, one.heap)
               g == one.heap
               at == Len(h) + 1
    <2>1. IsHeap(g)
      BY <1>12, TreeIs
    <2>2. at \in DOMAIN g /\ g[at].kind = "dict"
      <3>1. Len(h) \in Nat
        BY <1>8, HeapIs
      <3> QED BY <1>12, <3>1 DEF Dict, Object
    <2>3. v = [i \in DOMAIN g |-> ScrubbedObject(c, v, g[i], i)]
      BY <2>1, ScrubbedAllIs
    <2>4. Scrubbed(v, one.root) = v[at]
      BY <1>12 DEF Scrubbed, IsRef, Kinds, Ref, Value
    <2> HIDE DEF v, g, at
    <2>5. v[at] = ScrubbedObject(c, v, g[at], at)
      BY <2>2, <2>3
    <2>6. ScrubbedObject(c, v, g[at], at) = Ref("dict", DictAt(at))
      BY <2>2 DEF ScrubbedObject
    <2>7. Ref("dict", DictAt(at)) # Null
      BY DEF Ref, Value, Null
    <2> QED BY <2>4, <2>5, <2>6, <2>7 DEF v
  <1>16. Substituted(one, null) = two
    <2>1. Substituted(Neg(Tree(h, out)), null) = Neg(Tree(ReplacedAll(h, null), Replaced(out, null)))
      BY <1>1, <1>8, NegReplaced
    <2> QED BY <1>7, <1>11, <2>1 DEF one, two
  <1>17. /\ Bare(scrub(c, two, "whole").out) = Bare(two)
         /\ Atoms(two) \subseteq Atoms(scrub(c, two, "whole").out)
    <2> DEFINE g == two.heap
               to2 == two.root
    <2>1. scrub(c, two, "whole").out = Tree(MadeHeap(c, g), Scrubbed(ScrubbedAll(c, g), to2))
      BY DEF scrub
    <2>2. two = Tree(g, to2)
      BY DEF two, Neg, Tree
    <2>3. IsHeap(g) /\ IsValue(to2, g, Len(g) + 1)
      BY <1>13, TreeIs
    <2>4. \A i \in DOMAIN g : Tidy(g[i]) /\ g[i].kind # "call"
      BY <1>13 DEF Tidy
    <2> HIDE DEF g, to2
    <2>5. Bare(Tree(MadeHeap(c, g), Scrubbed(ScrubbedAll(c, g), to2))) = Bare(Tree(g, to2))
      BY <1>1, <2>3, <2>4, TidyKept
    <2>6. Atoms(Tree(g, to2)) \subseteq Atoms(Tree(MadeHeap(c, g), Scrubbed(ScrubbedAll(c, g), to2)))
      BY <1>1, <2>3, <2>4, AtomsKept
    <2> QED BY <2>1, <2>2, <2>5, <2>6
  <1>18. Atoms(Whole(c)) \subseteq Atoms(two)
    <2>1. Atoms(Tree(h2, out2)) \subseteq Atoms(Neg(Tree(h2, out2)))
      BY <1>9, NegAtoms
    <2> QED BY <1>5, <1>11, <2>1 DEF two
  <1> QED BY <1>12, <1>14, <1>15, <1>16, <1>17, <1>18 DEF one, two, null

-----------------------------------------------------------------------------
(* What holds after each step.                                             *)

\* The tree that is scrubbed whole.
Scrubbable(c) ==
    IF c.early THEN Neg(scrub(c, c.tree, "early").out) ELSE c.tree

\* The locations of the whole walk are those of the tree that was scrubbed,
\* and the output is what it was scrubbed to, then with its nulls put in.
Followed ==
    /\ asked \in Cases
    /\ stage \in {"parsing", "parsed", "scrubbed", "done"}
    /\ stage = "parsing" => result = asked.tree /\ null_locations = {}
    /\ stage # "parsing" =>
         /\ result = Scrubbable(asked)
         /\ asked.early => scrub(asked, asked.tree, "early").out.root.kind = "dict"
    /\ {l \in null_locations : l.walk = "whole"}
         = IF stage \in {"scrubbed", "done"} THEN Locations(asked, result.heap, "whole") ELSE {}
    /\ stage = "scrubbed" => output = scrub(asked, result, "whole").out
    /\ stage = "done" =>
         output = Put(scrub(asked, result, "whole").out, "whole", null_locations, asked.null)

LEMMA LocationsWalk ==
    ASSUME NEW o, NEW heap, NEW walk
    PROVE  \A l \in Locations(o, heap, walk) : l.walk = walk
  BY DEF Locations, ListLocs, DictLocs, CallLocs, Slot

LEMMA AlwaysFollowed == Spec => []Followed
  <1>1. Init => Followed
    BY DEF Init, Followed
  <1>2. Followed /\ [Next]_vars => Followed'
    <2> SUFFICES ASSUME Followed, [Next]_vars PROVE Followed'
      OBVIOUS
    <2>1. CASE ScrubLimit
      <3>1. /\ asked' = asked /\ output' = output /\ stage = "parsing" /\ stage' = "parsed"
            /\ asked.early /\ result' = Neg(scrub(asked, asked.tree, "early").out)
            /\ scrub(asked, asked.tree, "early").out.root.kind = "dict"
            /\ null_locations' = Locations(asked, asked.tree.heap, "early")
        BY <2>1 DEF ScrubLimit, scrub
      <3>2. {l \in null_locations' : l.walk = "whole"} = {}
        BY <3>1, LocationsWalk
      <3>3. result' = Scrubbable(asked)
        BY <3>1 DEF Scrubbable
      <3> QED BY <3>1, <3>2, <3>3 DEF Followed
    <2>2. CASE ParseString
      BY <2>2 DEF ParseString, Followed, Scrubbable
    <2>3. CASE ScrubResult
      <3>1. /\ asked' = asked /\ result' = result /\ stage = "parsed" /\ stage' = "scrubbed"
            /\ output' = scrub(asked, result, "whole").out
            /\ null_locations' = null_locations \cup Locations(asked, result.heap, "whole")
        BY <2>3 DEF ScrubResult, scrub
      <3>2. {l \in null_locations : l.walk = "whole"} = {}
        BY <3>1 DEF Followed
      <3>3. {l \in null_locations' : l.walk = "whole"} = Locations(asked, result.heap, "whole")
        BY <3>1, <3>2, LocationsWalk
      <3> QED BY <3>1, <3>3 DEF Followed
    <2>4. CASE PutNulls
      BY <2>4 DEF PutNulls, Followed
    <2>5. CASE UNCHANGED vars
      BY <2>5 DEF vars, Followed
    <2> QED BY <2>1, <2>2, <2>3, <2>4, <2>5 DEF Next
  <1> QED BY <1>1, <1>2, PTL DEF Spec

\* At the end the output is what the tree with the value in place of NULL is
\* scrubbed to.
LEMMA DoneIs ==
    ASSUME Followed, stage = "done", Replaceable(asked)
    PROVE  output = IF asked.early THEN scrub(asked, Neg(Whole(asked)), "whole").out ELSE Whole(asked)
  <1>1. /\ asked \in Cases /\ result = Scrubbable(asked)
        /\ {l \in null_locations : l.walk = "whole"} = Locations(asked, result.heap, "whole")
        /\ output = Put(scrub(asked, result, "whole").out, "whole", null_locations, asked.null)
        /\ asked.early => scrub(asked, asked.tree, "early").out.root.kind = "dict"
    BY DEF Followed
  <1>2. asked.calls \in {"simple_op", "normal_op"} /\ IsNull(asked.null)
    BY <1>1, CaseIs
  <1>3. CASE asked.early
    <2>1. PICK e : e = scrub(asked, asked.tree, "early").out
      OBVIOUS
    <2>2. result = Neg(e)
      BY <1>1, <1>3, <2>1 DEF Scrubbable
    <2>3. /\ IsTree(Neg(e)) /\ Sound(asked, Neg(e).heap)
          /\ Scrubbed(ScrubbedAll(asked, Neg(e).heap), Neg(e).root) # Null
          /\ Substituted(Neg(e), asked.null) = Neg(Whole(asked))
      BY <1>1, <1>3, <2>1, EarlyIs
    <2>4. output = scrub(asked, Substituted(result, asked.null), "whole").out
      BY <1>1, <1>2, <2>2, <2>3, PutScrubbed
    <2> QED BY <1>3, <2>2, <2>3, <2>4
  <1>4. CASE ~asked.early
    <2>1. result = asked.tree
      BY <1>1, <1>4 DEF Scrubbable
    <2>2. /\ IsTree(asked.tree) /\ Sound(asked, asked.tree.heap)
          /\ Scrubbed(ScrubbedAll(asked, asked.tree.heap), asked.tree.root) # Null
      BY <1>1, CaseIs
    <2>3. output = scrub(asked, Substituted(asked.tree, asked.null), "whole").out
      BY <1>1, <1>2, <2>1, <2>2, PutScrubbed
    <2> QED BY <1>4, <2>3 DEF Whole
  <1> QED BY <1>3, <1>4

\* Wherever NULL can be replaced, the tree is the one of the SQL with the
\* caller's value in place of NULL: _parse() writes null at all locations and
\* nowhere else, whether or not windows.py has scrubbed part of it before.
THEOREM NullsAlwaysReplaced == Spec => [](Replaceable(asked) => NullsReplaced)
  <1>1. Followed => (Replaceable(asked) => NullsReplaced)
    <2> SUFFICES ASSUME Followed, Replaceable(asked), stage = "done"
                 PROVE  Bare(output) = Bare(Expected)
      BY DEF NullsReplaced
    <2>1. asked \in Cases /\ (asked.early => scrub(asked, asked.tree, "early").out.root.kind = "dict")
      BY DEF Followed
    <2>2. Expected = IF asked.early THEN Neg(Whole(asked)) ELSE Whole(asked)
      BY DEF Expected, Whole
    <2>3. output = IF asked.early THEN scrub(asked, Neg(Whole(asked)), "whole").out ELSE Whole(asked)
      BY DoneIs
    <2>4. asked.early =>
            Bare(scrub(asked, Neg(Whole(asked)), "whole").out) = Bare(Neg(Whole(asked)))
      BY <2>1, EarlyIs
    <2> QED BY <2>2, <2>3, <2>4
  <1> QED BY <1>1, AlwaysFollowed, PTL

\* And every atom of the SQL is in it, the values that are put in included.
THEOREM AtomsAlwaysKept == Spec => [](Replaceable(asked) => NothingLost)
  <1>1. Followed => (Replaceable(asked) => NothingLost)
    <2> SUFFICES ASSUME Followed, Replaceable(asked), stage = "done"
                 PROVE  Atoms(Substituted(asked.tree, asked.null)) \subseteq Atoms(output)
      BY DEF NothingLost
    <2>1. asked \in Cases /\ (asked.early => scrub(asked, asked.tree, "early").out.root.kind = "dict")
      BY DEF Followed
    <2>2. output = IF asked.early THEN scrub(asked, Neg(Whole(asked)), "whole").out ELSE Whole(asked)
      BY DoneIs
    <2>3. Atoms(Substituted(asked.tree, asked.null)) \subseteq Atoms(Whole(asked))
      BY <2>1, WholeAtoms
    <2>4. asked.early => Atoms(Whole(asked)) \subseteq Atoms(scrub(asked, Neg(Whole(asked)), "whole").out)
      BY <2>1, EarlyIs
    <2> QED BY <2>2, <2>3, <2>4
  <1> QED BY <1>1, AlwaysFollowed, PTL
=============================================================================
