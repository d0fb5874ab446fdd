----------------------- MODULE ParseRefinementProofs -----------------------
(***************************************************************************)
(* ParseSession implements ParseService: the proof that the locked, lazily *)
(* built, globally configured session answers each call as the service     *)
(* without any of these does.                                              *)
(***************************************************************************)
EXTENDS ParseSessionProofs, NatSetInduction

-----------------------------------------------------------------------------
(* What the service renders.                                               *)

\* The rendering of a script is that of all its blocks but the last,
\* followed by that of the last.
LEMMA RenderingSteps ==
    ASSUME NEW r, r.script \in Seq(Block)
    PROVE  /\ Rendering(r)[0] = <<>>
           /\ \A n \in 1 .. Len(r.script) :
                 Rendering(r)[n] = Rendering(r)[n - 1] \o RenderBlock(r, r.script[n])
  <1> DEFINE Part(k) == RenderBlock(r, r.script[k])
             Is(f, n) == f = [k \in 0 .. n |-> IF k = 0 THEN <<>> ELSE f[k - 1] \o Part(k)]
             last == Len(r.script)
             T == {n \in 0 .. last : \E f : Is(f, n)}
  <1>1. last \in Nat
    OBVIOUS
  <1>2. 0 \in T
    <2>1. Is([k \in 0 .. 0 |-> <<>>], 0)
      OBVIOUS
    <2> HIDE DEF Is
    <2> HIDE DEF Is
    <2> QED BY <1>1, <2>1
  <1>3. ASSUME NEW n \in 0 .. last, n \in T, n < last PROVE n + 1 \in T
    <2>1. PICK f : Is(f, n)
      BY <1>3
    <2> DEFINE g == [k \in 0 .. n + 1 |-> IF k = n + 1 THEN f[n] \o Part(n + 1) ELSE f[k]]
    <2> HIDE DEF Part
    <2>2. ASSUME NEW k \in 0 .. n + 1
          PROVE  g[k] = IF k = 0 THEN <<>> ELSE g[k - 1] \o Part(k)
      <3>1. CASE k = n + 1
        <4>1. k # 0 /\ k - 1 = n /\ g[n] = f[n]
          BY <3>1
        <4> QED BY <3>1, <4>1
      <3>2. CASE k \in 1 .. n
        <4>1. k # 0 /\ k \in 0 .. n /\ k # n + 1 /\ k - 1 # n + 1 /\ k - 1 \in 0 .. n + 1
          BY <3>2
        <4>2. f[k] = f[k - 1] \o Part(k)
          BY <2>1, <4>1
        <4>3. g[k] = f[k] /\ g[k - 1] = f[k - 1]
          BY <4>1
        <4> QED BY <4>1, <4>2, <4>3
      <3>3. CASE k = 0
        BY <2>1, <3>3
      <3> QED BY <3>1, <3>2, <3>3
    <2>3. Is(g, n + 1)
      <3> DEFINE h == [k \in 0 .. n + 1 |-> IF k = 0 THEN <<>> ELSE g[k - 1] \o Part(k)]
      <3>1. \A k \in 0 .. n + 1 : g[k] = h[k]
        BY <2>2
      <3> QED BY <3>1
    <2> HIDE DEF Is, g
    <2> QED BY <1>1, <1>3, <2>3
  <1>4. \E f : Is(f, last)
    <2>1. 0 .. last \subseteq T
      <3> HIDE DEF T, last
      <3> QED BY <1>1, <1>2, <1>3, UpToInduction
    <2>2. last \in T
      <3> HIDE DEF T, last
      <3> QED BY <1>1, <2>1
    <2> HIDE DEF Is
    <2> QED BY <2>2
  <1>5. Is(Rendering(r), last)
    BY <1>4 DEF Rendering
  <1>6. \A k \in 0 .. last :
           Rendering(r)[k] = IF k = 0 THEN <<>> ELSE Rendering(r)[k - 1] \o Part(k)
    <2> HIDE DEF Part, last
    <2> QED BY <1>5
  <1>7. 0 \in 0 .. last /\ \A k \in 1 .. last : k \in 0 .. last /\ k # 0
    <2> HIDE DEF last
    <2> QED BY <1>1
  <1> QED BY <1>6, <1>7, Zenon

\* A tree without identities has the length of the tree.
LEMMA BareShape ==
    ASSUME NEW s \in Seq(Items)
    PROVE  /\ DOMAIN Bare(s) = 1 .. Len(s)
           /\ Len(Bare(s)) = Len(s)
           /\ \A i \in 1 .. Len(s) : Bare(s)[i] = Seen(s[i])
  <1>1. DOMAIN s = 1 .. Len(s) /\ Len(s) \in Nat
    OBVIOUS
  <1>2. Bare(s) = [i \in 1 .. Len(s) |-> Seen(s[i])]
    BY <1>1 DEF Bare
  <1>3. \A f : f = [i \in 1 .. Len(s) |-> Seen(s[i])] => Len(f) = Len(s)
    BY <1>1
  <1> QED BY <1>1, <1>2, <1>3

\* The identity of a node is all that its caller does not see.
LEMMA SeenItem ==
    ASSUME NEW at
    PROVE  Seen(Item(at, Plain)) = Plain
  BY DEF Seen, Item, Plain

\* A value that is put into a node leaves how the node was rendered.
LEMMA SeenValue ==
    ASSUME NEW x \in Items, NEW v
    PROVE  LET y == [x EXCEPT !.value = v] IN
           /\ y.at = x.at
           /\ Seen(y) = [by |-> Seen(x).by, names |-> Seen(x).names, value |-> v]
  BY DEF Seen, Items

\* A function on 1 .. n is a sequence of length n.
LEMMA FunctionSeq ==
    ASSUME NEW S, NEW n \in Nat, NEW f \in [1 .. n -> S]
    PROVE  f \in Seq(S) /\ Len(f) = n /\ DOMAIN f = 1 .. n
  OBVIOUS

\* s has the elements of a and then those of b.
Joined(s, a, b) ==
    /\ Len(s) = Len(a) + Len(b)
    /\ \A i \in 1 .. Len(a) : s[i] = a[i]
    /\ \A j \in 1 .. Len(b) : s[Len(a) + j] = b[j]
    /\ \A i \in 1 .. Len(s) :
          i \in 1 .. Len(a) \/ \E j \in 1 .. Len(b) : i = Len(a) + j

\* Where the elements of a concatenation come from.
LEMMA ConcatParts ==
    ASSUME NEW S, NEW a \in Seq(S), NEW b \in Seq(S)
    PROVE  a \o b \in Seq(S) /\ Joined(a \o b, a, b)
  <1>1. Len(a) \in Nat /\ Len(b) \in Nat
    OBVIOUS
  <1>2. \A i \in 1 .. Len(a) + Len(b) :
           i \in 1 .. Len(a) \/ (i - Len(a) \in 1 .. Len(b) /\ i = Len(a) + (i - Len(a)))
    BY ONLY <1>1
  <1>3. a \o b \in Seq(S) /\ Len(a \o b) = Len(a) + Len(b)
    OBVIOUS
  <1>4. \A i \in 1 .. Len(a) : (a \o b)[i] = a[i]
    OBVIOUS
  <1>5. \A j \in 1 .. Len(b) : (a \o b)[Len(a) + j] = b[j]
    OBVIOUS
  <1>6. \A i \in 1 .. Len(a \o b) : i \in 1 .. Len(a) \/ \E j \in 1 .. Len(b) : i = Len(a) + j
    BY <1>2, <1>3, Zenon
  <1> QED BY <1>3, <1>4, <1>5, <1>6, Zenon DEF Joined

-----------------------------------------------------------------------------
(* What is rendered so far: the slots that a step leaves alone.            *)

\* A call that is not at work has rendered nothing yet.
LEMMA OutsideSoFar ==
    ASSUME NEW d \in Slots, pc'[d] \notin Working, hand'[d] = None
    PROVE  SoFar(d)'
  BY DEF SoFar, BlocksSoFar, BlockSoFar, HandSoFar, Busy, Working

LEMMA SameSoFar ==
    ASSUME NEW d \in Slots, SoFar(d), SameLocals(d), UNCHANGED null_locations
    PROVE  SoFar(d)'
  <1> USE DEF SameLocals
  <1>1. BlocksSoFar(d)'
    BY DEF SoFar, BlocksSoFar, BlocksDone, Busy
  <1>2. Nodes(d)' = Nodes(d) /\ (Busy(d)' <=> Busy(d))
    BY DEF Nodes, Busy
  <1>a. \A i : At(d, i)' = At(d, i)
    BY DEF At
  <1>3. \A i : NodeSoFar(d, i)' <=> NodeSoFar(d, i)
    BY <1>2, <1>a DEF NodeSoFar, Rendered
  <1>4. BlockSoFar(d)' /\ HandSoFar(d)'
    BY <1>2, <1>3, <1>a DEF SoFar, BlockSoFar, HandSoFar, NextNode
  <1> QED BY <1>1, <1>4 DEF SoFar

\* A slot other than the one that moves is not at work, or nothing moves.
LEMMA OtherSoFar ==
    ASSUME SessionInv, NEW c \in Slots, NEW d \in Slots, c # d, Step(c), SoFar(d)
    PROVE  SoFar(d)'
  <1>1. SameLocals(d) /\ CallInv(d) /\ CallInv(c)
    BY OtherLocals DEF SessionInv
  <1>2. CASE pc[d] \notin Working
    <2>1. hand[d] = None
      BY <1>1, <1>2, HandWorking
    <2> QED BY <1>1, <1>2, <2>1, OutsideSoFar DEF SameLocals
  <1>3. CASE pc[d] \in Working
    <2>1. parse_locker = d /\ pc[c] \notin Working
      BY <1>3 DEF SessionInv, LockDiscipline
    <2>2. ~Acquire(c)
      BY <2>1, SessionAssumption DEF Acquire, Available, Slots
    <2> QED BY <1>1, <2>1, <2>2, HandWorking
        DEF Step, BadColumns, Hit, Build, BuildFails, BeginLine, VisitOther,
            VisitNull, EnterCallback, CallbackReturns, CallbackRaises, ParseFails,
            ParseString, EndLine, Return, Walking, Working
  <1> QED BY <1>2, <1>3

LEMMA BeginSoFar ==
    ASSUME SessionInv, NEW c \in Slots, NEW r \in Requests, Begin(c, r),
           NEW d \in Slots, SoFar(d)
    PROVE  SoFar(d)'
  <1> USE DEF SessionInv, TypeInv, TypeOK
  <1>1. CASE d # c
    <2>1. SameLocals(d) /\ UNCHANGED null_locations
      BY <1>1 DEF SameLocals, Begin, options
    <2> QED BY <2>1, SameSoFar
  <1>2. CASE d = c
    <2>1. pc'[c] = "acquire" /\ hand'[c] = hand[c] /\ pc[c] = "idle" /\ CallInv(c)
      BY DEF Begin
    <2>2. hand[c] = None
      BY <2>1, HandWorking DEF Working
    <2> QED BY <1>2, <2>1, <2>2, OutsideSoFar DEF Working
  <1> QED BY <1>1, <1>2

-----------------------------------------------------------------------------
(* What is rendered so far: between the blocks.                            *)

LEMMA LeaveSoFar ==
    ASSUME SessionInv, NEW c \in Slots, NEW a, Leave(c, a)
    PROVE  SoFar(c)'
  <1>1. pc'[c] = "idle" /\ hand'[c] = None
    BY DEF SessionInv, TypeInv, TypeOK, Leave
  <1> QED BY <1>1, OutsideSoFar DEF Working

LEMMA AcquireSoFar ==
    ASSUME SessionInv, NEW c \in Slots, Acquire(c)
    PROVE  SoFar(c)'
  <1> USE DEF SessionInv, TypeInv, TypeOK
  <1>1. pc[c] = "acquire" /\ pc'[c] = "lookup" /\ line'[c] = 0 /\ acc'[c] = <<>>
        /\ hand'[c] = hand[c] /\ req'[c] = req[c] /\ CallInv(c)
    BY DEF Acquire
  <1>2. hand[c] = None
    BY <1>1, HandWorking DEF Working
  <1>3. req[c].script \in Seq(Block)
    BY <1>1, RequestTypes DEF HasRequest
  <1>4. Rendering(req[c])[0] = <<>>
    BY <1>3, RenderingSteps, Zenon
  <1>x. Len(req[c].script) \in Nat
    BY <1>3
  <1>5. Bare(<<>>) = <<>>
    BY DEF Bare
  <1>6. BlocksDone(c)' = 0
    BY <1>1 DEF BlocksDone, Busy
  <1> QED BY <1>1, <1>2, <1>4, <1>x, <1>5, <1>6
          DEF SoFar, BlocksSoFar, BlockSoFar, HandSoFar, Busy

LEMMA LookupSoFar ==
    ASSUME SessionInv, NEW c \in Slots, SoFar(c), Hit(c) \/ Build(c)
    PROVE  SoFar(c)'
  <1> USE DEF SessionInv, TypeInv, TypeOK
  <1>1. pc[c] = "lookup" /\ pc'[c] = "next" /\ line'[c] = line[c] /\ acc'[c] = acc[c]
        /\ hand'[c] = hand[c] /\ req'[c] = req[c] /\ CallInv(c)
    BY DEF Hit, Build
  <1>2. hand[c] = None
    BY <1>1 DEF CallInv, OwnHand, Busy
  <1>3. BlocksDone(c)' = BlocksDone(c)
    BY <1>1 DEF BlocksDone, Busy
  <1> QED BY <1>1, <1>2, <1>3
          DEF SoFar, BlocksSoFar, BlockSoFar, HandSoFar, Busy, Working

LEMMA BeginLineSoFar ==
    ASSUME SessionInv, NEW c \in Slots, SoFar(c), BeginLine(c)
    PROVE  SoFar(c)'
  <1> DEFINE n == line[c] + 1
             nodes == req[c].script[n].nodes
             items == [i \in DOMAIN nodes |-> Item(<<c, serial[c], n, i>>, Plain)]
  <1>1. pc[c] = "next" /\ pc'[c] = "parsing" /\ acc'[c] = acc[c] /\ hand'[c] = hand[c]
        /\ req'[c] = req[c] /\ line'[c] = n /\ pos'[c] = 0 /\ tree'[c] = items
        /\ null_locations' = {} /\ line[c] < Len(req[c].script) /\ line[c] \in Nat
        /\ CallInv(c)
    BY DEF BeginLine, NewLocations, SessionInv, TypeInv, TypeOK
  <1>2. hand[c] = None
    BY <1>1 DEF CallInv, OwnHand, Busy
  <1>3. BlocksDone(c)' = BlocksDone(c)
    BY <1>1 DEF BlocksDone, Busy
  <1>4. BlocksSoFar(c)'
    BY <1>1, <1>3 DEF SoFar, BlocksSoFar, Working
  <1>5. ASSUME NEW i \in DOMAIN nodes PROVE NodeSoFar(c, i)'
    <2>1. Nodes(c)' = nodes
      BY <1>1 DEF Nodes
    <2>2. tree'[c][i] = Item(<<c, serial[c], n, i>>, Plain)
      BY <1>1
    <2>3. Seen(tree'[c][i]) = Plain
      BY <2>2, SeenItem
    <2>4. nodes \in Seq(Node)
      <3>1. req[c].script \in Seq(Block) /\ n \in 1 .. Len(req[c].script)
        BY <1>1, RequestTypes, SMTT(30) DEF SessionInv, TypeInv, TypeOK, HasRequest
      <3>2. req[c].script[n] \in Block
        BY <3>1
      <3> QED BY <3>2 DEF Block
    <2>5. i \in Nat /\ ~(i <= 0)
      <3> HIDE DEF nodes
      <3> QED BY <2>4
    <2>6. ~Rendered(c, i)'
      BY <1>1, <2>5 DEF Rendered
    <2> QED BY <1>1, <2>3, <2>6 DEF NodeSoFar
  <1>6. Nodes(c)' = nodes
    BY <1>1 DEF Nodes
  <1> HIDE DEF nodes
  <1>7. BlockSoFar(c)'
    BY <1>1, <1>5, <1>6 DEF BlockSoFar
  <1> QED BY <1>1, <1>2, <1>4, <1>7 DEF SoFar, HandSoFar

-----------------------------------------------------------------------------
(* What is rendered so far: within a block.                                *)

\* A step within a block leaves the blocks before it alone.
LEMMA BlocksStay ==
    ASSUME NEW c \in Slots, SoFar(c), Busy(c), Busy(c)', pc[c] \in Working,
           req'[c] = req[c], line'[c] = line[c], acc'[c] = acc[c]
    PROVE  BlocksSoFar(c)' /\ Nodes(c)' = Nodes(c)
  BY DEF SoFar, BlocksSoFar, BlocksDone, Busy, Nodes

\* A step within a block moves on by a node at most, and leaves the nodes
\* that it does not visit alone.
LEMMA NodeStays ==
    ASSUME NEW c \in Slots, NEW i \in Nat, NodeSoFar(c, i), pos[c] \in Nat,
           pc'[c] = pc[c], req'[c] = req[c], line'[c] = line[c],
           serial'[c] = serial[c], null_locations \subseteq null_locations',
           tree'[c][i] = tree[c][i], pos'[c] = pos[c] + 1, i # pos[c] + 1
    PROVE  NodeSoFar(c, i)'
  <1>1. Nodes(c)' = Nodes(c)
    BY DEF Nodes
  <1>2. i <= pos'[c] <=> i <= pos[c]
    OBVIOUS
  <1>3. Rendered(c, i)' <=> Rendered(c, i)
    BY <1>1, <1>2 DEF Rendered
  <1>4. At(c, i)' = At(c, i)
    BY DEF At
  <1> QED BY <1>1, <1>2, <1>3, <1>4 DEF NodeSoFar

\* The walk moves on to the next node, which is as it should be then.
LEMMA VisitSoFar ==
    ASSUME SessionInv, NEW c \in Slots, SoFar(c), Busy(c), hand'[c] = None,
           pc'[c] = pc[c], req'[c] = req[c], line'[c] = line[c], acc'[c] = acc[c],
           serial'[c] = serial[c], null_locations \subseteq null_locations',
           NEW k, k = pos[c] + 1, k \in DOMAIN Nodes(c), pos'[c] = k,
           \A i \in DOMAIN Nodes(c) : i # k => tree'[c][i] = tree[c][i],
           NodeSoFar(c, k)',
           \A l \in null_locations' :
              \/ l \in null_locations
              \/ l[4] = 0
              \/ /\ l[4] = k
                 /\ Nodes(c)[k].kind \in {"null", "call_null"}
                 /\ ~Leaks(req[c], Nodes(c)[k])
    PROVE  SoFar(c)'
  <1>1. BlocksSoFar(c)' /\ Nodes(c)' = Nodes(c)
    BY BlocksStay, BusyFacts DEF Busy
  <1>2. Nodes(c) \in Seq(Node) /\ pos[c] \in Nat
    BY BusyFacts
  <1>3. ASSUME NEW i \in DOMAIN Nodes(c) PROVE NodeSoFar(c, i)'
    <2>1. i \in Nat /\ NodeSoFar(c, i)
      BY <1>2 DEF SoFar, BlockSoFar
    <2> QED BY <1>2, <2>1, NodeStays
  <1>4. BlockSoFar(c)'
    BY <1>1, <1>3 DEF SoFar, BlockSoFar, Busy
  <1> QED BY <1>1, <1>4 DEF SoFar, HandSoFar

LEMMA VisitOtherSoFar ==
    ASSUME SessionInv, NEW c \in Slots, SoFar(c), VisitOther(c)
    PROVE  SoFar(c)'
  <1>0. PICK k : k = pos[c] + 1
    OBVIOUS
  <1>1. Busy(c) /\ hand[c] = None /\ pos[c] < Len(Nodes(c))
        /\ ~MeetsCall(c) /\ ~MeetsNull(c)
    BY DEF VisitOther, Walking, Busy
  <1>2. pc'[c] = pc[c] /\ req'[c] = req[c] /\ acc'[c] = acc[c] /\ tree'[c] = tree[c]
        /\ hand'[c] = hand[c] /\ line'[c] = line[c] /\ pos'[c] = k
        /\ null_locations' = null_locations /\ serial'[c] = serial[c]
    BY <1>0 DEF VisitOther, SessionInv, TypeInv, TypeOK, options
  <1>3. Nodes(c) \in Seq(Node) /\ pos[c] \in Nat /\ k \in DOMAIN Nodes(c)
    BY <1>0, <1>1, BusyFacts
  <1>4. NodeSoFar(c, k) /\ Nodes(c)[k] = NextNode(c) /\ Nodes(c)' = Nodes(c)
    BY <1>0, <1>1, <1>2, <1>3 DEF SoFar, BlockSoFar, NextNode, Nodes
  <1>5. ~(k <= pos[c]) /\ k <= pos'[c]
    BY <1>0, <1>2, <1>3
  <1>a. NextNode(c).early \in BOOLEAN
    BY <1>1, BusyFacts DEF Node
  <1>6. IsCall(NextNode(c)) => (Rendered(c, k)' <=> Rendered(c, k))
    BY <1>1, <1>2, <1>4, <1>5, <1>a DEF Rendered, MeetsCall, Busy
  <1>7. NextNode(c).kind \in {"null", "call_null"} => pc[c] # "scrubbing"
    BY <1>1, <1>a DEF MeetsCall, MeetsNull, IsCall, Busy
  <1>8. NodeSoFar(c, k)'
    BY <1>2, <1>4, <1>6, <1>7 DEF NodeSoFar, IsCall
  <1> QED BY <1>0, <1>1, <1>2, <1>3, <1>8, VisitSoFar

LEMMA VisitNullSoFar ==
    ASSUME SessionInv, NEW c \in Slots, SoFar(c), VisitNull(c)
    PROVE  SoFar(c)'
  <1>0. PICK k : k = pos[c] + 1
    OBVIOUS
  <1> DEFINE x == [tree[c][k] EXCEPT !.value = SqlNull]
  <1>1. Busy(c) /\ hand[c] = None /\ pos[c] < Len(Nodes(c))
        /\ MeetsNull(c) /\ CallInv(c)
    BY DEF VisitNull, Walking, Busy, SessionInv
  <1>2. pc'[c] = pc[c] /\ req'[c] = req[c] /\ acc'[c] = acc[c]
        /\ tree'[c] = [tree[c] EXCEPT ![k] = x] /\ serial'[c] = serial[c]
        /\ hand'[c] = hand[c] /\ line'[c] = line[c] /\ pos'[c] = k
        /\ null_locations' = null_locations \cup {At(c, Place(c))}
    BY <1>0 DEF VisitNull, SessionInv, TypeInv, TypeOK
  <1>3. Nodes(c) \in Seq(Node) /\ pos[c] \in Nat /\ k \in DOMAIN Nodes(c)
        /\ DOMAIN tree[c] = DOMAIN Nodes(c) /\ tree[c] \in Seq(Items)
    BY <1>0, <1>1, BusyFacts
  <1>4. Nodes(c)[k] = NextNode(c) /\ Nodes(c)' = Nodes(c) /\ At(c, k)' = At(c, k)
    BY <1>0, <1>2 DEF NextNode, Nodes, At
  <1>5. tree'[c][k] = x /\ \A i \in DOMAIN Nodes(c) : i # k => tree'[c][i] = tree[c][i]
    <2> HIDE DEF x
    <2> QED BY <1>2, <1>3
  <1>6. /\ Seen(x) = [by |-> Seen(tree[c][k]).by, names |-> Seen(tree[c][k]).names,
                       value |-> SqlNull]
        /\ NodeSoFar(c, k)
    <2>1. tree[c][k] \in Items
      BY <1>3
    <2> QED BY <1>1, <1>3, <2>1, SeenValue DEF SoFar, BlockSoFar
  <1>7. At(c, Place(c))[4] \in {0, k} /\ (pc[c] = "scrubbing" => Place(c) = k)
    BY <1>0 DEF At, Place
  <1> HIDE DEF x
  <1>8. NodeSoFar(c, k)'
    <2>1. CASE Nodes(c)[k].kind = "null"
      BY <1>4, <1>5, <1>6, <2>1 DEF NodeSoFar, Null, Plain
    <2>2. CASE Nodes(c)[k].kind = "call_null" /\ NextNode(c).early /\ pc[c] = "scrubbing"
      <3>1. Rendered(c, k) /\ Rendered(c, k)'
        BY <1>2, <1>4, <2>2 DEF Rendered
      <3>2. Seen(tree[c][k]) = CallNull(Op(req[c]), Names(req[c]), SqlNull)
            /\ Op(req[c]) \notin Raising
        BY <1>6, <2>2, <3>1 DEF NodeSoFar
      <3>3. Seen(x) = CallNull(Op(req[c]), Names(req[c]), SqlNull)
        BY <1>6, <3>2 DEF CallNull
      <3>4. At(c, k) \in null_locations'
        BY <1>2, <1>7, <2>2
      <3> QED BY <1>2, <1>4, <1>5, <2>2, <3>1, <3>2, <3>3, <3>4 DEF NodeSoFar
    <2> QED BY <1>1, <1>4, <2>1, <2>2 DEF MeetsNull
  <1>9. NextNode(c).kind \in {"null", "call_null"} /\ ~Leaks(req[c], NextNode(c))
    BY <1>1 DEF MeetsNull, Leaks
  <1> QED BY <1>0, <1>1, <1>2, <1>3, <1>4, <1>5, <1>7, <1>8, <1>9, VisitSoFar

LEMMA CallbackReturnsSoFar ==
    ASSUME SessionInv, NEW c \in Slots, SoFar(c), CallbackReturns(c)
    PROVE  SoFar(c)'
  <1>0. PICK k : k = pos[c] + 1
    OBVIOUS
  <1>1. Busy(c) /\ hand[c] # None /\ pos[c] < Len(Nodes(c)) /\ IsCall(NextNode(c))
        /\ hand[c].value = Argument(NextNode(c)) /\ hand[c].by \notin Raising
    BY DEF CallbackReturns, SessionInv, CallInv, OwnHand
  <1>2. pc'[c] = pc[c] /\ req'[c] = req[c] /\ acc'[c] = acc[c]
        /\ tree'[c] = [tree[c] EXCEPT ![k] = hand[c]] /\ serial'[c] = serial[c]
        /\ hand'[c] = None /\ line'[c] = line[c] /\ pos'[c] = k
        /\ null_locations' = null_locations
    BY <1>0 DEF CallbackReturns, SessionInv, TypeInv, TypeOK, options
  <1>3. Nodes(c) \in Seq(Node) /\ pos[c] \in Nat /\ k \in DOMAIN Nodes(c)
        /\ DOMAIN tree[c] = DOMAIN Nodes(c)
    BY <1>0, <1>1, BusyFacts
  <1>4. Nodes(c)[k] = NextNode(c) /\ Nodes(c)' = Nodes(c) /\ At(c, k)' = At(c, k)
    BY <1>0, <1>2 DEF NextNode, Nodes, At
  <1>5. tree'[c][k] = hand[c]
        /\ \A i \in DOMAIN Nodes(c) : i # k => tree'[c][i] = tree[c][i]
    BY <1>2, <1>3
  <1>6. hand[c].by = Op(req[c]) /\ hand[c].names = Names(req[c])
        /\ (pc[c] = "parsing" => NextNode(c).early)
        /\ (pc[c] = "scrubbing" /\ NextNode(c).kind = "call_null" =>
               At(c, k) \in null_locations \/ Leaks(req[c], NextNode(c)))
    BY <1>0, <1>1 DEF SoFar, HandSoFar
  <1>7. /\ NextNode(c).kind = "call" => Seen(hand[c]) = Call(Op(req[c]), Names(req[c]))
        /\ NextNode(c).kind = "call_null" =>
              Seen(hand[c]) = CallNull(Op(req[c]), Names(req[c]), SqlNull)
    BY <1>1, <1>6 DEF Seen, Call, CallNull, Argument
  <1>8. Rendered(c, k)'
    <2>1. k <= pos'[c]
      BY <1>0, <1>2, <1>3
    <2> QED BY <1>1, <1>2, <1>4, <1>6, <2>1 DEF Rendered, Busy
  <1>9. NodeSoFar(c, k)'
    <2>1. Op(req[c]) \notin Raising /\ Nodes(c)[k].kind \in {"call", "call_null"}
      BY <1>1, <1>4, <1>6 DEF IsCall
    <2> QED BY <1>2, <1>4, <1>5, <1>6, <1>7, <1>8, <2>1 DEF NodeSoFar
  <1> QED BY <1>0, <1>1, <1>2, <1>3, <1>5, <1>9, VisitSoFar

LEMMA EnterCallbackSoFar ==
    ASSUME SessionInv, NEW c \in Slots, SoFar(c), EnterCallback(c)
    PROVE  SoFar(c)'
  <1> DEFINE k == pos[c] + 1
             x == Item(At(c, k), CallNull(scrub_op, fmap, Argument(NextNode(c))))
  <1>1. Busy(c) /\ CallInv(c) /\ MeetsCall(c) /\ pos[c] < Len(Nodes(c))
        /\ NextNode(c) \in Node /\ Nodes(c) \in Seq(Node) /\ k \in DOMAIN Nodes(c)
    <2>1. Busy(c) /\ CallInv(c) /\ MeetsCall(c) /\ pos[c] < Len(Nodes(c))
      BY DEF EnterCallback, Walking, Busy, SessionInv
    <2> QED BY <2>1, BusyFacts
  <1>2. pc'[c] = pc[c] /\ req'[c] = req[c] /\ acc'[c] = acc[c] /\ tree'[c] = tree[c]
        /\ hand'[c] = x /\ line'[c] = line[c] /\ pos'[c] = pos[c]
        /\ serial'[c] = serial[c]
    BY DEF EnterCallback, SessionInv, TypeInv, TypeOK
  <1>a. /\ null_locations \subseteq null_locations'
        /\ \A l \in null_locations' :
              \/ l \in null_locations
              \/ NextNode(c).kind = "call_null" /\ l = At(c, KwargsPlace(c))
        /\ NextNode(c).kind = "call_null" => At(c, KwargsPlace(c)) \in null_locations'
    BY DEF EnterCallback
  <1>b. \A i : At(c, i)[4] = i /\ At(c, i)' = At(c, i)
    BY <1>2 DEF At
  <1>c. scrub_op = Op(req[c]) /\ fmap = Names(req[c])
    BY <1>1 DEF CallInv, OwnGlobals
  <1>d. /\ KwargsPlace(c) \in {0, k}
        /\ KwargsPlace(c) # 0 => ~Leaks(req[c], NextNode(c))
        /\ pc[c] = "scrubbing" /\ NextNode(c).kind = "call_null" =>
              KwargsPlace(c) = k \/ Leaks(req[c], NextNode(c))
    BY <1>1, <1>c DEF KwargsPlace, Leaks, MeetsCall
  <1>3. BlocksSoFar(c)' /\ Nodes(c)' = Nodes(c)
    BY <1>1, <1>2, BlocksStay, BusyFacts DEF Busy
  <1>4. \A i : NodeSoFar(c, i) => NodeSoFar(c, i)'
    BY <1>2, <1>3, <1>a, <1>b DEF NodeSoFar, Rendered
  <1>7. NextNode(c)' = NextNode(c) /\ NextNode(c) = Nodes(c)[k]
    BY <1>2, <1>3 DEF NextNode
  <1>5. BlockSoFar(c)'
    <2>1. ASSUME NEW l \in null_locations', l[4] # 0
          PROVE  /\ l[4] \in DOMAIN Nodes(c)
                 /\ Nodes(c)[l[4]].kind \in {"null", "call_null"}
                 /\ ~Leaks(req[c], Nodes(c)[l[4]])
      <3>1. CASE l \in null_locations
        BY <1>1, <2>1, <3>1 DEF SoFar, BlockSoFar
      <3>2. CASE NextNode(c).kind = "call_null" /\ l = At(c, KwargsPlace(c))
        <4>1. l[4] = k
          BY <1>b, <1>d, <2>1, <3>2
        <4> HIDE DEF k
        <4> QED BY <1>1, <1>7, <1>b, <1>d, <2>1, <3>2, <4>1
      <3> QED BY <1>a, <3>1, <3>2
    <2>2. Busy(c)' /\ \A i \in DOMAIN Nodes(c) : NodeSoFar(c, i)'
      BY <1>1, <1>2, <1>4 DEF SoFar, BlockSoFar, Busy
    <2>3. pc'[c] = "scrubbing" => req'[c].script[line'[c]].parses
      BY <1>1, <1>2 DEF SoFar, BlockSoFar
    <2> QED BY <1>2, <1>3, <2>1, <2>2, <2>3 DEF BlockSoFar
  <1>6. x.by = Op(req[c]) /\ x.names = Names(req[c])
    BY <1>c DEF Item, CallNull
  <1>e. pc[c] = "scrubbing" /\ NextNode(c).kind = "call_null" =>
            At(c, k) \in null_locations' \/ Leaks(req[c], NextNode(c))
    BY <1>a, <1>d
  <1> HIDE DEF x
  <1>8. HandSoFar(c)'
    BY <1>1, <1>2, <1>6, <1>7, <1>b, <1>e DEF HandSoFar, MeetsCall
  <1> QED BY <1>3, <1>5, <1>8 DEF SoFar

LEMMA ParseStringSoFar ==
    ASSUME SessionInv, NEW c \in Slots, SoFar(c), ParseString(c)
    PROVE  SoFar(c)'
  <1>1. pc[c] = "parsing" /\ Busy(c) /\ hand[c] = None /\ pos[c] = Len(Nodes(c))
        /\ req[c].script[line[c]].parses
    BY DEF ParseString, Busy
  <1>2. pc'[c] = "scrubbing" /\ req'[c] = req[c] /\ acc'[c] = acc[c]
        /\ tree'[c] = tree[c] /\ hand'[c] = hand[c] /\ line'[c] = line[c]
        /\ pos'[c] = 0 /\ null_locations' = null_locations
    BY DEF ParseString, SessionInv, TypeInv, TypeOK, options
  <1>3. BlocksSoFar(c)' /\ Nodes(c)' = Nodes(c)
    BY <1>1, <1>2, BlocksStay, BusyFacts DEF Busy
  <1>4. Nodes(c) \in Seq(Node)
    BY <1>1, BusyFacts
  <1>5. ASSUME NEW i \in DOMAIN Nodes(c) PROVE NodeSoFar(c, i)'
    <2>1. i <= pos[c] /\ ~(i <= pos'[c])
      BY <1>1, <1>2, <1>4
    <2>2. NodeSoFar(c, i)
      BY <1>1 DEF SoFar, BlockSoFar
    <2>3. Rendered(c, i)' <=> Rendered(c, i)
      BY <1>1, <1>2, <1>3, <2>1 DEF Rendered
    <2> QED BY <1>2, <1>3, <2>1, <2>2, <2>3 DEF NodeSoFar
  <1>6. BlockSoFar(c)'
    BY <1>1, <1>2, <1>3, <1>5 DEF SoFar, BlockSoFar
  <1> QED BY <1>1, <1>2, <1>3, <1>6 DEF SoFar, HandSoFar

-----------------------------------------------------------------------------
(* What is rendered so far: the end of a block.                            *)

\* What callers see of a node.
Seens == [by : Callbacks \cup {None}, names : Fmaps \cup {None},
          value : Nulls \cup {None, SqlNull}]

\* When the walk is over and the nulls are put in, a node of the block is
\* what the service renders.
LEMMA NodeRendered ==
    ASSUME SessionInv, NEW c \in Slots, SoFar(c), EndLine(c), NEW i \in DOMAIN Nodes(c),
           NEW x, x = tree[c][i],
           NEW y, y = IF x.at \in null_locations
                      THEN [x EXCEPT !.value = req[c].null] ELSE x
    PROVE  /\ Seen(y) = RenderNode(req[c], Nodes(c)[i])
           /\ IsCall(Nodes(c)[i]) => Op(req[c]) \notin Raising
  <1>1. Busy(c) /\ pc[c] = "scrubbing" /\ pos[c] = Len(Nodes(c)) /\ OwnTree(c)
    BY DEF EndLine, Busy, SessionInv, CallInv
  <1>2. Nodes(c) \in Seq(Node) /\ i \in 1 .. Len(Nodes(c))
    BY <1>1, BusyFacts
  <1>3. i <= pos[c] /\ i # 0
    BY <1>1, <1>2
  <1>4. Rendered(c, i) /\ NodeSoFar(c, i)
    BY <1>1, <1>3 DEF Rendered, SoFar, BlockSoFar
  <1>5. x.at = At(c, i) /\ At(c, i)[4] = i /\ x \in Items
    <2>1. tree[c] \in Seq(Items) /\ i \in DOMAIN tree[c]
      BY <1>1, <1>2, BusyFacts
    <2>2. x \in Items
      BY ONLY <2>1, x = tree[c][i]
    <2> QED BY <1>1, <1>2, <2>2 DEF OwnTree, At
  <1>6. x.at \in null_locations => /\ Nodes(c)[i].kind \in {"null", "call_null"}
                                   /\ ~Leaks(req[c], Nodes(c)[i])
    BY <1>1, <1>3, <1>5 DEF SoFar, BlockSoFar
  <1>a. x.at \in null_locations =>
           Seen(y) = [by |-> Seen(x).by, names |-> Seen(x).names, value |-> req[c].null]
    BY <1>5, SeenValue
  <1>7. CASE Nodes(c)[i].kind = "plain"
    BY <1>4, <1>6, <1>7 DEF NodeSoFar, RenderNode, IsCall
  <1>8. CASE Nodes(c)[i].kind = "call"
    BY <1>4, <1>6, <1>8 DEF NodeSoFar, RenderNode, IsCall
  <1>11. CASE Nodes(c)[i].kind = "call_null"
    <2>1. /\ Seen(x) = CallNull(Op(req[c]), Names(req[c]), SqlNull)
          /\ Op(req[c]) \notin Raising
          /\ x.at \in null_locations \/ Leaks(req[c], Nodes(c)[i])
      BY <1>1, <1>3, <1>4, <1>5, <1>11 DEF NodeSoFar
    <2>2. CASE Leaks(req[c], Nodes(c)[i])
      BY <1>6, <1>11, <2>1, <2>2 DEF RenderNode
    <2>3. CASE ~Leaks(req[c], Nodes(c)[i])
      <3>1. Seen(y) = CallNull(Op(req[c]), Names(req[c]), req[c].null)
        BY <1>a, <2>1, <2>3 DEF CallNull
      <3> QED BY <1>11, <2>1, <2>3, <3>1 DEF RenderNode
    <2> QED BY <2>2, <2>3
  <1>9. CASE Nodes(c)[i].kind = "null"
    <2>1. Seen(x) = Null(SqlNull)
      BY <1>1, <1>3, <1>4, <1>9 DEF NodeSoFar
    <2>2. x.value = SqlNull /\ ~Stray(x)
      BY <2>1 DEF Seen, Null, Stray
    <2>3. x.at \in null_locations
      BY <1>1, <1>2, <1>3, <1>5, <2>2 DEF OwnTree
    <2>4. Seen(y) = Null(req[c].null)
      BY <1>a, <2>1, <2>3 DEF Null
    <2> QED BY <1>9, <2>4 DEF RenderNode, IsCall
  <1>10. Nodes(c)[i] \in Node
    BY <1>2
  <1> QED BY <1>7, <1>8, <1>9, <1>10, <1>11 DEF Node

LEMMA EndLineSoFar ==
    ASSUME SessionInv, NEW c \in Slots, SoFar(c), EndLine(c)
    PROVE  SoFar(c)'
  <1> DEFINE r    == req[c]
             s    == acc[c] \o tree[c]
             p    == PutNull(s, r.null)
             n    == line[c]
             part == RenderBlock(r, r.script[n])
             done == Bare(acc[c])
  <1>1. pc[c] = "scrubbing" /\ Busy(c) /\ CallInv(c) /\ hand[c] = None
        /\ pos[c] = Len(Nodes(c))
    BY DEF EndLine, Busy, SessionInv
  <1>2. pc'[c] = "next" /\ req'[c] = r /\ line'[c] = n /\ acc'[c] = p
        /\ hand'[c] = hand[c]
    BY DEF EndLine, SessionInv, TypeInv, TypeOK
  <1>3. acc[c] \in Seq(Items) /\ tree[c] \in Seq(Items) /\ s \in Seq(Items)
        /\ r \in Requests /\ Nodes(c) \in Seq(Node)
        /\ DOMAIN tree[c] = 1 .. Len(Nodes(c)) /\ Len(tree[c]) = Len(Nodes(c))
    BY <1>1, BusyFacts DEF SessionInv, TypeInv, TypeOK, CallInv, OwnTree
  <1>4. r.script \in Seq(Block) /\ n \in 1 .. Len(r.script) /\ r.null \in Nulls
    BY <1>1, <1>3, RequestTypes DEF CallInv, OwnTree
  <1>5. BlocksDone(c) = n - 1 /\ BlocksDone(c)' = n
    BY <1>1, <1>2 DEF BlocksDone, Busy
  <1>6. done = Rendering(r)[n - 1]
        /\ (\A i \in DOMAIN acc[c] : acc[c][i].at[3] <= n - 1)
        /\ (\A k \in 1 .. n - 1 : ~BlockFails(r, r.script[k]))
        /\ r.script[n].parses
    BY <1>1, <1>5, BusyFacts DEF SoFar, BlocksSoFar, BlockSoFar
  <1>7. ASSUME NEW i \in DOMAIN acc[c] PROVE acc[c][i].at \notin null_locations
    <2>1. acc[c][i].at[3] <= n - 1 /\ acc[c][i] \in Items
      BY <1>3, <1>6
    <2>2. acc[c][i].at[3] \in Nat
      BY <2>1 DEF Items, Locations
    <2>3. acc[c][i].at[3] # n
      BY <1>4, <2>1, <2>2
    <2>4. \A l \in null_locations : l[3] = n
      BY <1>1 DEF CallInv, OwnGlobals, At
    <2> QED BY <2>3, <2>4
  <1>8. p \in Seq(Items) /\ Len(p) = Len(s) /\ DOMAIN p = DOMAIN s
    BY <1>3, <1>4, PutNullType
  <1>9. part \in Seq(Seens) /\ Len(part) = Len(Nodes(c))
        /\ \A i \in 1 .. Len(Nodes(c)) : part[i] = RenderNode(r, Nodes(c)[i])
    <2>1. \A node \in Node : RenderNode(r, node) \in Seens
      BY <1>3, RequestTypes DEF RenderNode, Seens, Node, Plain, Call, CallNull, Null
    <2>2. part = [i \in 1 .. Len(Nodes(c)) |-> RenderNode(r, Nodes(c)[i])]
      BY <1>3 DEF RenderBlock, Nodes
    <2>3. \A i \in 1 .. Len(Nodes(c)) : Nodes(c)[i] \in Node
      BY <1>3
    <2> HIDE DEF part, r
    <2>4. part \in [1 .. Len(Nodes(c)) -> Seens]
      BY <2>1, <2>2, <2>3
    <2>5. \A i \in 1 .. Len(Nodes(c)) : part[i] = RenderNode(r, Nodes(c)[i])
      BY <2>2
    <2>6. Len(Nodes(c)) \in Nat
      BY <1>3
    <2> QED BY <2>4, <2>5, <2>6, FunctionSeq
  <1>10. done \in Seq(Seens) /\ Len(done) = Len(acc[c])
         /\ \A i \in 1 .. Len(acc[c]) : done[i] = Seen(acc[c][i])
    <2>1. \A x \in Items : Seen(x) \in Seens
      BY DEF Seen, Seens, Items
    <2>2. \A i \in 1 .. Len(acc[c]) : Seen(acc[c][i]) \in Seens
      BY <1>3, <2>1
    <2>3. DOMAIN done = 1 .. Len(acc[c]) /\ Len(acc[c]) \in Nat
          /\ (\A i \in 1 .. Len(acc[c]) : done[i] = Seen(acc[c][i]))
          /\ done = [i \in 1 .. Len(acc[c]) |-> Seen(acc[c][i])]
      BY <1>3, BareShape DEF Bare
    <2> HIDE DEF done
    <2>4. done \in [1 .. Len(acc[c]) -> Seens]
      BY <2>2, <2>3
    <2> QED BY <2>3, <2>4
  <1>11. Joined(s, acc[c], tree[c])
    BY ONLY <1>3, ConcatParts
  <1>12. done \o part \in Seq(Seens) /\ Joined(done \o part, done, part)
         /\ Len(done \o part) = Len(s) /\ Len(part) = Len(tree[c])
    <2> HIDE DEF done, part, s
    <2>1. done \in Seq(Seens) /\ part \in Seq(Seens)
      BY <1>9, <1>10
    <2>2. done \o part \in Seq(Seens) /\ Joined(done \o part, done, part)
      BY ONLY <2>1, ConcatParts
    <2> QED BY <1>3, <1>9, <1>10, <1>11, <2>2 DEF Joined
  <1>13. ASSUME NEW i \in 1 .. Len(s)
         PROVE  Seen(p[i]) = (done \o part)[i] /\ p[i].at[3] <= n
    <2>1. p[i] = IF s[i].at \in null_locations
                 THEN [s[i] EXCEPT !.value = r.null] ELSE s[i]
      <3>1. i \in DOMAIN s
        <4> HIDE DEF s
        <4> QED BY <1>3
      <3> HIDE DEF s, r
      <3> QED BY ONLY <3>1 DEF PutNull
    <2>2. p[i].at = s[i].at
      <3>1. s[i] \in Items
        <4> HIDE DEF s
        <4> QED BY <1>3
      <3> HIDE DEF s, p, r
      <3> QED BY <2>1, <3>1, SeenValue
    <2>3. CASE i \in 1 .. Len(acc[c])
      <3>1. acc[c][i].at \notin null_locations
        BY <1>3, <1>7, <2>3
      <3>2. p[i] = acc[c][i]
        <4> HIDE DEF s, p
        <4> QED BY <1>11, <2>1, <2>3, <3>1 DEF Joined
      <3>3. p[i].at[3] <= n - 1 /\ p[i].at[3] \in Nat
        <4>1. acc[c][i] \in Items /\ acc[c][i].at[3] <= n - 1
          BY <1>3, <1>6, <2>3
        <4> QED BY <3>2, <4>1 DEF Items, Locations
      <3> HIDE DEF s, p, done, part
      <3> QED BY <1>4, <1>10, <1>12, <2>3, <3>2, <3>3 DEF Joined
    <2>4. ASSUME NEW j \in 1 .. Len(tree[c]), i = Len(acc[c]) + j
          PROVE  Seen(p[i]) = (done \o part)[i] /\ p[i].at[3] <= n
      <3>1. s[i] = tree[c][j]
        <4> HIDE DEF s
        <4> QED BY <1>11, <2>4 DEF Joined
      <3>2. (done \o part)[i] = part[j] /\ part[j] = RenderNode(r, Nodes(c)[j])
        <4> HIDE DEF done, part
        <4> QED BY <1>3, <1>9, <1>10, <1>12, <2>4 DEF Joined
      <3>3. Seen(p[i]) = RenderNode(r, Nodes(c)[j])
        <4> HIDE DEF s, p
        <4> QED BY <1>3, <2>1, <3>1, NodeRendered
      <3>4. p[i].at[3] = n
        <4>1. tree[c][j].at = At(c, j)
          BY <1>1, <1>3, <2>4 DEF CallInv, OwnTree
        <4> HIDE DEF s, p
        <4> QED BY <2>2, <3>1, <4>1 DEF At
      <3> HIDE DEF s, p, done, part, r
      <3> QED BY <1>4, <3>2, <3>3, <3>4
    <2>5. i \in 1 .. Len(acc[c]) \/ \E j \in 1 .. Len(tree[c]) : i = Len(acc[c]) + j
      BY <1>11 DEF Joined
    <2> QED BY <2>3, <2>4, <2>5
  <1>14. Bare(p) = done \o part
    <2>1. Bare(p) = [i \in 1 .. Len(s) |-> Seen(p[i])]
      BY <1>3, <1>8 DEF Bare
    <2> DEFINE whole == done \o part
    <2>2. whole = [i \in 1 .. Len(s) |-> whole[i]]
      <3>1. whole \in Seq(Seens) /\ Len(whole) = Len(s)
        BY <1>12
      <3> HIDE DEF s, whole
      <3> QED BY <3>1
    <2>3. \A i \in 1 .. Len(s) : Seen(p[i]) = whole[i]
      BY <1>13
    <2> HIDE DEF s, p, whole
    <2>4. Bare(p) = whole
      BY <2>1, <2>2, <2>3
    <2> QED BY <2>4 DEF whole
  <1>15. Bare(p) = Rendering(r)[n]
    <2>1. Rendering(r)[n] = Rendering(r)[n - 1] \o part
      BY <1>4, RenderingSteps
    <2> QED BY <1>6, <1>14, <2>1
  <1>16. ~BlockFails(r, r.script[n])
    BY <1>6, NodeRendered DEF BlockFails, HasCall, Nodes
  <1>17. BlocksSoFar(c)'
    <2>1. \A k \in 1 .. n : ~BlockFails(r, r.script[k])
      BY <1>4, <1>6, <1>16
    <2>2. \A i \in DOMAIN p : p[i].at[3] <= n
      <3>1. DOMAIN p = 1 .. Len(s)
        BY <1>3, <1>8
      <3> HIDE DEF s, p, n
      <3> QED BY <1>13, <3>1
    <2> HIDE DEF r, p, n
    <2> QED BY <1>2, <1>4, <1>5, <1>15, <2>1, <2>2 DEF BlocksSoFar
  <1> QED BY <1>1, <1>2, <1>17 DEF SoFar, BlockSoFar, HandSoFar, Busy

-----------------------------------------------------------------------------
(* The session implements the service.                                     *)

LEMMA StepSoFar ==
    ASSUME SessionInv, NEW c \in Slots, Step(c), SoFar(c)
    PROVE  SoFar(c)'
  <1>1. CASE BadColumns(c) \/ BuildFails(c) \/ CallbackRaises(c) \/ ParseFails(c)
             \/ Return(c)
    BY <1>1, LeaveSoFar DEF BadColumns, BuildFails, CallbackRaises, ParseFails, Return
  <1>2. CASE ~(BadColumns(c) \/ BuildFails(c) \/ CallbackRaises(c) \/ ParseFails(c)
               \/ Return(c))
    BY <1>2, AcquireSoFar, LookupSoFar, BeginLineSoFar, VisitOtherSoFar, VisitNullSoFar,
       EnterCallbackSoFar, CallbackReturnsSoFar, ParseStringSoFar, EndLineSoFar
    DEF Step
  <1> QED BY <1>1, <1>2

LEMMA SoFarNext == SessionInv /\ RenderedSoFar /\ [Next]_vars => RenderedSoFar'
  <1> SUFFICES ASSUME SessionInv, RenderedSoFar, [Next]_vars, NEW d \in Slots
               PROVE  SoFar(d)'
    BY DEF RenderedSoFar
  <1>0. SoFar(d)
    BY DEF RenderedSoFar
  <1>1. ASSUME NEW t \in Threads, NEW r \in Requests, Call_parse(t, r) \/ Reenter(t, r)
        PROVE  SoFar(d)'
    BY <1>0, <1>1, BeginSoFar DEF Call_parse, Reenter, Slots
  <1>2. ASSUME NEW c \in Slots, Step(c) PROVE SoFar(d)'
    BY <1>0, <1>2, StepSoFar, OtherSoFar
  <1>3. ASSUME UNCHANGED <<shared, options, locals>> PROVE SoFar(d)'
    <2>1. SameLocals(d) /\ UNCHANGED null_locations
      BY <1>3 DEF SameLocals, locals, options
    <2> QED BY <1>0, <2>1, SameSoFar
  <1>4. ASSUME NEW f \in Formatters, CallFormat(f) \/ FormatStep(f) PROVE SoFar(d)'
    BY <1>3, <1>4, FormatFrame
  <1>5. CASE UNCHANGED vars
    BY <1>3, <1>5 DEF vars
  <1> QED BY <1>1, <1>2, <1>4, <1>5 DEF Next

LEMMA SoFarInit == Init => RenderedSoFar
  BY DEF Init, RenderedSoFar, SoFar, BlocksSoFar, BlockSoFar, HandSoFar, Busy, Working

\* At every moment, what a call in progress has made of its script is the
\* part of that script's meaning up to where it is: no node is rendered with
\* other options, twice, or not at all, and a call that goes on has met
\* nothing to fail on.
THEOREM RenderingProgresses == Spec => []RenderedSoFar
  BY SessionInvariant, SoFarInit, SoFarNext, PTL DEF Spec

\* The answers as the service's variable holds them.
Given(c) == [status |-> answer[c].status, shape |-> answer[c].shape,
             items |-> Bare(answer[c].items)]

LEMMA ServiceInit == Init => Service!Init
  <1> SUFFICES ASSUME Init PROVE Service!Init
    OBVIOUS
  <1>1. Bare(<<>>) = <<>>
    BY DEF Bare
  <1>2. \A c \in Slots : Given(c) = Service!NoAnswer
    BY <1>1 DEF Init, NoAnswer, Service!NoAnswer, Given
  <1> QED BY <1>2 DEF Init, Service!Init, Given

\* The refinement mapping on answers, as one function.
Givens == [c \in Slots |-> Given(c)]

\* A call that leaves gives its answer, and takes back its request.
LEMMA LeaveGives ==
    ASSUME SessionInv, NEW c \in Slots, NEW a, Leave(c, a),
           NEW g, g = [status |-> a.status, shape |-> a.shape, items |-> Bare(a.items)]
    PROVE  Givens' = [Givens EXCEPT ![c] = g] /\ req' = [req EXCEPT ![c] = None]
  <1>1. \A d \in Slots : answer'[d] = IF d = c THEN a ELSE answer[d]
    BY DEF Leave, SessionInv, TypeInv, TypeOK
  <1>2. Given(c)' = g /\ \A d \in Slots : d # c => Given(d)' = Given(d)
    BY <1>1 DEF Given
  <1>3. Givens' = [d \in Slots |-> Given(d)']
    BY DEF Givens
  <1>4. Givens = [d \in Slots |-> Given(d)]
    BY DEF Givens
  <1>5. Givens' = [Givens EXCEPT ![c] = g]
    BY <1>2, <1>3, <1>4
  <1> QED BY <1>5 DEF Leave

\* The other steps give no answer.
LEMMA KeepsAnswers ==
    ASSUME SessionInv, \A d \in Slots : answer'[d] = answer[d]
    PROVE  Givens' = Givens
  BY DEF Givens, Given

\* Requests mean the same to the session and to the service.
LEMMA SameMeaning ==
    ASSUME NEW r
    PROVE  /\ Service!Fails(r) <=> Fails(r)
           /\ Service!Rendering(r) = Rendering(r)
           /\ \A items : Service!Shape(items) = Shape(items)
  <1>1. Service!Op(r) = Op(r) /\ Service!Names(r) = Names(r)
    BY DEF Service!Op, Op, Service!Names, Names
  <1>2. \A block : Service!BlockFails(r, block) <=> BlockFails(r, block)
    BY <1>1 DEF Service!BlockFails, BlockFails, Service!HasCall, HasCall,
                Service!IsCall, IsCall
  <1>3. Service!Fails(r) <=> Fails(r)
    BY <1>2 DEF Service!Fails, Fails
  <1>4. Service!Rendering(r) = Rendering(r)
    BY DEF Service!Rendering, Rendering, Service!RenderBlock, RenderBlock,
           Service!RenderNode, RenderNode, Service!Call, Call, Service!Null, Null,
           Service!CallNull, CallNull, Service!Leaks, Leaks,
           Service!Plain, Plain, Service!Op, Op, Service!Names, Names
  <1>5. \A items : Service!Shape(items) = Shape(items)
    BY DEF Service!Shape, Shape
  <1> QED BY <1>3, <1>4, <1>5

\* An exception is given to a call that is at fault, or whose grammar has
\* never been built.
LEMMA Refuses ==
    ASSUME SessionInv, NEW c \in Slots, pc[c] # "idle", Leave(c, Exception),
           UNCHANGED lookup_parsers, Fails(req[c]) \/ ~Cached(c)
    PROVE  Service!Refuse(c)
  <1>1. Bare(<<>>) = <<>>
    BY DEF Bare
  <1>2. Givens' = [Givens EXCEPT ![c] = Service!Exception]
        /\ req' = [req EXCEPT ![c] = None]
    BY <1>1, LeaveGives DEF Exception, Service!Exception
  <1>3. req[c] # None
    BY DEF SessionInv, TypeInv, HasRequest
  <1> QED BY <1>2, <1>3, SameMeaning DEF Service!Refuse, Cached, Givens, Given

\* A call that comes to the end of its script has rendered all of it.
LEMMA Replies ==
    ASSUME SessionInv, NEW c \in Slots, SoFar(c), Return(c)
    PROVE  Service!Reply(c)
  <1> DEFINE r == req[c]
             n == Len(r.script)
             a == [status |-> "ok", shape |-> Shape(acc[c]), items |-> acc[c]]
  <1>1. pc[c] = "next" /\ line[c] = n /\ Leave(c, a) /\ UNCHANGED lookup_parsers
    BY DEF Return
  <1>2. r # None /\ r \in Requests /\ Cached(c)
    BY <1>1 DEF SessionInv, TypeInv, TypeOK, HasRequest, ImportedBeforeUse
  <1>3. BlocksDone(c) = n
    BY <1>1 DEF BlocksDone, Busy
  <1>4. Bare(acc[c]) = Rendering(r)[n] /\ \A k \in 1 .. n : ~BlockFails(r, r.script[k])
    BY <1>1, <1>3 DEF SoFar, BlocksSoFar, Working
  <1>5. r.key \in Keys
    BY <1>2 DEF SessionInv, TypeInv, TypeOK, Cached
  <1>6. ~Fails(r)
    <2>1. DOMAIN r.script = 1 .. n
      BY <1>2, RequestTypes
    <2> HIDE DEF r, n
    <2> QED BY <1>4, <1>5, <2>1 DEF Fails
  <1>7. Shape(Bare(acc[c])) = Shape(acc[c])
    <2>1. Len(Bare(acc[c])) = Len(acc[c])
      BY BareShape DEF SessionInv, TypeInv, TypeOK
    <2> QED BY <2>1 DEF Shape
  <1> HIDE DEF r, n
  <1>8. Service!Answer(r) = [status |-> "ok", shape |-> Shape(acc[c]),
                             items |-> Bare(acc[c])]
    BY <1>4, <1>7, SameMeaning DEF Service!Answer, n
  <1>9. Givens' = [Givens EXCEPT ![c] = Service!Answer(r)]
        /\ req' = [req EXCEPT ![c] = None]
    BY <1>1, <1>8, LeaveGives
  <1> QED BY <1>1, <1>2, <1>6, <1>9, SameMeaning
          DEF Service!Reply, Cached, Givens, Given, r

\* Text that does not parse, and a callback that raises, are the caller's.
LEMMA BlockAtFault ==
    ASSUME SessionInv, NEW c \in Slots, SoFar(c),
           ParseFails(c) \/ CallbackRaises(c)
    PROVE  Fails(req[c]) /\ pc[c] # "idle" /\ Leave(c, Exception)
           /\ UNCHANGED lookup_parsers
  <1>1. Busy(c) /\ CallInv(c) /\ pc[c] # "idle" /\ Leave(c, Exception)
        /\ UNCHANGED lookup_parsers
    BY DEF ParseFails, CallbackRaises, SessionInv, CallInv, OwnHand, Busy
  <1>2. line[c] \in DOMAIN req[c].script /\ Nodes(c) \in Seq(Node)
    BY <1>1, BusyFacts, RequestTypes DEF CallInv, OwnTree
  <1>3. CASE ParseFails(c)
    BY <1>1, <1>2, <1>3 DEF ParseFails, Fails, BlockFails
  <1>4. CASE CallbackRaises(c)
    <2>1. Op(req[c]) \in Raising /\ hand[c] # None
      BY <1>4 DEF CallbackRaises, SoFar, HandSoFar
    <2>2. pos[c] + 1 \in DOMAIN Nodes(c) /\ IsCall(Nodes(c)[pos[c] + 1])
      BY <1>1, <1>2, <2>1, BusyFacts DEF CallInv, OwnHand, NextNode
    <2> QED BY <1>1, <1>2, <2>1, <2>2 DEF Fails, BlockFails, HasCall, Nodes
  <1> QED BY <1>1, <1>3, <1>4

\* Each step of a call is a step of the service, or invisible to it.
LEMMA StepServes ==
    ASSUME SessionInv, NEW c \in Slots, SoFar(c), Step(c)
    PROVE  \/ Service!Warm(c) \/ Service!Reply(c) \/ Service!Refuse(c)
           \/ UNCHANGED Service!vars
  <1>1. CASE Return(c)
    BY <1>1, Replies
  <1>2. CASE ParseFails(c) \/ CallbackRaises(c)
    BY <1>2, BlockAtFault, Refuses
  <1>3. CASE BadColumns(c)
    BY <1>3, Refuses DEF BadColumns, Fails
  <1>4. CASE BuildFails(c)
    BY <1>4, Refuses DEF BuildFails
  <1>5. CASE Build(c)
    <2>1. Givens' = Givens
      BY <1>5, KeepsAnswers DEF Build
    <2>2. req[c] # None
      BY <1>5 DEF Build, SessionInv, TypeInv, HasRequest
    <2> QED BY <1>5, <2>1, <2>2 DEF Build, Service!Warm, Givens, Given
  <1>6. CASE EndLine(c)
    <2>1. Givens' = Givens
      BY <1>6, EndLineFrame, KeepsAnswers
    <2> QED BY <1>6, <2>1 DEF EndLine, Service!vars, Givens, Given, shared
  <1>7. CASE \/ Acquire(c) \/ Hit(c) \/ BeginLine(c) \/ VisitOther(c) \/ VisitNull(c)
             \/ EnterCallback(c) \/ CallbackReturns(c) \/ ParseString(c)
    <2>1. UNCHANGED <<req, answer, lookup_parsers>>
      BY <1>7 DEF Acquire, Hit, BeginLine, VisitOther, VisitNull, EnterCallback,
                  CallbackReturns, ParseString, shared
    <2>2. Givens' = Givens
      BY <2>1, KeepsAnswers
    <2> QED BY <2>1, <2>2 DEF Service!vars, Givens, Given
  <1> QED BY <1>1, <1>2, <1>3, <1>4, <1>5, <1>6, <1>7 DEF Step

LEMMA BeginAsks ==
    ASSUME SessionInv, NEW c \in Slots, NEW r \in Requests, Begin(c, r)
    PROVE  Service!Ask(c, r)
  <1>1. req[c] = None
    BY DEF Begin, SessionInv, TypeInv, HasRequest
  <1>2. Givens' = Givens
    BY KeepsAnswers DEF Begin
  <1> QED BY <1>1, <1>2 DEF Begin, Service!Ask, Givens, Given, shared

LEMMA ServiceNext ==
    SessionInv /\ RenderedSoFar /\ [Next]_vars => [Service!Next]_(Service!vars)
  <1> SUFFICES ASSUME SessionInv, RenderedSoFar, [Next]_vars
               PROVE  Service!Next \/ UNCHANGED Service!vars
    OBVIOUS
  <1>1. ASSUME NEW t \in Threads, NEW r \in Requests, Call_parse(t, r) \/ Reenter(t, r)
        PROVE  Service!Next
    BY <1>1, BeginAsks DEF Call_parse, Reenter, Slots, Service!Next
  <1>2. ASSUME NEW c \in Slots, Step(c)
        PROVE  Service!Next \/ UNCHANGED Service!vars
    BY <1>2, StepServes DEF RenderedSoFar, Service!Next
  <1>3. ASSUME UNCHANGED <<shared, options, locals>>
        PROVE  UNCHANGED Service!vars
    <2>1. UNCHANGED <<req, answer, lookup_parsers>>
      BY <1>3 DEF shared, locals
    <2>2. Givens' = Givens
      BY <2>1, KeepsAnswers
    <2> QED BY <2>1, <2>2 DEF Service!vars, Givens, Given
  <1>4. ASSUME NEW f \in Formatters, CallFormat(f) \/ FormatStep(f)
        PROVE  UNCHANGED Service!vars
    BY <1>3, <1>4, FormatFrame
  <1>5. CASE UNCHANGED vars
    BY <1>3, <1>5 DEF vars
  <1> QED BY <1>1, <1>2, <1>4, <1>5 DEF Next

\* The entry points answer every call with the meaning of its own arguments,
\* as if there were no lock, no module globals, no rewriting of nulls in
\* place and no grammar built on the way: for any number of threads, any
\* scripts, callbacks and failures.
THEOREM SessionImplementsService == Spec => ServiceSpec
  <1>1. Spec => [](SessionInv /\ RenderedSoFar)
    BY SessionInvariant, RenderingProgresses, PTL
  <1> QED BY <1>1, ServiceInit, ServiceNext, PTL DEF Spec, ServiceSpec, Service!Spec
=============================================================================
