------------------------- MODULE ParseSessionProofs -------------------------
(***************************************************************************)
(* Proofs about ParseSession for any number of threads, requests of any    *)
(* length, and any bound on calls.                                         *)
(***************************************************************************)
EXTENDS ParseSession, TLAPS

-----------------------------------------------------------------------------
(* Sequences and items.                                                    *)

\* Overwriting an element of a sequence gives a sequence of the same length.
LEMMA ExceptSeq ==
    ASSUME NEW S, NEW s \in Seq(S), NEW i, NEW x \in S
    PROVE  /\ [s EXCEPT ![i] = x] \in Seq(S)
           /\ Len([s EXCEPT ![i] = x]) = Len(s)
           /\ DOMAIN [s EXCEPT ![i] = x] = DOMAIN s
  <1> DEFINE e == [s EXCEPT ![i] = x]
  <1>0. s \in [1 .. Len(s) -> S]
    OBVIOUS
  <1>1. e \in [1 .. Len(s) -> S]
    BY <1>0, Zenon
  <1>2. e \in Seq(S) /\ Len(e) = Len(s)
    <2> HIDE DEF e
    <2> QED BY <1>1
  <1> QED BY <1>2

\* An item made of what there is for items.
LEMMA ItemType ==
    /\ \A x \in Items : /\ x.at \in Locations
                        /\ x.by \in Callbacks \cup {None}
                        /\ x.names \in Fmaps \cup {None}
                        /\ x.value \in Nulls \cup {None, SqlNull}
    /\ \A at \in Locations, v \in Nulls \cup {None, SqlNull} :
          Item(at, [by |-> None, names |-> None, value |-> v]) \in Items
    /\ \A at \in Locations, op \in Callbacks, f \in Fmaps, v \in {None, SqlNull} :
          Item(at, CallNull(op, f, v)) \in Items
    /\ \A x \in Items, v \in Nulls \cup {None, SqlNull} :
          [x EXCEPT !.value = v] \in Items
  BY DEF Items, Item, CallNull

\* The call in the identity of an item is a number.
LEMMA SerialNat == \A x \in Items : x.at[2] \in Nat
  BY DEF Items, Locations

\* Where the elements of a concatenation come from.
LEMMA ConcatIndex ==
    ASSUME NEW S, NEW a \in Seq(S), NEW b \in Seq(S), NEW i \in DOMAIN (a \o b),
           i \notin DOMAIN a
    PROVE  /\ i - Len(a) \in 1 .. Len(b)
           /\ (a \o b)[i] = b[i - Len(a)]
  <1>1. i \in 1 .. (Len(a) + Len(b)) /\ ~(i <= Len(a))
    OBVIOUS
  <1>2. i - Len(a) \in 1 .. Len(b)
    BY <1>1
  <1> QED BY <1>1, <1>2

\* The rewriting of nulls keeps the type and the length of a tree.
LEMMA PutNullType ==
    ASSUME NEW s \in Seq(Items), NEW v \in Nulls
    PROVE  /\ PutNull(s, v) \in Seq(Items)
           /\ Len(PutNull(s, v)) = Len(s)
           /\ DOMAIN PutNull(s, v) = DOMAIN s
  <1>0. \A i \in DOMAIN s : s[i] \in Items
    OBVIOUS
  <1>1. \A i \in DOMAIN s : [s[i] EXCEPT !.value = v] \in Items
    BY <1>0, ItemType
  <1>2. PutNull(s, v) \in [1 .. Len(s) -> Items]
    BY <1>1 DEF PutNull
  <1> QED BY <1>2

\* What a request gives to the globals has the type of the globals.
LEMMA RequestTypes ==
    ASSUME NEW r \in Requests
    PROVE  /\ Op(r) \in Callbacks
           /\ Names(r) \in Fmaps
           /\ r.null \in Nulls
           /\ r.flavour \in Flavours
           /\ r.script \in Seq(Block)
  BY CallbacksAssumption, RequestsAssumption DEF IsRequest, Op, Names

-----------------------------------------------------------------------------
(* Type correctness.                                                       *)

LEMMA TypeInit == Init => TypeInv
  <1> SUFFICES ASSUME Init PROVE TypeInv
    OBVIOUS
  <1>1. NoAnswer \in Answers
    BY DEF NoAnswer, Answers
  <1>2. <<>> \in Seq(Items)
    OBVIOUS
  <1> QED BY <1>1, <1>2, CallbacksAssumption
          DEF Init, TypeInv, TypeOK, HasRequest, Waiting, Working

LEMMA LeaveType ==
    ASSUME TypeInv, NEW c \in Slots, NEW a \in Answers, Leave(c, a),
           lookup_parsers' \subseteq Flavours \X Keys, bound' \in BOOLEAN,
           failures' \in Nat, UNCHANGED options
    PROVE  TypeInv'
  <1>1. <<>> \in Seq(Items)
    OBVIOUS
  <1> QED BY <1>1 DEF TypeInv, TypeOK, HasRequest, Leave, Waiting, Working, options

\* What one slot does keeps every variable in its type.
LEMMA TypeStep ==
    ASSUME TypeInv, NEW c \in Slots, Step(c)
    PROVE  TypeInv'
  <1> USE DEF TypeInv, TypeOK, HasRequest, Waiting, Working
  <1>a. Exception \in Answers
    BY DEF Exception, Answers
  <1>b. pc[c] # "idle" => req[c] \in Requests
    OBVIOUS
  <1>c. \A n \in Nat, i \in Nat : <<c, serial[c], n, i>> \in Locations
    BY DEF Locations
  <1>d. line[c] \in Nat /\ pos[c] \in Nat /\ line[c] + 1 \in Nat /\ pos[c] + 1 \in Nat
    <2>1. line[c] \in Nat /\ pos[c] \in Nat
      OBVIOUS
    <2> QED BY ONLY <2>1
  <1>e. \A i \in Nat : At(c, i) \in Locations
    BY <1>c, <1>d DEF At
  <1>f. scrub_op \in Callbacks /\ fmap \in Fmaps
    OBVIOUS
  <1>1. CASE Acquire(c)
    BY <1>1 DEF Acquire, options
  <1>2. CASE BadColumns(c)
    BY <1>2, <1>a, LeaveType DEF BadColumns
  <1>3. CASE Hit(c)
    BY <1>3 DEF Hit, shared, options
  <1>4. CASE Build(c)
    BY <1>4, <1>b, RequestTypes DEF Build, options
  <1>5. CASE BuildFails(c)
    <2>a. bound \in BOOLEAN /\ bound' \in {bound, TRUE}
      BY <1>5, Zenon DEF BuildFails
    <2>b. bound' \in BOOLEAN
      BY <2>a, Zenon
    <2>c. failures' \in Nat
      BY <1>5 DEF BuildFails
    <2>2. Leave(c, Exception) /\ UNCHANGED <<lookup_parsers, options>>
      BY <1>5 DEF BuildFails
    <2> QED BY <2>b, <2>c, <2>2, <1>a, LeaveType
  <1>6. CASE BeginLine(c)
    <2> DEFINE nodes == req[c].script[line[c] + 1].nodes
               items == [i \in DOMAIN nodes |->
                           Item(<<c, serial[c], line[c] + 1, i>>, Plain)]
    <2>a. req[c].script \in Seq(Block) /\ line[c] + 1 \in 1 .. Len(req[c].script)
      BY <1>6, <1>b, <1>d, RequestTypes DEF BeginLine
    <2>b. req[c].script[line[c] + 1] \in Block
      BY <2>a
    <2>1. nodes \in Seq(Node)
      BY <2>b DEF Block
    <2>2. \A i \in Nat : Item(<<c, serial[c], line[c] + 1, i>>, Plain) \in Items
      BY ONLY <1>c, <1>d, ItemType DEF Plain
    <2>3. items \in Seq(Items)
      <3> HIDE DEF nodes
      <3>1. items \in [1 .. Len(nodes) -> Items] /\ Len(nodes) \in Nat
        BY <2>1, <2>2
      <3> HIDE DEF items
      <3> QED BY ONLY <3>1
    <2>4. tree' = [tree EXCEPT ![c] = items]
      BY <1>6 DEF BeginLine
    <2>5. Op(req[c]) \in Callbacks /\ Names(req[c]) \in Fmaps
      BY <1>6, <1>b, RequestTypes DEF BeginLine
    <2> HIDE DEF nodes, items
    <2>6. tree' \in [Slots -> Seq(Items)]
      BY <2>3, <2>4
    <2> QED BY <1>6, <2>5, <2>6 DEF BeginLine, shared, NewLocations
  <1>7. CASE VisitOther(c)
    BY <1>7 DEF VisitOther, shared, options
  <1>8. CASE VisitNull(c)
    <2> DEFINE i == pos[c] + 1
               x == [tree[c][i] EXCEPT !.value = SqlNull]
    <2>2. At(c, Place(c)) \in Locations
      BY <1>d, <1>e DEF Place
    <2>3. tree' = [tree EXCEPT ![c] = [tree[c] EXCEPT ![i] = x]]
      BY <1>8 DEF VisitNull
    <2>5. [tree[c] EXCEPT ![i] = x] \in Seq(Items)
      <3>1. tree[c] \in Seq(Items)
        OBVIOUS
      <3>2. CASE i \in DOMAIN tree[c]
        <4> HIDE DEF i
        <4>1. tree[c][i] \in Items
          BY ONLY <3>1, <3>2
        <4>2. x \in Items
          BY ONLY <4>1, ItemType
        <4> HIDE DEF x
        <4> QED BY ONLY <3>1, <4>2, ExceptSeq
      <3>3. CASE i \notin DOMAIN tree[c]
        <4> HIDE DEF i, x
        <4>1. [tree[c] EXCEPT ![i] = x] = tree[c]
          BY ONLY <3>1, <3>3
        <4> QED BY ONLY <3>1, <4>1
      <3> QED BY ONLY <3>2, <3>3
    <2> HIDE DEF x
    <2>6. tree' \in [Slots -> Seq(Items)]
      BY <2>3, <2>5
    <2> QED BY <1>8, <2>2, <2>6 DEF VisitNull, shared
  <1>9. CASE EnterCallback(c)
    <2> DEFINE x == Item(At(c, pos[c] + 1), CallNull(scrub_op, fmap, Argument(NextNode(c))))
    <2>0. Argument(NextNode(c)) \in {None, SqlNull}
      BY DEF Argument
    <2>1. x \in Items
      BY ONLY <1>d, <1>e, <1>f, <2>0, ItemType
    <2>2. At(c, KwargsPlace(c)) \in Locations
      BY <1>d, <1>e DEF KwargsPlace
    <2>3. hand' = [hand EXCEPT ![c] = x]
      BY <1>9 DEF EnterCallback
    <2> HIDE DEF x
    <2> QED BY <1>9, <2>1, <2>2, <2>3 DEF EnterCallback, shared
  <1>10. CASE CallbackReturns(c)
    <2>1. tree' = [tree EXCEPT ![c] = [tree[c] EXCEPT ![pos[c] + 1] = hand[c]]]
      BY <1>10 DEF CallbackReturns
    <2>2. hand[c] \in Items
      BY <1>10 DEF CallbackReturns
    <2>3. tree' \in [Slots -> Seq(Items)]
      BY <2>1, <2>2, ExceptSeq
    <2> QED BY <1>10, <2>3 DEF CallbackReturns, shared, options
  <1>11. CASE CallbackRaises(c)
    BY <1>11, <1>a, LeaveType DEF CallbackRaises
  <1>12. CASE ParseFails(c)
    BY <1>12, <1>a, LeaveType DEF ParseFails
  <1>13. CASE ParseString(c)
    BY <1>13 DEF ParseString, shared, options
  <1>14. CASE EndLine(c)
    <2>1. req[c].null \in Nulls
      BY <1>14, <1>b, RequestTypes DEF EndLine
    <2>2. acc[c] \o tree[c] \in Seq(Items)
      OBVIOUS
    <2>3. acc' \in [Slots -> Seq(Items)]
      BY <1>14, <2>1, <2>2, PutNullType DEF EndLine
    <2>4. tree' \in [Slots -> Seq(Items)]
      BY <1>14, <2>1, PutNullType DEF EndLine
    <2>5. ASSUME NEW d \in Slots
          PROVE  [status |-> answer[d].status, shape |-> answer[d].shape,
                  items |-> PutNull(answer[d].items, req[c].null)] \in Answers
      <3>1. /\ answer[d].items \in Seq(Items)
            /\ answer[d].status \in {"none", "ok", "raised"}
            /\ answer[d].shape \in {"None", "one", "list"}
        BY DEF Answers
      <3>2. PutNull(answer[d].items, req[c].null) \in Seq(Items)
        BY <3>1, <2>1, PutNullType
      <3> QED BY <3>1, <3>2 DEF Answers
    <2>6. answer' \in [Slots -> Answers]
      BY <1>14, <2>5 DEF EndLine
    <2> QED BY <1>14, <2>3, <2>4, <2>6 DEF EndLine, shared, options
  <1>15. CASE Return(c)
    <2>1. [status |-> "ok", shape |-> Shape(acc[c]), items |-> acc[c]] \in Answers
      BY DEF Answers, Shape
    <2> QED BY <1>15, <2>1, LeaveType DEF Return
  <1> QED BY <1>1, <1>2, <1>3, <1>4, <1>5, <1>6, <1>7, <1>8, <1>9, <1>10, <1>11,
             <1>12, <1>13, <1>14, <1>15 DEF Step

\* Beginning a call keeps every variable in its type.
LEMMA TypeBegin ==
    ASSUME TypeInv, NEW c \in Slots, NEW r \in Requests, Begin(c, r)
    PROVE  TypeInv'
  BY RequestsAssumption
  DEF TypeInv, TypeOK, HasRequest, Waiting, Working, Begin, shared, options

\* format() changes its own progress only.
LEMMA FormatFrame ==
    ASSUME NEW f \in Formatters, CallFormat(f) \/ FormatStep(f)
    PROVE  UNCHANGED <<shared, options, locals>>
  BY DEF CallFormat, FormatStep, IsKeyword, KeywordKnown, FormatReturns

LEMMA TypeNext == TypeInv /\ [Next]_vars => TypeInv'
  <1> SUFFICES ASSUME TypeInv, [Next]_vars PROVE TypeInv'
    OBVIOUS
  <1>1. ASSUME NEW t \in Threads, NEW r \in Requests, Call_parse(t, r) \/ Reenter(t, r)
        PROVE  TypeInv'
    BY <1>1, TypeBegin DEF Call_parse, Reenter, Slots
  <1>2. ASSUME NEW c \in Slots, Step(c) PROVE TypeInv'
    BY <1>2, TypeStep
  <1>3. ASSUME NEW f \in Formatters, CallFormat(f) \/ FormatStep(f) PROVE TypeInv'
    <2>1. fmt' \in [Formatters -> {"idle", "formatting", "keyword"}]
      BY <1>3 DEF TypeInv, TypeOK, CallFormat, FormatStep, IsKeyword, KeywordKnown,
                  FormatReturns
    <2> QED BY <1>3, <2>1, FormatFrame
            DEF TypeInv, TypeOK, HasRequest, shared, options, locals
  <1>4. CASE UNCHANGED vars
    BY <1>4 DEF TypeInv, TypeOK, HasRequest, vars, shared, options, locals
  <1> QED BY <1>1, <1>2, <1>3, <1>4 DEF Next

\* Every variable has its type in every reachable state of the session.
THEOREM TypeCorrect == Spec => []TypeOK
  <1>1. TypeInv => TypeOK
    BY DEF TypeInv
  <1> QED BY <1>1, TypeInit, TypeNext, PTL DEF Spec

-----------------------------------------------------------------------------
(* The lock, and the imports.                                              *)

\* Leaving frees the lock, which the call that leaves was holding.
LEMMA LeaveLock ==
    ASSUME TypeInv, LockDiscipline, NEW c \in Slots, NEW a, Leave(c, a),
           pc[c] \in Working
    PROVE  LockDiscipline'
  BY SessionAssumption
  DEF TypeInv, TypeOK, LockDiscipline, Leave, Waiting, Working, Slots

\* A call between its begin and end of work that changes neither.
LEMMA StayLock ==
    ASSUME TypeInv, LockDiscipline, NEW c \in Slots, pc[c] \in Working,
           UNCHANGED parse_locker, NEW p \in Working, pc' = [pc EXCEPT ![c] = p]
    PROVE  LockDiscipline'
  BY DEF TypeInv, TypeOK, LockDiscipline, Waiting, Working

\* A hand that is not empty belongs to a call at work.
LEMMA HandWorking ==
    ASSUME NEW c \in Slots, CallInv(c), hand[c] # None
    PROVE  pc[c] \in Working
  BY DEF CallInv, OwnHand, Busy, Working

LEMMA LockStep ==
    ASSUME SessionInv, NEW c \in Slots, Step(c)
    PROVE  LockDiscipline'
  <1> USE DEF SessionInv
  <1>1. CASE Acquire(c)
    BY <1>1, SessionAssumption
    DEF Acquire, Available, LockDiscipline, TypeInv, TypeOK, Waiting, Working, Slots
  <1>2. CASE BadColumns(c) \/ BuildFails(c) \/ ParseFails(c) \/ Return(c)
    BY <1>2, LeaveLock DEF BadColumns, BuildFails, ParseFails, Return, Working
  <1>3. CASE CallbackRaises(c)
    BY <1>3, LeaveLock, HandWorking DEF CallbackRaises
  <1>4. CASE Hit(c) \/ Build(c) \/ BeginLine(c) \/ ParseString(c) \/ EndLine(c)
    BY <1>4, StayLock DEF Hit, Build, BeginLine, ParseString, EndLine, shared, Working
  <1>5. CASE VisitOther(c) \/ VisitNull(c) \/ EnterCallback(c) \/ CallbackReturns(c)
    BY <1>5 DEF VisitOther, VisitNull, EnterCallback, CallbackReturns, shared,
                LockDiscipline
  <1> QED BY <1>1, <1>2, <1>3, <1>4, <1>5 DEF Step

LEMMA ImportedStep ==
    ASSUME SessionInv, NEW c \in Slots, Step(c)
    PROVE  ImportedBeforeUse'
  <1> USE DEF SessionInv, TypeInv, TypeOK, ImportedBeforeUse, Cached, Waiting, Working
  <1>1. CASE BadColumns(c) \/ ParseFails(c) \/ Return(c) \/ CallbackRaises(c)
    BY <1>1, ZenonT(60) DEF BadColumns, ParseFails, Return, CallbackRaises, Leave
  <1>2. CASE BuildFails(c)
    <2>1. lookup_parsers # {} => bound' = TRUE
      BY <1>2, Zenon DEF BuildFails
    <2> QED BY <1>2, <2>1 DEF BuildFails, Leave
  <1>3. CASE Build(c)
    BY <1>3 DEF Build
  <1>4. CASE Acquire(c) \/ Hit(c) \/ BeginLine(c) \/ ParseString(c) \/ EndLine(c)
    BY <1>4 DEF Acquire, Hit, BeginLine, ParseString, EndLine, shared
  <1>5. CASE VisitOther(c) \/ VisitNull(c) \/ EnterCallback(c) \/ CallbackReturns(c)
    BY <1>5 DEF VisitOther, VisitNull, EnterCallback, CallbackReturns, shared
  <1> QED BY <1>1, <1>2, <1>3, <1>4, <1>5 DEF Step

-----------------------------------------------------------------------------
(* Isolation: what one call does to the others.                            *)

\* Nothing that is local to a slot changes.
SameLocals(d) ==
    /\ pc'[d] = pc[d] /\ req'[d] = req[d] /\ serial'[d] = serial[d]
    /\ line'[d] = line[d] /\ pos'[d] = pos[d] /\ hand'[d] = hand[d]
    /\ tree'[d] = tree[d] /\ acc'[d] = acc[d] /\ answer'[d] = answer[d]

\* Rewriting a tree that no location points into changes nothing.
LEMMA PutNullSame ==
    ASSUME NEW s \in Seq(Items), NEW v,
           \A i \in DOMAIN s : s[i].at \notin null_locations
    PROVE  PutNull(s, v) = s
  BY DEF PutNull

\* Every location belongs to the block that the holder of the lock is at.
LEMMA LocationsAreOwn ==
    ASSUME NEW c \in Slots, CallInv(c), Busy(c), NEW l \in null_locations
    PROVE  l[1] = c /\ l[2] = serial[c]
  BY DEF CallInv, OwnGlobals, At

\* An answer as a record made of its own fields.
LEMMA AnswerEta ==
    ASSUME NEW a \in Answers
    PROVE  a = [status |-> a.status, shape |-> a.shape, items |-> a.items]
  BY DEF Answers

\* The rewriting at the end of a block reaches no answer, and no other slot.
LEMMA EndLineFrame ==
    ASSUME SessionInv, NEW c \in Slots, EndLine(c), NEW d \in Slots
    PROVE  /\ answer'[d] = answer[d]
           /\ d # c => tree'[d] = tree[d] /\ acc'[d] = acc[d]
  <1> USE DEF SessionInv
  <1>1. CallInv(c) /\ Busy(c) /\ CallInv(d)
    BY DEF EndLine, Busy
  <1>2. answer[d] \in Answers /\ answer[d].items \in Seq(Items)
        /\ tree[d] \in Seq(Items) /\ acc[d] \in Seq(Items)
    BY DEF TypeInv, TypeOK, Answers
  <1>3. \A i \in DOMAIN answer[d].items : answer[d].items[i].at \notin null_locations
    BY <1>1, LocationsAreOwn DEF CallInv, OldAnswer, Busy
  <1>4. answer'[d] = answer[d]
    BY <1>2, <1>3, PutNullSame, AnswerEta DEF EndLine
  <1>5. ASSUME d # c PROVE tree'[d] = tree[d] /\ acc'[d] = acc[d]
    <2>1. parse_locker = c /\ pc[d] \notin Working
      BY <1>1, <1>5 DEF LockDiscipline, Busy, Working
    <2>2. tree[d] = <<>>
      BY <1>1, <2>1 DEF CallInv, OwnTree, Busy, Working
    <2>3. \A i \in DOMAIN acc[d] : acc[d][i].at \notin null_locations
      BY <1>1, <1>5, LocationsAreOwn DEF CallInv, OwnAcc
    <2>4. PutNull(acc[d], req[c].null) = acc[d]
      BY <1>2, <2>3, PutNullSame
    <2>5. PutNull(tree[d], req[c].null) = tree[d]
      BY <2>2 DEF PutNull
    <2> QED BY <1>5, <2>4, <2>5 DEF EndLine
  <1> QED BY <1>4, <1>5

\* A step of one slot leaves everything local to the others as it is.
LEMMA OtherLocals ==
    ASSUME SessionInv, NEW c \in Slots, NEW d \in Slots, c # d, Step(c)
    PROVE  SameLocals(d)
  <1> USE DEF SessionInv, TypeInv, TypeOK, SameLocals
  <1>1. CASE BadColumns(c) \/ BuildFails(c) \/ ParseFails(c) \/ Return(c)
             \/ CallbackRaises(c)
    BY <1>1 DEF BadColumns, BuildFails, ParseFails, Return, CallbackRaises, Leave
  <1>2. CASE Acquire(c) \/ Hit(c) \/ Build(c) \/ BeginLine(c) \/ ParseString(c)
    BY <1>2 DEF Acquire, Hit, Build, BeginLine, ParseString
  <1>3. CASE VisitOther(c) \/ VisitNull(c) \/ EnterCallback(c) \/ CallbackReturns(c)
    BY <1>3 DEF VisitOther, VisitNull, EnterCallback, CallbackReturns
  <1>4. CASE EndLine(c)
    BY <1>4, EndLineFrame DEF EndLine
  <1> QED BY <1>1, <1>2, <1>3, <1>4 DEF Step

\* CallInv of a slot that does not work depends on its local variables only.
LEMMA WaitingInv ==
    ASSUME NEW d \in Slots, CallInv(d), SameLocals(d),
           pc[d] \notin Working \/ UNCHANGED options
    PROVE  CallInv(d)'
  <1> USE DEF SameLocals
  <1>1. OwnGlobals(d)'
    BY DEF CallInv, OwnGlobals, Busy, Working, options, At
  <1>2. OwnHand(d)'
    BY DEF CallInv, OwnHand, Busy, Working, At, OwnItem, NextNode, Nodes, options
  <1>3. OwnTree(d)'
    BY DEF CallInv, OwnTree, Busy, Working, At, OwnItem, Nodes, options
  <1>4. OwnAcc(d)'
    BY DEF CallInv, OwnAcc, OwnItem
  <1>5. OldAnswer(d)'
    BY DEF CallInv, OldAnswer
  <1> QED BY <1>1, <1>2, <1>3, <1>4, <1>5 DEF CallInv

\* A step of one slot keeps the invariant of the others.
LEMMA OtherInv ==
    ASSUME SessionInv, NEW c \in Slots, NEW d \in Slots, c # d, Step(c)
    PROVE  CallInv(d)'
  <1>1. SameLocals(d) /\ CallInv(d)
    BY OtherLocals DEF SessionInv
  <1>2. CASE pc[c] \in Working
    BY <1>1, <1>2, WaitingInv DEF SessionInv, LockDiscipline
  <1>3. CASE pc[c] \notin Working
    <2>1. Acquire(c)
      BY <1>3, HandWorking
      DEF SessionInv, Step, BadColumns, Hit, Build, BuildFails, BeginLine, VisitOther,
          VisitNull, EnterCallback, CallbackReturns, CallbackRaises, ParseFails,
          ParseString, EndLine, Return, Walking, Working
    <2> QED BY <1>1, <2>1, WaitingInv DEF Acquire
  <1> QED BY <1>2, <1>3

-----------------------------------------------------------------------------
(* Isolation: what a call does to itself.                                  *)

\* A call that leaves keeps its invariant, if its answer is of its own nodes.
LEMMA LeaveInv ==
    ASSUME SessionInv, NEW c \in Slots, NEW a, Leave(c, a),
           \A i \in DOMAIN a.items :
              /\ a.items[i].at[1] = c
              /\ a.items[i].at[2] <= serial[c]
              /\ a.items[i].value = SqlNull => Stray(a.items[i])
    PROVE  CallInv(c)'
  <1> USE DEF SessionInv, TypeInv, TypeOK, Leave
  <1>1. pc'[c] = "idle" /\ tree'[c] = <<>> /\ hand'[c] = None /\ answer'[c] = a
        /\ acc'[c] = acc[c] /\ serial'[c] = serial[c]
    OBVIOUS
  <1>2. OwnGlobals(c)' /\ OwnHand(c)' /\ OwnTree(c)'
    BY <1>1 DEF OwnGlobals, OwnHand, OwnTree, Busy
  <1>3. OwnAcc(c)'
    BY <1>1 DEF OwnAcc, CallInv, Working
  <1>4. OldAnswer(c)'
    BY <1>1 DEF OldAnswer
  <1> QED BY <1>2, <1>3, <1>4 DEF CallInv

\* An exception gives the caller no tree.
LEMMA RaiseInv ==
    ASSUME SessionInv, NEW c \in Slots, Leave(c, Exception)
    PROVE  CallInv(c)'
  BY LeaveInv DEF Exception

\* A call that stays, and changes neither its tree nor the globals.
LEMMA AcquireInv ==
    ASSUME SessionInv, NEW c \in Slots, Acquire(c)
    PROVE  CallInv(c)'
  <1> USE DEF SessionInv, TypeInv, TypeOK, Acquire
  <1>1. pc[c] = "acquire" /\ pc'[c] = "lookup" /\ acc'[c] = <<>> /\ tree'[c] = tree[c]
        /\ hand'[c] = hand[c] /\ answer'[c] = answer[c] /\ serial'[c] = serial[c]
    OBVIOUS
  <1>2. OwnGlobals(c)' /\ OwnHand(c)' /\ OwnTree(c)'
    BY <1>1 DEF OwnGlobals, OwnHand, OwnTree, Busy, CallInv
  <1>3. OwnAcc(c)'
    BY <1>1 DEF OwnAcc
  <1>4. OldAnswer(c)'
    BY <1>1, SMTT(30) DEF OldAnswer, CallInv
  <1> QED BY <1>2, <1>3, <1>4 DEF CallInv

LEMMA LookupInv ==
    ASSUME SessionInv, NEW c \in Slots, Hit(c) \/ Build(c)
    PROVE  CallInv(c)'
  <1> USE DEF SessionInv, TypeInv, TypeOK, Hit, Build
  <1>1. pc[c] = "lookup" /\ pc'[c] = "next" /\ acc'[c] = acc[c] /\ tree'[c] = tree[c]
        /\ hand'[c] = hand[c] /\ answer'[c] = answer[c] /\ serial'[c] = serial[c]
        /\ req'[c] = req[c]
    OBVIOUS
  <1>2. OwnGlobals(c)' /\ OwnHand(c)' /\ OwnTree(c)'
    BY <1>1 DEF OwnGlobals, OwnHand, OwnTree, Busy, CallInv
  <1>3. OwnAcc(c)' /\ OldAnswer(c)'
    BY <1>1 DEF OwnAcc, OldAnswer, OwnItem, CallInv, Working
  <1> QED BY <1>2, <1>3 DEF CallInv

LEMMA BeginLineInv ==
    ASSUME SessionInv, NEW c \in Slots, BeginLine(c)
    PROVE  CallInv(c)'
  <1> USE DEF SessionInv, TypeInv, TypeOK
  <1> DEFINE n == line[c] + 1
             nodes == req[c].script[n].nodes
             items == [i \in DOMAIN nodes |-> Item(<<c, serial[c], n, i>>, Plain)]
  <1>1. pc[c] = "next" /\ pc'[c] = "parsing" /\ acc'[c] = acc[c] /\ hand'[c] = hand[c]
        /\ answer'[c] = answer[c] /\ serial'[c] = serial[c] /\ req'[c] = req[c]
        /\ line'[c] = n /\ pos'[c] = 0 /\ tree'[c] = items
        /\ null_locations' = {} /\ scrub_op' = Op(req[c]) /\ fmap' = Names(req[c])
        /\ line[c] < Len(req[c].script)
    BY DEF BeginLine, NewLocations
  <1>2. req[c] \in Requests
    BY <1>1 DEF HasRequest
  <1>3. nodes \in Seq(Node) /\ n \in 1 .. Len(req[c].script)
    <2>1. req[c].script \in Seq(Block) /\ line[c] \in Nat
      BY <1>2, RequestTypes
    <2>2. n \in 1 .. Len(req[c].script)
      <3> DEFINE last == Len(req[c].script)
                 l == line[c]
      <3>1. last \in Nat /\ l \in Nat /\ l < last
        BY <1>1, <2>1
      <3> HIDE DEF last, l
      <3>2. l + 1 \in 1 .. last
        BY ONLY <3>1
      <3> QED BY <3>2 DEF last, l
    <2>3. req[c].script[n] \in Block
      <3> HIDE DEF n
      <3> QED BY <2>1, <2>2
    <2> QED BY <2>2, <2>3 DEF Block
  <1>4. Len(items) = Len(nodes) /\ DOMAIN items = 1 .. Len(nodes)
    BY <1>3, SMTT(30)
  <1>5. \A i \in 1 .. Len(nodes) : items[i] = Item(<<c, serial[c], n, i>>, Plain)
    <2>1. DOMAIN nodes = 1 .. Len(nodes)
      BY <1>3
    <2> HIDE DEF nodes, n
    <2> QED BY <2>1
  <1>6. hand[c] = None
    BY <1>1 DEF CallInv, OwnHand, Busy
  <1>7. OwnGlobals(c)' /\ OwnHand(c)'
    BY <1>1, <1>6 DEF OwnGlobals, OwnHand
  <1>8. OwnTree(c)'
    <2>0. \A at : /\ Item(at, Plain).at = at
                  /\ Item(at, Plain).by = None
                  /\ Item(at, Plain).names = None
                  /\ Item(at, Plain).value = None
      BY DEF Item, Plain
    <2>1. \A i \in 1 .. Len(nodes) :
             /\ items[i].at = <<c, serial[c], n, i>>
             /\ items[i].by = None /\ items[i].names = None /\ items[i].value = None
      <3> SUFFICES ASSUME NEW i \in 1 .. Len(nodes)
                   PROVE  /\ items[i].at = <<c, serial[c], n, i>>
                          /\ items[i].by = None /\ items[i].names = None
                          /\ items[i].value = None
        OBVIOUS
      <3>1. items[i] = Item(<<c, serial[c], n, i>>, Plain)
        BY <1>5
      <3> HIDE DEF items, nodes, n
      <3> QED BY <3>1, <2>0
    <2>2. Nodes(c)' = nodes /\ \A i : At(c, i)' = <<c, serial[c], n, i>>
      BY <1>1 DEF Nodes, At
    <2>3. pos'[c] \in 0 .. Len(nodes)
      BY <1>1, <1>3
    <2> HIDE DEF items, nodes, n
    <2> QED BY <1>1, <1>3, <1>4, <2>1, <2>2, <2>3, CallbacksAssumption, ZenonT(60)
            DEF OwnTree, OwnItem, Busy
  <1>9. OwnAcc(c)' /\ OldAnswer(c)'
    BY <1>1, SMTT(30) DEF OwnAcc, OldAnswer, OwnItem, CallInv, Working
  <1> QED BY <1>7, <1>8, <1>9 DEF CallInv

\* The nodes of the current block are a sequence, and the next is one of them.
LEMMA BusyFacts ==
    ASSUME SessionInv, NEW c \in Slots, Busy(c)
    PROVE  /\ req[c] \in Requests
           /\ Nodes(c) \in Seq(Node)
           /\ Len(Nodes(c)) \in Nat
           /\ pos[c] \in Nat
           /\ pos[c] < Len(Nodes(c)) => /\ pos[c] + 1 \in 1 .. Len(Nodes(c))
                                        /\ NextNode(c) \in Node
           /\ tree[c] \in Seq(Items)
           /\ DOMAIN tree[c] = 1 .. Len(Nodes(c))
           /\ pc[c] \in Working
  <1> USE DEF SessionInv, TypeInv, TypeOK
  <1>1. req[c] \in Requests
    BY DEF HasRequest, Busy
  <1>2. OwnTree(c)
    BY DEF CallInv
  <1>3. req[c].script \in Seq(Block) /\ line[c] \in 1 .. Len(req[c].script)
    BY <1>1, <1>2, RequestTypes DEF OwnTree
  <1>4. req[c].script[line[c]] \in Block
    BY <1>3
  <1>5. Nodes(c) \in Seq(Node)
    BY <1>4 DEF Nodes, Block
  <1>6. tree[c] \in Seq(Items) /\ Len(tree[c]) = Len(Nodes(c))
    BY <1>2 DEF OwnTree
  <1> HIDE DEF SessionInv
  <1>7. pos[c] \in Nat
    BY DEF SessionInv
  <1>8. ASSUME pos[c] < Len(Nodes(c))
        PROVE  pos[c] + 1 \in 1 .. Len(Nodes(c)) /\ NextNode(c) \in Node
    <2>1. pos[c] + 1 \in 1 .. Len(Nodes(c))
      BY <1>5, <1>7, <1>8
    <2> QED BY <1>5, <2>1 DEF NextNode
  <1> QED BY <1>1, <1>5, <1>6, <1>7, <1>8 DEF Busy, Working

\* A step within a block that changes none of these keeps the rest.
LEMMA RestInv ==
    ASSUME NEW c \in Slots, CallInv(c), pc'[c] = pc[c], req'[c] = req[c],
           serial'[c] = serial[c], acc'[c] = acc[c], answer'[c] = answer[c]
    PROVE  OwnAcc(c)' /\ OldAnswer(c)'
  BY DEF CallInv, OwnAcc, OldAnswer, OwnItem

LEMMA VisitOtherInv ==
    ASSUME SessionInv, NEW c \in Slots, VisitOther(c)
    PROVE  CallInv(c)'
  <1>1. Busy(c) /\ CallInv(c) /\ hand[c] = None /\ pos[c] < Len(Nodes(c))
        /\ ~MeetsCall(c) /\ ~MeetsNull(c)
    BY DEF VisitOther, Walking, Busy, SessionInv
  <1>2. pc'[c] = pc[c] /\ req'[c] = req[c] /\ serial'[c] = serial[c]
        /\ acc'[c] = acc[c] /\ answer'[c] = answer[c] /\ tree'[c] = tree[c]
        /\ hand'[c] = hand[c] /\ line'[c] = line[c] /\ pos'[c] = pos[c] + 1
        /\ UNCHANGED options
    BY DEF VisitOther, SessionInv, TypeInv, TypeOK
  <1>3. OwnGlobals(c)' /\ OwnHand(c)'
    BY <1>1, <1>2 DEF CallInv, OwnGlobals, OwnHand, Busy, options, At
  <1>4. pc[c] = "scrubbing" => Nodes(c)[pos[c] + 1].kind \notin {"null", "call_null"}
    <2>1. NextNode(c).early \in BOOLEAN
      BY <1>1, BusyFacts DEF Node
    <2> QED BY <1>1, <2>1 DEF MeetsCall, MeetsNull, IsCall, NextNode
  <1>5. OwnTree(c)'
    <2>1. Nodes(c)' = Nodes(c) /\ \A i : At(c, i)' = At(c, i)
      BY <1>2 DEF Nodes, At
    <2>2. \A x : OwnItem(c, x)' <=> OwnItem(c, x)
      BY <1>2 DEF OwnItem
    <2> QED BY <1>1, <1>2, <1>4, <2>1, <2>2, BusyFacts
            DEF CallInv, OwnTree, Busy, options
  <1> QED BY <1>1, <1>2, <1>3, <1>5, RestInv DEF CallInv

LEMMA EnterCallbackInv ==
    ASSUME SessionInv, NEW c \in Slots, EnterCallback(c)
    PROVE  CallInv(c)'
  <1> DEFINE arg == Argument(NextNode(c))
             x   == Item(At(c, pos[c] + 1), CallNull(scrub_op, fmap, arg))
  <1>1. Busy(c) /\ CallInv(c) /\ pos[c] < Len(Nodes(c)) /\ IsCall(NextNode(c))
    BY DEF EnterCallback, Walking, Busy, SessionInv, MeetsCall
  <1>2. pc'[c] = pc[c] /\ req'[c] = req[c] /\ serial'[c] = serial[c]
        /\ acc'[c] = acc[c] /\ answer'[c] = answer[c] /\ tree'[c] = tree[c]
        /\ hand'[c] = x /\ line'[c] = line[c] /\ pos'[c] = pos[c]
        /\ scrub_op' = scrub_op /\ fmap' = fmap
    BY DEF EnterCallback, SessionInv, TypeInv, TypeOK
  <1>3. x.at = At(c, pos[c] + 1) /\ x.by = scrub_op /\ x.names = fmap /\ x.value = arg
    BY DEF Item, CallNull
  <1>4. OwnItem(c, x)
    BY <1>1, <1>3 DEF OwnItem, CallInv, OwnGlobals, Argument
  <1>5. Nodes(c)' = Nodes(c) /\ NextNode(c)' = NextNode(c)
        /\ \A j : At(c, j)[4] = j /\ At(c, j)' = At(c, j)
    BY <1>2 DEF Nodes, NextNode, At
  <1>6. \A y : OwnItem(c, y)' <=> OwnItem(c, y)
    BY <1>2 DEF OwnItem
  <1>7. /\ null_locations \subseteq null_locations'
        /\ \A l \in null_locations' : l \in null_locations \/ l = At(c, KwargsPlace(c))
        /\ NextNode(c).kind = "call_null" => At(c, KwargsPlace(c)) \in null_locations'
    BY DEF EnterCallback
  <1>8. pc[c] = "scrubbing" /\ arg = SqlNull =>
            At(c, pos[c] + 1) \in null_locations' \/ Stray(x)
    <2> SUFFICES ASSUME pc[c] = "scrubbing", arg = SqlNull, ~Stray(x)
                 PROVE  At(c, pos[c] + 1) \in null_locations'
      OBVIOUS
    <2>1. NextNode(c).kind = "call_null"
      BY CallbacksAssumption DEF Argument
    <2>2. scrub_op \in Callbacks
      BY DEF SessionInv, TypeInv, TypeOK
    <2>3. KwargsPlace(c) = pos[c] + 1
      BY <1>3, <2>2, CallbacksAssumption DEF KwargsPlace, Stray
    <2> QED BY <1>7, <2>1, <2>3
  <1> HIDE DEF x
  <1>9. OwnGlobals(c)'
    BY <1>1, <1>2, <1>5, <1>7 DEF CallInv, OwnGlobals, Busy
  <1>10. OwnHand(c)'
    <2> HIDE DEF arg
    <2>1. arg' = arg
      BY <1>5 DEF arg
    <2> QED BY <1>1, <1>2, <1>3, <1>4, <1>5, <1>6, <1>8, <2>1 DEF OwnHand, Busy, arg, IsCall
  <1>11. OwnTree(c)'
    BY <1>1, <1>2, <1>5, <1>6, <1>7 DEF CallInv, OwnTree, Busy, Stray
  <1> QED BY <1>1, <1>2, <1>9, <1>10, <1>11, RestInv DEF CallInv

LEMMA VisitNullInv ==
    ASSUME SessionInv, NEW c \in Slots, VisitNull(c)
    PROVE  CallInv(c)'
  <1> DEFINE i == pos[c] + 1
             x == [tree[c][i] EXCEPT !.value = SqlNull]
  <1>1. Busy(c) /\ CallInv(c) /\ hand[c] = None /\ pos[c] < Len(Nodes(c))
        /\ NextNode(c).kind \in {"null", "call_null"}
    BY DEF VisitNull, Walking, Busy, SessionInv, MeetsNull
  <1>2. pc'[c] = pc[c] /\ req'[c] = req[c] /\ serial'[c] = serial[c]
        /\ acc'[c] = acc[c] /\ answer'[c] = answer[c]
        /\ tree'[c] = [tree[c] EXCEPT ![i] = x]
        /\ hand'[c] = hand[c] /\ line'[c] = line[c] /\ pos'[c] = i
        /\ null_locations' = null_locations \cup {At(c, Place(c))}
        /\ scrub_op' = scrub_op /\ fmap' = fmap
    BY DEF VisitNull, SessionInv, TypeInv, TypeOK
  <1>4. pc[c] = "scrubbing" => Place(c) = i
    BY DEF Place
  <1>5. \A j : At(c, j)[4] = j /\ At(c, j)' = At(c, j)
    BY <1>2 DEF At
  <1>6. i \in 1 .. Len(Nodes(c)) /\ DOMAIN tree[c] = 1 .. Len(Nodes(c))
        /\ tree[c] \in Seq(Items)
    BY <1>1, BusyFacts
  <1>3. /\ tree[c][i] \in Items
        /\ x.at = At(c, i) /\ x.value = SqlNull
        /\ x.by = tree[c][i].by /\ x.names = tree[c][i].names
    <2>1. tree[c][i] \in Items
      BY <1>6
    <2>2. tree[c][i].at = At(c, i)
      BY <1>1, <1>6 DEF CallInv, OwnTree
    <2> QED BY <2>1, <2>2 DEF Items
  <1>7. OwnGlobals(c)' /\ OwnHand(c)'
    <2> HIDE DEF x, i
    <2> QED BY <1>1, <1>2, <1>5 DEF CallInv, OwnGlobals, OwnHand, Busy
  <1>8. OwnTree(c)'
    <2>1. Nodes(c)' = Nodes(c) /\ Nodes(c)[i].kind \in {"null", "call_null"}
      BY <1>1, <1>2 DEF Nodes, NextNode
    <2>2. \A y : OwnItem(c, y)' <=> OwnItem(c, y)
      BY <1>2 DEF OwnItem
    <2>3. OwnItem(c, x)
      BY <1>1, <1>3, <1>6 DEF OwnItem, CallInv, OwnTree
    <2>4. Len(tree'[c]) = Len(Nodes(c))
      <3>1. Len(tree[c]) = Len(Nodes(c))
        BY <1>1 DEF CallInv, OwnTree
      <3>2. x \in Items
        BY ONLY <1>3, ItemType
      <3> HIDE DEF x, i
      <3> QED BY <1>2, <1>6, <3>1, <3>2, ExceptSeq
    <2>5. ASSUME NEW j \in 1 .. Len(Nodes(c))
          PROVE  /\ tree'[c][j].at = At(c, j)
                 /\ OwnItem(c, tree'[c][j])
                 /\ tree'[c][j].value = SqlNull =>
                       /\ Nodes(c)[j].kind \in {"null", "call_null"}
                       /\ pc[c] = "scrubbing" /\ j <= i =>
                             At(c, j) \in null_locations' \/ Stray(tree'[c][j])
      <3>1. CASE j = i
        <4>1. tree'[c][j] = x
          BY <1>2, <1>6, <3>1
        <4> HIDE DEF x, i
        <4> QED BY <1>2, <1>3, <1>4, <2>1, <2>3, <3>1, <4>1
      <3>2. CASE j # i
        <4>1. tree'[c][j] = tree[c][j]
          BY <1>2, <1>6, <3>2
        <4>2. pos[c] \in Nat /\ (j <= i => j <= pos[c])
          BY <3>2, <1>1, BusyFacts
        <4> HIDE DEF x, i
        <4> QED BY <1>1, <1>2, <4>1, <4>2 DEF CallInv, OwnTree
      <3> QED BY <3>1, <3>2
    <2>6. line[c] \in 1 .. Len(req[c].script) /\ i \in 0 .. Len(Nodes(c))
      BY <1>1, <1>6 DEF CallInv, OwnTree
    <2> HIDE DEF x, i
    <2> QED BY <1>1, <1>2, <1>5, <2>1, <2>2, <2>4, <2>5, <2>6 DEF OwnTree, Busy
  <1> QED BY <1>1, <1>2, <1>7, <1>8, RestInv DEF CallInv

LEMMA CallbackReturnsInv ==
    ASSUME SessionInv, NEW c \in Slots, CallbackReturns(c)
    PROVE  CallInv(c)'
  <1> DEFINE i == pos[c] + 1
  <1>1. Busy(c) /\ CallInv(c) /\ hand[c] # None /\ pos[c] < Len(Nodes(c))
        /\ hand[c].at = At(c, i) /\ OwnItem(c, hand[c])
        /\ hand[c].value = Argument(NextNode(c))
        /\ (pc[c] = "scrubbing" /\ hand[c].value = SqlNull =>
              At(c, i) \in null_locations \/ Stray(hand[c]))
    BY DEF CallbackReturns, SessionInv, CallInv, OwnHand
  <1>2. pc'[c] = pc[c] /\ req'[c] = req[c] /\ serial'[c] = serial[c]
        /\ acc'[c] = acc[c] /\ answer'[c] = answer[c]
        /\ tree'[c] = [tree[c] EXCEPT ![i] = hand[c]]
        /\ hand'[c] = None /\ line'[c] = line[c] /\ pos'[c] = i
        /\ UNCHANGED options
    BY DEF CallbackReturns, SessionInv, TypeInv, TypeOK
  <1>3. \A j : At(c, j)' = At(c, j)
    BY <1>2 DEF At
  <1>4. i \in 1 .. Len(Nodes(c)) /\ DOMAIN tree[c] = 1 .. Len(Nodes(c))
        /\ tree[c] \in Seq(Items) /\ hand[c] \in Items
    BY <1>1, BusyFacts DEF SessionInv, TypeInv, TypeOK
  <1>5. OwnGlobals(c)' /\ OwnHand(c)'
    <2> HIDE DEF i
    <2> QED BY <1>1, <1>2, <1>3 DEF CallInv, OwnGlobals, OwnHand, Busy, options
  <1>6. OwnTree(c)'
    <2>1. Nodes(c)' = Nodes(c)
      BY <1>2 DEF Nodes
    <2>2. \A y : OwnItem(c, y)' <=> OwnItem(c, y)
      BY <1>2 DEF OwnItem
    <2>3. Len(tree'[c]) = Len(Nodes(c))
      BY <1>1, <1>2, <1>4, ExceptSeq DEF CallInv, OwnTree
    <2>4. ASSUME NEW j \in 1 .. Len(Nodes(c))
          PROVE  /\ tree'[c][j].at = At(c, j)
                 /\ OwnItem(c, tree'[c][j])
                 /\ tree'[c][j].value = SqlNull =>
                       /\ Nodes(c)[j].kind \in {"null", "call_null"}
                       /\ pc[c] = "scrubbing" /\ j <= i =>
                             At(c, j) \in null_locations' \/ Stray(tree'[c][j])
      <3>1. CASE j = i
        <4>1. tree'[c][j] = hand[c] /\ null_locations' = null_locations
          BY <1>2, <1>4, <3>1 DEF options
        <4>2. hand[c].value = SqlNull => Nodes(c)[j].kind = "call_null"
          BY <1>1, <3>1, CallbacksAssumption DEF Argument, NextNode
        <4> HIDE DEF i
        <4> QED BY <1>1, <3>1, <4>1, <4>2
      <3>2. CASE j # i
        <4>1. tree'[c][j] = tree[c][j]
          BY <1>2, <1>4, <3>2
        <4>2. pos[c] \in Nat /\ (j <= i => j <= pos[c])
          BY <3>2, <1>1, BusyFacts
        <4> HIDE DEF i
        <4> QED BY <1>1, <1>2, <4>1, <4>2 DEF CallInv, OwnTree, options
      <3> QED BY <3>1, <3>2
    <2>5. line[c] \in 1 .. Len(req[c].script) /\ i \in 0 .. Len(Nodes(c))
      BY <1>1, <1>4 DEF CallInv, OwnTree
    <2> HIDE DEF i
    <2> QED BY <1>1, <1>2, <1>3, <2>1, <2>2, <2>3, <2>4, <2>5 DEF OwnTree, Busy
  <1> QED BY <1>1, <1>2, <1>5, <1>6, RestInv DEF CallInv

LEMMA ParseStringInv ==
    ASSUME SessionInv, NEW c \in Slots, ParseString(c)
    PROVE  CallInv(c)'
  <1>1. pc[c] = "parsing" /\ Busy(c) /\ CallInv(c) /\ hand[c] = None
    BY DEF ParseString, Busy, SessionInv
  <1>2. pc'[c] = "scrubbing" /\ req'[c] = req[c] /\ serial'[c] = serial[c]
        /\ acc'[c] = acc[c] /\ answer'[c] = answer[c] /\ tree'[c] = tree[c]
        /\ hand'[c] = hand[c] /\ line'[c] = line[c] /\ pos'[c] = 0
        /\ UNCHANGED options
    BY DEF ParseString, SessionInv, TypeInv, TypeOK
  <1>3. OwnGlobals(c)' /\ OwnHand(c)'
    BY <1>1, <1>2 DEF CallInv, OwnGlobals, OwnHand, Busy, options, At
  <1>4. OwnTree(c)'
    <2>1. 0 \in 0 .. Len(Nodes(c)) /\ \A i \in 1 .. Len(Nodes(c)) : ~(i <= 0)
      BY <1>1, BusyFacts
    <2>2. Nodes(c)' = Nodes(c) /\ \A i : At(c, i)' = At(c, i)
      BY <1>2 DEF Nodes, At
    <2>3. \A x : OwnItem(c, x)' <=> OwnItem(c, x)
      BY <1>2 DEF OwnItem
    <2> QED BY <1>1, <1>2, <2>1, <2>2, <2>3 DEF CallInv, OwnTree, Busy
  <1>5. OwnAcc(c)' /\ OldAnswer(c)'
    BY <1>1, <1>2 DEF CallInv, OwnAcc, OldAnswer, OwnItem, Working
  <1> QED BY <1>3, <1>4, <1>5 DEF CallInv

\* At the end of a block every sentinel has its place in the list, and is
\* overwritten; the nodes join those of the earlier blocks.
LEMMA EndLineInv ==
    ASSUME SessionInv, NEW c \in Slots, EndLine(c)
    PROVE  CallInv(c)'
  <1> DEFINE s == acc[c] \o tree[c]
             null == req[c].null
  <1>1. pc[c] = "scrubbing" /\ Busy(c) /\ CallInv(c) /\ hand[c] = None
        /\ pos[c] = Len(Nodes(c))
    BY DEF EndLine, Busy, SessionInv
  <1>2. pc'[c] = "next" /\ req'[c] = req[c] /\ serial'[c] = serial[c]
        /\ acc'[c] = PutNull(s, null) /\ tree'[c] = <<>> /\ hand'[c] = hand[c]
    BY DEF EndLine, SessionInv, TypeInv, TypeOK
  <1>3. answer'[c] = answer[c]
    BY EndLineFrame
  <1>4. OwnGlobals(c)' /\ OwnHand(c)' /\ OwnTree(c)'
    BY <1>1, <1>2 DEF OwnGlobals, OwnHand, OwnTree, Busy
  <1>5. acc[c] \in Seq(Items) /\ tree[c] \in Seq(Items) /\ s \in Seq(Items)
        /\ serial[c] \in Nat /\ null \in Nulls
    BY <1>1, BusyFacts, RequestTypes DEF SessionInv, TypeInv, TypeOK
  <1>6. ASSUME NEW i \in DOMAIN s
        PROVE  /\ s[i].at[1] = c /\ s[i].at[2] <= serial[c] /\ OwnItem(c, s[i])
               /\ s[i].value = SqlNull => s[i].at \in null_locations \/ Stray(s[i])
    <2>1. CASE i \in DOMAIN acc[c]
      <3>1. s[i] = acc[c][i]
        BY <1>5, <2>1
      <3> HIDE DEF s
      <3> QED BY <1>1, <2>1, <3>1, BusyFacts DEF CallInv, OwnAcc
    <2>2. CASE i \notin DOMAIN acc[c]
      <3> DEFINE j == i - Len(acc[c])
      <3>1. j \in 1 .. Len(tree[c]) /\ s[i] = tree[c][j]
        BY <1>5, <2>2, ConcatIndex
      <3>2. j \in 1 .. Len(Nodes(c)) /\ j <= pos[c]
        BY <1>1, <3>1, BusyFacts DEF CallInv, OwnTree
      <3> HIDE DEF s, j
      <3>3. s[i].at = At(c, j) /\ OwnItem(c, s[i])
            /\ (s[i].value = SqlNull => s[i].at \in null_locations \/ Stray(s[i]))
        BY <1>1, <3>1, <3>2 DEF CallInv, OwnTree
      <3> QED BY <3>3, <1>5 DEF At
    <2> QED BY <2>1, <2>2
  <1>7. OwnAcc(c)'
    <2>1. ASSUME NEW i \in DOMAIN s
          PROVE  LET x == PutNull(s, null)[i] IN
                 /\ x.at[1] = c /\ x.at[2] <= serial[c] /\ OwnItem(c, x)
                 /\ x.value = SqlNull => Stray(x)
      <3> DEFINE y == [s[i] EXCEPT !.value = null]
      <3>0. s[i] \in Items
        <4> HIDE DEF s
        <4> QED BY <1>5
      <3>1. y.at = s[i].at /\ y.by = s[i].by /\ y.names = s[i].names /\ y.value = null
        BY <3>0 DEF Items
      <3>2. PutNull(s, null)[i] = IF s[i].at \in null_locations THEN y ELSE s[i]
        BY DEF PutNull
      <3> HIDE DEF s, y
      <3>3. OwnItem(c, y) /\ y.value # SqlNull
        BY <1>5, <1>6, <3>1, CallbacksAssumption DEF OwnItem
      <3> QED BY <1>6, <3>1, <3>2, <3>3
    <2>2. DOMAIN PutNull(s, null) = DOMAIN s
      BY DEF PutNull
    <2>3. \A x : OwnItem(c, x)' <=> OwnItem(c, x)
      BY <1>2 DEF OwnItem
    <2> HIDE DEF s, null
    <2> QED BY <1>2, <2>1, <2>2, <2>3 DEF OwnAcc
  <1>8. OldAnswer(c)'
    BY <1>1, <1>2, <1>3 DEF CallInv, OldAnswer
  <1> QED BY <1>4, <1>7, <1>8 DEF CallInv

LEMMA ReturnInv ==
    ASSUME SessionInv, NEW c \in Slots, Return(c)
    PROVE  CallInv(c)'
  <1>1. pc[c] \in Working /\ OwnAcc(c)
    BY DEF Return, Working, SessionInv, CallInv
  <1> QED BY <1>1, LeaveInv DEF Return, OwnAcc

LEMMA BeginInv ==
    ASSUME SessionInv, NEW c \in Slots, NEW r \in Requests, Begin(c, r), NEW d \in Slots
    PROVE  CallInv(d)'
  <1> USE DEF SessionInv, TypeInv, TypeOK
  <1>1. CASE d # c
    <2>1. SameLocals(d) /\ UNCHANGED options
      BY <1>1 DEF SameLocals, Begin
    <2> QED BY <2>1, WaitingInv
  <1>2. CASE d = c
    <2>1. pc[c] = "idle" /\ pc'[c] = "acquire" /\ serial'[c] = serial[c] + 1
          /\ tree'[c] = tree[c] /\ hand'[c] = hand[c] /\ acc'[c] = acc[c]
          /\ answer'[c] = answer[c]
      BY DEF Begin
    <2>2. CallInv(c)
      OBVIOUS
    <2>3. OwnGlobals(c)' /\ OwnHand(c)' /\ OwnTree(c)'
      BY <2>1, <2>2 DEF OwnGlobals, OwnHand, OwnTree, Busy, CallInv
    <2>a. OwnAcc(c) /\ OldAnswer(c) /\ serial[c] \in Nat
      BY <2>2 DEF CallInv
    <2>b. acc[c] \in Seq(Items) /\ answer[c].items \in Seq(Items)
      BY DEF Answers
    <2>4. \A i \in DOMAIN acc[c] : acc[c][i].at[2] \in Nat
      BY ONLY <2>b, SerialNat
    <2>5. OwnAcc(c)'
      BY ONLY <2>1, <2>a, <2>4 DEF OwnAcc, Working
    <2>6. \A i \in DOMAIN answer[c].items : answer[c].items[i].at[2] \in Nat
      BY ONLY <2>b, SerialNat
    <2>7. OldAnswer(c)'
      BY ONLY <2>1, <2>a, <2>6 DEF OldAnswer
    <2> QED BY <1>2, <2>3, <2>5, <2>7 DEF CallInv
  <1> QED BY <1>1, <1>2

-----------------------------------------------------------------------------
(* The inductive invariant, and what follows from it.                      *)

LEMMA OwnStep ==
    ASSUME SessionInv, NEW c \in Slots, Step(c)
    PROVE  CallInv(c)'
  <1>1. CASE BadColumns(c) \/ BuildFails(c) \/ CallbackRaises(c) \/ ParseFails(c)
    BY <1>1, RaiseInv DEF BadColumns, BuildFails, CallbackRaises, ParseFails
  <1>2. CASE ~(BadColumns(c) \/ BuildFails(c) \/ CallbackRaises(c) \/ ParseFails(c))
    BY <1>2, AcquireInv, LookupInv, BeginLineInv, VisitOtherInv, VisitNullInv,
       EnterCallbackInv, CallbackReturnsInv, ParseStringInv, EndLineInv, ReturnInv
    DEF Step
  <1> QED BY <1>1, <1>2

LEMMA SessionInit == Init => SessionInv
  <1> SUFFICES ASSUME Init PROVE SessionInv
    OBVIOUS
  <1>1. TypeInv
    BY TypeInit
  <1>2. LockDiscipline /\ ImportedBeforeUse
    BY SessionAssumption
    DEF Init, LockDiscipline, ImportedBeforeUse, Slots, Working
  <1>3. ASSUME NEW c \in Slots PROVE CallInv(c)
    BY DEF Init, CallInv, OwnGlobals, OwnHand, OwnTree, OwnAcc, OldAnswer, Busy, NoAnswer
  <1> QED BY <1>1, <1>2, <1>3 DEF SessionInv

LEMMA SessionNext == SessionInv /\ [Next]_vars => SessionInv'
  <1> SUFFICES ASSUME SessionInv, [Next]_vars PROVE SessionInv'
    OBVIOUS
  <1>0. TypeInv'
    BY TypeNext DEF SessionInv
  <1>1. ASSUME NEW c \in Slots, NEW r \in Requests, Begin(c, r)
        PROVE  SessionInv'
    <2>1. LockDiscipline' /\ ImportedBeforeUse'
      BY <1>1 DEF SessionInv, TypeInv, TypeOK, LockDiscipline, ImportedBeforeUse, Begin,
                  shared, Cached, Waiting, Working
    <2> QED BY <1>0, <1>1, <2>1, BeginInv DEF SessionInv
  <1>2. ASSUME NEW c \in Slots, Step(c) PROVE SessionInv'
    BY <1>0, <1>2, LockStep, ImportedStep, OwnStep, OtherInv DEF SessionInv
  <1>3. ASSUME UNCHANGED <<shared, options, locals>> PROVE SessionInv'
    <2>1. LockDiscipline' /\ ImportedBeforeUse'
      BY <1>3 DEF SessionInv, LockDiscipline, ImportedBeforeUse, Cached, shared, locals
    <2>2. ASSUME NEW d \in Slots PROVE CallInv(d)'
      <3>1. SameLocals(d) /\ CallInv(d) /\ UNCHANGED options
        BY <1>3 DEF SameLocals, locals, SessionInv
      <3> QED BY <3>1, WaitingInv
    <2> QED BY <1>0, <2>1, <2>2 DEF SessionInv
  <1>4. ASSUME NEW t \in Threads, NEW r \in Requests, Call_parse(t, r) \/ Reenter(t, r)
        PROVE  SessionInv'
    BY <1>1, <1>4 DEF Call_parse, Reenter, Slots
  <1>5. ASSUME NEW f \in Formatters, CallFormat(f) \/ FormatStep(f)
        PROVE  SessionInv'
    BY <1>3, <1>5, FormatFrame
  <1>6. CASE UNCHANGED vars
    BY <1>3, <1>6 DEF vars
  <1> QED BY <1>2, <1>4, <1>5, <1>6 DEF Next

LEMMA SessionInvariant == Spec => []SessionInv
  BY SessionInit, SessionNext, PTL DEF Spec

\* The lock is held exactly by the one call that is working, in every state:
\* neither a return nor an exception leaves it locked.
THEOREM OneCallWorks == Spec => []LockDiscipline
  <1>1. SessionInv => LockDiscipline
    BY DEF SessionInv
  <1> QED BY <1>1, SessionInvariant, PTL

\* _parse() never runs before the modules it needs have been imported.
THEOREM ImportsComeFirst == Spec => []ImportedBeforeUse
  <1>1. SessionInv => ImportedBeforeUse
    BY DEF SessionInv
  <1> QED BY <1>1, SessionInvariant, PTL

\* No call renders a node with options that another call put in the globals.
THEOREM CallsAreIsolated == Spec => []OwnOptions
  <1>1. ASSUME SessionInv, NEW c \in Slots, pc[c] \in Working
        PROVE  /\ \A i \in DOMAIN tree[c] : OwnItem(c, tree[c][i])
               /\ \A i \in DOMAIN acc[c] : OwnItem(c, acc[c][i])
    <2>1. \A i \in DOMAIN acc[c] : OwnItem(c, acc[c][i])
      BY <1>1 DEF SessionInv, CallInv, OwnAcc
    <2>2. CASE Busy(c)
      BY <1>1, <2>1, <2>2, BusyFacts DEF SessionInv, CallInv, OwnTree
    <2>3. CASE ~Busy(c)
      BY <1>1, <2>1, <2>3 DEF SessionInv, CallInv, OwnTree
    <2> QED BY <2>2, <2>3
  <1>2. SessionInv => OwnOptions
    BY <1>1 DEF OwnOptions
  <1> QED BY <1>2, SessionInvariant, PTL

\* The sentinel for NULL is replaced in every tree that a caller gets, but in
\* a node that another callback than simple_op, or another name, rendered.
THEOREM SentinelIsConfined == Spec => []SentinelConfined
  <1>1. SessionInv => SentinelConfined
    BY DEF SessionInv, CallInv, OldAnswer, SentinelConfined
  <1> QED BY <1>1, SessionInvariant, PTL

-----------------------------------------------------------------------------
(* What a step may never do.                                               *)

\* A step of one slot that is not at its end leaves its answer.
LEMMA AnswerStep ==
    ASSUME SessionInv, NEW c \in Slots, Step(c), NEW d \in Slots, answer'[d] # answer[d]
    PROVE  pc[d] # "idle" /\ pc'[d] = "idle"
  <1> USE DEF SessionInv, TypeInv, TypeOK
  <1>1. d = c
    BY OtherLocals DEF SameLocals
  <1>2. CASE BadColumns(c) \/ BuildFails(c) \/ CallbackRaises(c) \/ ParseFails(c)
             \/ Return(c)
    <2>1. pc[c] # "idle"
      BY <1>2, HandWorking DEF BadColumns, BuildFails, CallbackRaises, ParseFails, Return,
                               Working
    <2>2. pc'[c] = "idle"
      BY <1>2 DEF BadColumns, BuildFails, CallbackRaises, ParseFails, Return, Leave
    <2> QED BY <1>1, <2>1, <2>2
  <1>3. CASE Acquire(c) \/ Hit(c) \/ Build(c) \/ BeginLine(c) \/ ParseString(c)
    BY <1>1, <1>3 DEF Acquire, Hit, Build, BeginLine, ParseString
  <1>4. CASE VisitOther(c) \/ VisitNull(c) \/ EnterCallback(c) \/ CallbackReturns(c)
    BY <1>1, <1>4 DEF VisitOther, VisitNull, EnterCallback, CallbackReturns
  <1>5. CASE EndLine(c)
    BY <1>1, <1>5, EndLineFrame
  <1> QED BY <1>2, <1>3, <1>4, <1>5 DEF Step

\* A tree that a caller has been given is not changed by any later step of
\* the library, until the caller's own next call ends.
THEOREM AnswersStay == Spec => AnswersAreFinal
  <1> DEFINE Final == \A c \in Slots : answer'[c] # answer[c] =>
                                          pc[c] # "idle" /\ pc'[c] = "idle"
  <1>1. SessionInv /\ [Next]_vars => [Final]_vars
    <2> SUFFICES ASSUME SessionInv, Next PROVE Final
      OBVIOUS
    <2>1. ASSUME NEW t \in Threads, NEW r \in Requests, Call_parse(t, r) \/ Reenter(t, r)
          PROVE  Final
      BY <2>1 DEF Call_parse, Reenter, Begin
    <2>2. ASSUME NEW c \in Slots, Step(c) PROVE Final
      BY <2>2, AnswerStep
    <2>3. ASSUME NEW f \in Formatters, CallFormat(f) \/ FormatStep(f) PROVE Final
      BY <2>3, FormatFrame DEF locals
    <2> QED BY <2>1, <2>2, <2>3 DEF Next
  <1> QED BY <1>1, SessionInvariant, PTL DEF Spec, AnswersAreFinal

LEMMA SlotPair ==
    ASSUME NEW t \in Threads
    PROVE  <<t, 1>> \in Slots /\ <<t, 2>> \in Slots /\ <<t, 1>> # <<t, 2>>
  <1>1. <<t, 1>>[2] = 1 /\ <<t, 2>>[2] = 2
    OBVIOUS
  <1>2. <<t, 1>> # <<t, 2>>
    BY <1>1
  <1> QED BY <1>2 DEF Slots

LEMMA NestedNext ==
    ASSUME SessionInv, NestedWaits, [Next]_vars
    PROVE  /\ NestedWaits'
           /\ \A t \in Threads : pc[<<t, 2>>] = "acquire" => pc'[<<t, 2>>] = "acquire"
  <1> USE DEF SessionInv, TypeInv, TypeOK, NestedWaits
  <1> DEFINE Kept(t) == /\ pc'[<<t, 2>>] \in Waiting
                        /\ pc'[<<t, 2>>] = "acquire" => hand'[<<t, 1>>] # None
                        /\ pc[<<t, 2>>] = "acquire" => pc'[<<t, 2>>] = "acquire"
  <1>0. \A t \in Threads : <<t, 1>> \in Slots /\ <<t, 2>> \in Slots /\ <<t, 1>> # <<t, 2>>
    BY SlotPair
  <1>1. ASSUME NEW u \in Threads, NEW r \in Requests, Call_parse(u, r) \/ Reenter(u, r),
               NEW t \in Threads
        PROVE  Kept(t)
    BY <1>0, <1>1 DEF Call_parse, Reenter, Begin, Waiting
  <1>2. ASSUME NEW c \in Slots, Step(c), NEW t \in Threads
        PROVE  Kept(t)
    <2>1. CASE c # <<t, 1>> /\ c # <<t, 2>>
      BY <1>0, <1>2, <2>1, OtherLocals DEF SameLocals
    <2>2. CASE c = <<t, 2>>
      <3>1. hand'[<<t, 1>>] = hand[<<t, 1>>] /\ CallInv(c)
        BY <1>0, <1>2, <2>2, OtherLocals DEF SameLocals
      <3>2. Acquire(c)
        BY <1>2, <2>2, <3>1, HandWorking
        DEF Step, BadColumns, Hit, Build, BuildFails, BeginLine, VisitOther, VisitNull,
            EnterCallback, CallbackReturns, CallbackRaises, ParseFails, ParseString,
            EndLine, Return, Walking, Waiting, Working
      <3>3. pc[c] = "acquire" /\ parse_locker = Free
        BY <3>2 DEF Acquire, Available
      <3>4. parse_locker = <<t, 1>>
        BY <1>0, <2>2, <3>3, HandWorking DEF LockDiscipline
      <3> QED BY <1>0, <3>3, <3>4, SessionAssumption DEF Slots
    <2>3. CASE c = <<t, 1>>
      <3>1. pc'[<<t, 2>>] = pc[<<t, 2>>]
        BY <1>0, <1>2, <2>3, OtherLocals DEF SameLocals
      <3>2. ASSUME pc[<<t, 2>>] = "acquire" PROVE hand'[c] # None
        <4>1. hand[c] # None /\ Busy(c) /\ Inner(c) = <<t, 2>> /\ c[2] = 1
              /\ pos[c] < Len(Nodes(c)) /\ CallInv(c)
          BY <2>3, <3>2 DEF CallInv, OwnHand, Inner
        <4>2. pos[c] \in Nat /\ Len(Nodes(c)) \in Nat
          BY <4>1, BusyFacts
        <4>3. FALSE
          BY <1>2, <3>2, <4>1, <4>2
          DEF Step, Acquire, BadColumns, Hit, Build, BuildFails, BeginLine, VisitOther,
              VisitNull, EnterCallback, CallbackReturns, CallbackRaises, ParseFails,
              ParseString, EndLine, Return, Walking, Busy
        <4> QED BY <4>3
      <3> QED BY <2>3, <3>1, <3>2
    <2> QED BY <2>1, <2>2, <2>3
  <1>3. ASSUME UNCHANGED locals, NEW t \in Threads PROVE Kept(t)
    BY <1>3 DEF locals
  <1>4. ASSUME NEW f \in Formatters, CallFormat(f) \/ FormatStep(f), NEW t \in Threads
        PROVE  Kept(t)
    BY <1>3, <1>4, FormatFrame
  <1>5. \A t \in Threads : Kept(t)
    BY <1>1, <1>2, <1>3, <1>4 DEF Next, vars
  <1> QED BY <1>5

\* A callback that calls parse() waits for ever for the lock of the call that
\* runs it, whatever the other threads do.
THEOREM ReentryNeverServed == Spec => ReentryHangs
  <1> DEFINE Stays == \A t \in Threads : pc[<<t, 2>>] = "acquire" =>
                                            pc'[<<t, 2>>] = "acquire"
  <1>1. Init => NestedWaits
    BY DEF Init, NestedWaits, Waiting, Slots
  <1>2. SessionInv /\ NestedWaits /\ [Next]_vars => NestedWaits'
    BY NestedNext
  <1>3. SessionInv /\ NestedWaits /\ [Next]_vars => [Stays]_vars
    BY NestedNext
  <1> QED BY <1>1, <1>2, <1>3, SessionInvariant, PTL DEF Spec, ReentryHangs
=============================================================================
