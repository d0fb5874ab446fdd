---------------------------- MODULE ParseSession ----------------------------
(***************************************************************************)
(* The session layer of mo_sql_parsing: the entry points of __init__.py,   *)
(* the lock they share, the lazily built grammars, and the module globals  *)
(* of utils.py that carry one call's options to scrub().                   *)
(*                                                                         *)
(* A slot is a place a call can be made from: <<t, 1>> is thread t itself, *)
(* <<t, 2>> is the callback that t's call is running.  One action is one   *)
(* stretch of code between two points where another thread, or the         *)
(* caller's own callback, can observe or change the shared state.          *)
(***************************************************************************)
EXTENDS ParseCalls

CONSTANTS
    Threads,       \* threads that call one of the parse functions
    Formatters,    \* threads that call format()
    Free,          \* the lock when nobody holds it
    MaxCalls,      \* bound: calls made from one slot
    MaxFailures    \* bound: times that building a grammar fails

ASSUME SessionAssumption ==
    /\ Free \notin Threads \X {1, 2}
    /\ MaxCalls \in Nat
    /\ MaxFailures \in Nat

Slots   == Threads \X {1, 2}
Inner(c) == <<c[1], 2>>

VARIABLES
    \* Shared by every call.
    parse_locker,     \* the slot that holds the lock, or Free
    lookup_parsers,   \* the <<flavour, key>> pairs whose grammar is cached
    bound,            \* have `_utils` and `scrub` been imported?
    null_locations,   \* utils.null_locations: places to put a null in
    scrub_op,         \* utils.scrub_op
    fmap,             \* utils.fmap
    failures,         \* counts failed builds, for MaxFailures
    \* The local variables of the call in progress in each slot.
    pc, req,
    serial,           \* calls made from this slot: tells their trees apart
    line,             \* blocks begun
    pos,              \* nodes visited
    hand,             \* what the running callback is to return, or None
    tree,             \* nodes of the current block
    acc,              \* nodes of the earlier blocks
    answer,           \* what the last call gave its caller
    \* Progress of the format() calls.
    fmt

shared == <<parse_locker, lookup_parsers, bound, failures>>
options == <<null_locations, scrub_op, fmap>>
locals == <<pc, req, serial, line, pos, hand, tree, acc, answer>>
vars == <<shared, options, locals, fmt>>

(* A node of a tree under construction.  `at` is its identity: the slot    *)
(* and call that made it, the block, and its place in the block.           *)
Item(at, r) == [at |-> at, by |-> r.by, names |-> r.names, value |-> r.value]

At(c, i) == <<c, serial[c], line[c], i>>

Nodes(c) == req[c].script[line[c]].nodes

\* Variant to break ServiceSpec: one grammar per flavour, whatever the key.
CachedFlavour(c) == \E k \in Keys : <<req[c].flavour, k>> \in lookup_parsers

Cached(c) == <<req[c].flavour, req[c].key>> \in lookup_parsers

NoAnswer  == [status |-> "none", shape |-> "None", items |-> <<>>]
Exception == [status |-> "raised", shape |-> "None", items |-> <<>>]

Init ==
    /\ parse_locker = Free
    /\ lookup_parsers = {}
    /\ bound = FALSE
    /\ null_locations = {}
    /\ scrub_op = simple_op
    /\ fmap = no_fmap
    /\ failures = 0
    /\ pc = [c \in Slots |-> "idle"]
    /\ req = [c \in Slots |-> None]
    /\ serial = [c \in Slots |-> 0]
    /\ line = [c \in Slots |-> 0]
    /\ pos = [c \in Slots |-> 0]
    /\ hand = [c \in Slots |-> None]
    /\ tree = [c \in Slots |-> <<>>]
    /\ acc = [c \in Slots |-> <<>>]
    /\ answer = [c \in Slots |-> NoAnswer]
    /\ fmt = [f \in Formatters |-> "idle"]

-----------------------------------------------------------------------------
(* Entering: parse() and its siblings up to the cached grammar.            *)

Begin(c, r) ==
    /\ pc[c] = "idle"
    /\ serial[c] < MaxCalls
    /\ pc' = [pc EXCEPT ![c] = "acquire"]
    /\ req' = [req EXCEPT ![c] = r]
    /\ serial' = [serial EXCEPT ![c] = @ + 1]
    /\ UNCHANGED <<shared, options, line, pos, hand, tree, acc, answer, fmt>>

Call_parse(t, r) == Begin(<<t, 1>>, r)

\* The callback of t's call calls parse() itself.
Reenter(t, r) ==
    /\ hand[<<t, 1>>] # None
    /\ hand[<<t, 1>>].by \in Reentrant
    /\ Begin(<<t, 2>>, r)

\* Variants to break OwnOptions and ReentryHangs: no lock, and an RLock.
AvailableAlways(c) == TRUE
AvailableToOwner(c) == parse_locker \in {Free} \cup ({c[1]} \X {1, 2})

\* threading.Lock is not re-entrant: the holder's own thread waits too.
Available(c) == parse_locker = Free

Acquire(c) ==
    /\ pc[c] = "acquire"
    /\ Available(c)
    /\ parse_locker' = c
    /\ pc' = [pc EXCEPT ![c] = "lookup"]
    /\ line' = [line EXCEPT ![c] = 0]
    /\ acc' = [acc EXCEPT ![c] = <<>>]
    /\ UNCHANGED <<lookup_parsers, bound, failures, options, req, serial, pos, hand,
                   tree, answer, fmt>>

\* Variant to break LockDiscipline, HolderLeaves and EveryCallAnswered: the
\* lock is released on the normal path only.
LeaveHolding(c, a) ==
    /\ parse_locker' = IF a = Exception THEN parse_locker ELSE Free
    /\ pc' = [pc EXCEPT ![c] = "idle"]
    /\ req' = [req EXCEPT ![c] = None]
    /\ hand' = [hand EXCEPT ![c] = None]
    /\ tree' = [tree EXCEPT ![c] = <<>>]
    /\ answer' = [answer EXCEPT ![c] = a]
    /\ UNCHANGED <<serial, line, pos, acc, fmt>>

\* Leaving `with parse_locker`, by return or by exception.
Leave(c, a) ==
    /\ parse_locker' = Free
    /\ pc' = [pc EXCEPT ![c] = "idle"]
    /\ req' = [req EXCEPT ![c] = None]
    /\ hand' = [hand EXCEPT ![c] = None]
    /\ tree' = [tree EXCEPT ![c] = <<>>]
    /\ answer' = [answer EXCEPT ![c] = a]
    /\ UNCHANGED <<serial, line, pos, acc, fmt>>

BadColumns(c) ==
    /\ pc[c] = "lookup"
    /\ req[c].key \notin Keys
    /\ Leave(c, Exception)
    /\ UNCHANGED <<lookup_parsers, bound, failures, options>>

Hit(c) ==
    /\ pc[c] = "lookup"
    /\ Cached(c)
    /\ pc' = [pc EXCEPT ![c] = "next"]
    /\ UNCHANGED <<shared, options, req, serial, line, pos, hand, tree, acc,
                   answer, fmt>>

\* The imports bind `_utils` and `scrub` before the grammar is built.
Build(c) ==
    /\ pc[c] = "lookup"
    /\ req[c].key \in Keys
    /\ ~Cached(c)
    /\ bound' = TRUE
    /\ lookup_parsers' = lookup_parsers \cup {<<req[c].flavour, req[c].key>>}
    /\ pc' = [pc EXCEPT ![c] = "next"]
    /\ UNCHANGED <<parse_locker, failures, options, req, serial, line, pos, hand,
                   tree, acc, answer, fmt>>

\* Variant to break ImportedBeforeUse: the entry is filled in first.
BuildFailsCached(c) ==
    /\ pc[c] = "lookup"
    /\ req[c].key \in Keys
    /\ ~Cached(c)
    /\ failures < MaxFailures
    /\ failures' = failures + 1
    /\ bound' \in {bound, TRUE}
    /\ lookup_parsers' = lookup_parsers \cup {<<req[c].flavour, req[c].key>>}
    /\ Leave(c, Exception)
    /\ UNCHANGED options

\* An import fails, or building does (memory, recursion limit): nothing is
\* cached, and the next call tries again.
BuildFails(c) ==
    /\ pc[c] = "lookup"
    /\ req[c].key \in Keys
    /\ ~Cached(c)
    /\ failures < MaxFailures
    /\ failures' = failures + 1
    /\ bound' \in {bound, TRUE}
    /\ Leave(c, Exception)
    /\ UNCHANGED <<lookup_parsers, options>>

-----------------------------------------------------------------------------
(* One block of SQL: the body of the loop in _parse().                     *)

\* Variant to break AnswersAreFinal: the list is not renewed.
OldLocations == null_locations

NewLocations == {}

\* The options of the call become module globals, and the list of null
\* locations is a new one.  It needs the imports of Build: ImportedBeforeUse.
BeginLine(c) ==
    /\ pc[c] = "next"
    /\ line[c] < Len(req[c].script)
    /\ null_locations' = NewLocations
    /\ scrub_op' = Op(req[c])
    /\ fmap' = Names(req[c])
    /\ line' = [line EXCEPT ![c] = @ + 1]
    /\ pos' = [pos EXCEPT ![c] = 0]
    /\ tree' = [tree EXCEPT ![c] =
                  [i \in DOMAIN req[c].script[line[c] + 1].nodes |->
                     Item(<<c, serial[c], line[c] + 1, i>>, Plain)]]
    /\ pc' = [pc EXCEPT ![c] = "parsing"]
    /\ UNCHANGED <<shared, req, serial, hand, acc, answer, fmt>>

\* scrub() walks the nodes in order: during parse_string() those of window
\* frames, and after it all of them.
Walking(c) == pc[c] \in {"parsing", "scrubbing"} /\ hand[c] = None

NextNode(c) == Nodes(c)[pos[c] + 1]

\* A call that was rendered early is a dictionary by then.
MeetsCall(c) ==
    /\ IsCall(NextNode(c))
    /\ NextNode(c).early <=> pc[c] = "parsing"

\* A NULL in a list or dictionary: also in the one of a call rendered early.
MeetsNull(c) ==
    \/ NextNode(c).kind = "null" /\ (pc[c] = "parsing" => NextNode(c).early)
    \/ NextNode(c).kind = "call_null" /\ NextNode(c).early /\ pc[c] = "scrubbing"

VisitOther(c) ==
    /\ Walking(c)
    /\ pos[c] < Len(Nodes(c))
    /\ ~MeetsCall(c) /\ ~MeetsNull(c)
    /\ pos' = [pos EXCEPT ![c] = @ + 1]
    /\ UNCHANGED <<shared, options, pc, req, serial, line, hand, tree, acc, answer,
                   fmt>>

\* Variant to break RenderedSoFar: what was recorded once is not recorded again.
PlaceOnce(c) == IF NextNode(c).early THEN 0 ELSE pos[c] + 1

\* During parsing the null is recorded in a list or dictionary that the
\* later walk copies: place 0 stands for these, which are in no tree.
Place(c) == IF pc[c] = "parsing" THEN 0 ELSE pos[c] + 1

VisitNull(c) ==
    /\ Walking(c)
    /\ pos[c] < Len(Nodes(c))
    /\ MeetsNull(c)
    /\ null_locations' = null_locations \cup {At(c, Place(c))}
    /\ tree' = [tree EXCEPT ![c][pos[c] + 1].value = SqlNull]
    /\ pos' = [pos EXCEPT ![c] = @ + 1]
    /\ UNCHANGED <<shared, scrub_op, fmap, pc, req, serial, line, hand, acc, answer,
                   fmt>>

\* Variant to break SentinelConfined: a NULL that is alone is not recorded.
KwargsForgotten(c) == 0

\* The named arguments of a call, under the name of its function: in the tree
\* only if the callback puts the argument there, and under that name.
KwargsPlace(c) ==
    IF pc[c] = "scrubbing" /\ scrub_op = simple_op /\ fmap = no_fmap THEN pos[c] + 1 ELSE 0

Argument(node) == IF node.kind = "call_null" THEN SqlNull ELSE None

\* The place of a lone NULL is recorded, the globals are read, and the caller's
\* function is running after.
EnterCallback(c) ==
    /\ Walking(c)
    /\ pos[c] < Len(Nodes(c))
    /\ MeetsCall(c)
    /\ null_locations' = IF NextNode(c).kind = "call_null"
                         THEN null_locations \cup {At(c, KwargsPlace(c))}
                         ELSE null_locations
    /\ hand' = [hand EXCEPT ![c] =
                  Item(At(c, pos[c] + 1), CallNull(scrub_op, fmap, Argument(NextNode(c))))]
    /\ UNCHANGED <<shared, scrub_op, fmap, pc, req, serial, line, pos, tree, acc, answer,
                   fmt>>

CallbackReturns(c) ==
    /\ hand[c] # None
    /\ hand[c].by \notin Raising
    /\ c[2] = 1 => pc[Inner(c)] = "idle"
    /\ tree' = [tree EXCEPT ![c][pos[c] + 1] = hand[c]]
    /\ hand' = [hand EXCEPT ![c] = None]
    /\ pos' = [pos EXCEPT ![c] = @ + 1]
    /\ UNCHANGED <<shared, options, pc, req, serial, line, acc, answer, fmt>>

CallbackRaises(c) ==
    /\ hand[c] # None
    /\ hand[c].by \in Raising
    /\ c[2] = 1 => pc[Inner(c)] = "idle"
    /\ Leave(c, Exception)
    /\ UNCHANGED <<lookup_parsers, bound, failures, options>>

\* parse_string(line, parse_all=True) raises ParseException, at any point.
ParseFails(c) ==
    /\ pc[c] = "parsing"
    /\ hand[c] = None
    /\ ~req[c].script[line[c]].parses
    /\ Leave(c, Exception)
    /\ UNCHANGED <<lookup_parsers, bound, failures, options>>

ParseString(c) ==
    /\ pc[c] = "parsing"
    /\ hand[c] = None
    /\ pos[c] = Len(Nodes(c))
    /\ req[c].script[line[c]].parses
    /\ pc' = [pc EXCEPT ![c] = "scrubbing"]
    /\ pos' = [pos EXCEPT ![c] = 0]
    /\ UNCHANGED <<shared, options, req, serial, line, hand, tree, acc, answer, fmt>>

\* for o, n in null_locations: o[n] = null
\* The locations are references: they reach whatever tree they point into.
PutNull(items, v) ==
    [i \in DOMAIN items |->
       IF items[i].at \in null_locations THEN [items[i] EXCEPT !.value = v] ELSE items[i]]

\* An empty output is skipped, others are added to the accumulator.
EndLine(c) ==
    /\ pc[c] = "scrubbing"
    /\ hand[c] = None
    /\ pos[c] = Len(Nodes(c))
    /\ LET null == req[c].null IN
       /\ acc' = [d \in Slots |->
                    IF d = c THEN PutNull(acc[c] \o tree[c], null)
                    ELSE PutNull(acc[d], null)]
       /\ tree' = [d \in Slots |-> IF d = c THEN <<>> ELSE PutNull(tree[d], null)]
       /\ answer' = [d \in Slots |->
                       [status |-> answer[d].status, shape |-> answer[d].shape,
                        items |-> PutNull(answer[d].items, null)]]
    /\ pc' = [pc EXCEPT ![c] = "next"]
    /\ UNCHANGED <<shared, options, req, serial, line, pos, hand, fmt>>

Return(c) ==
    /\ pc[c] = "next"
    /\ line[c] = Len(req[c].script)
    /\ Leave(c, [status |-> "ok", shape |-> Shape(acc[c]), items |-> acc[c]])
    /\ UNCHANGED <<lookup_parsers, bound, failures, options>>

-----------------------------------------------------------------------------
(* format(): takes no lock, and asks the RESERVED grammar whether each     *)
(* identifier is a keyword, which is a parse_string() of its own.          *)

CallFormat(f) ==
    /\ fmt[f] = "idle"
    /\ fmt' = [fmt EXCEPT ![f] = "formatting"]
    /\ UNCHANGED <<shared, options, locals>>

IsKeyword(f) ==
    /\ fmt[f] = "formatting"
    /\ fmt' = [fmt EXCEPT ![f] = "keyword"]
    /\ UNCHANGED <<shared, options, locals>>

KeywordKnown(f) ==
    /\ fmt[f] = "keyword"
    /\ fmt' = [fmt EXCEPT ![f] = "formatting"]
    /\ UNCHANGED <<shared, options, locals>>

FormatReturns(f) ==
    /\ fmt[f] = "formatting"
    /\ fmt' = [fmt EXCEPT ![f] = "idle"]
    /\ UNCHANGED <<shared, options, locals>>

-----------------------------------------------------------------------------

\* What the library and the callbacks do, once a call has been made.
Step(c) ==
    \/ Acquire(c)
    \/ BadColumns(c) \/ Hit(c) \/ Build(c) \/ BuildFails(c)
    \/ BeginLine(c)
    \/ VisitOther(c) \/ VisitNull(c)
    \/ EnterCallback(c) \/ CallbackReturns(c) \/ CallbackRaises(c)
    \/ ParseFails(c) \/ ParseString(c)
    \/ EndLine(c) \/ Return(c)

FormatStep(f) == IsKeyword(f) \/ KeywordKnown(f) \/ FormatReturns(f)

Next ==
    \/ \E t \in Threads, r \in Requests : Call_parse(t, r) \/ Reenter(t, r)
    \/ \E c \in Slots : Step(c)
    \/ \E f \in Formatters : CallFormat(f) \/ FormatStep(f)

Spec == Init /\ [][Next]_vars

\* A thread that can run does run, and a callback comes back: every action
\* of a call is a stretch of straight-line code.
FairSpec == Spec /\ \A c \in Slots : WF_vars(Step(c))

-----------------------------------------------------------------------------
(* Properties.                                                             *)

Locations == Slots \X Nat \X Nat \X Nat

Items == [at : Locations,
          by : Callbacks \cup {None},
          names : Fmaps \cup {None},
          value : Nulls \cup {None, SqlNull}]

Answers == [status : {"none", "ok", "raised"},
            shape : {"None", "one", "list"},
            items : Seq(Items)]

Waiting == {"idle", "acquire"}
Working == {"lookup", "next", "parsing", "scrubbing"}

\* Every variable has its type.
TypeOK ==
    /\ parse_locker \in Slots \cup {Free}
    /\ lookup_parsers \subseteq Flavours \X Keys
    /\ bound \in BOOLEAN
    /\ null_locations \subseteq Locations
    /\ scrub_op \in Callbacks
    /\ fmap \in Fmaps
    /\ failures \in Nat
    /\ pc \in [Slots -> Waiting \cup Working]
    /\ req \in [Slots -> Requests \cup {None}]
    /\ serial \in [Slots -> Nat]
    /\ line \in [Slots -> Nat]
    /\ pos \in [Slots -> Nat]
    /\ hand \in [Slots -> Items \cup {None}]
    /\ tree \in [Slots -> Seq(Items)]
    /\ acc \in [Slots -> Seq(Items)]
    /\ answer \in [Slots -> Answers]
    /\ fmt \in [Formatters -> {"idle", "formatting", "keyword"}]

\* The lock is held exactly by the call that is past `with parse_locker`: two
\* calls never work at once, and no return or exception leaves it locked.
LockDiscipline ==
    \A c \in Slots : parse_locker = c <=> pc[c] \in Working

\* A grammar is in the cache only once the modules it came from are bound to
\* the globals that _parse() uses, and no block is begun before that.
ImportedBeforeUse ==
    /\ lookup_parsers # {} => bound
    /\ \A c \in Slots : pc[c] \in {"next", "parsing", "scrubbing"} => Cached(c)

\* x was made by call c with the options given to call c.
OwnItem(c, x) ==
    /\ x.by \in {None, Op(req[c])}
    /\ x.names \in {None, Names(req[c])}
    /\ x.value \in {None, req[c].null, SqlNull}

\* No call renders a function with another caller's callback or names, nor
\* puts another caller's null: the globals are one call's at a time.
OwnOptions ==
    \A c \in Slots : pc[c] \in Working =>
        /\ \A i \in DOMAIN tree[c] : OwnItem(c, tree[c][i])
        /\ \A i \in DOMAIN acc[c] : OwnItem(c, acc[c][i])

\* x was rendered under another name or by another callback than simple_op.
Stray(x) == x.by # None /\ (x.by # simple_op \/ x.names # no_fmap)

\* The internal sentinel for NULL reaches no caller, whether the NULL is in a
\* list, under a key or the argument of a call, in a frame or not, but as the
\* lone argument of a call that was renamed or rendered by another callback.
SentinelConfined ==
    \A c \in Slots : \A i \in DOMAIN answer[c].items :
        answer[c].items[i].value = SqlNull => Stray(answer[c].items[i])

(* The strengthening that makes these inductive, part by part.             *)

Busy(c) == pc[c] \in {"parsing", "scrubbing"}

\* While a block is being worked on, the globals are those of its call.
OwnGlobals(c) ==
    Busy(c) =>
        /\ scrub_op = Op(req[c])
        /\ fmap = Names(req[c])
        /\ \A l \in null_locations : l = At(c, l[4])

\* A callback runs only then, and with the options of its call.
OwnHand(c) ==
    hand[c] # None => /\ Busy(c)
                      /\ IsCall(NextNode(c))
                      /\ pos[c] < Len(Nodes(c))
                      /\ hand[c].at = At(c, pos[c] + 1)
                      /\ OwnItem(c, hand[c])
                      /\ hand[c].value = Argument(NextNode(c))
                      /\ pc[c] = "scrubbing" /\ hand[c].value = SqlNull =>
                            \/ At(c, pos[c] + 1) \in null_locations
                            \/ Stray(hand[c])

\* The tree of the block: nodes in place, sentinels at NULLs only, and after
\* parsing every sentinel passed by is in the list of null locations or stray.
OwnTree(c) ==
    IF Busy(c)
    THEN /\ line[c] \in 1 .. Len(req[c].script)
         /\ Len(tree[c]) = Len(Nodes(c))
         /\ pos[c] \in 0 .. Len(Nodes(c))
         /\ \A i \in 1 .. Len(Nodes(c)) :
               /\ tree[c][i].at = At(c, i)
               /\ OwnItem(c, tree[c][i])
               /\ tree[c][i].value = SqlNull =>
                     /\ Nodes(c)[i].kind \in {"null", "call_null"}
                     /\ pc[c] = "scrubbing" /\ i <= pos[c] =>
                           At(c, i) \in null_locations \/ Stray(tree[c][i])
    ELSE tree[c] = <<>>

\* The nodes of earlier blocks have no sentinel left, but for the stray ones.
OwnAcc(c) ==
    \A i \in DOMAIN acc[c] :
        /\ acc[c][i].at[1] = c
        /\ acc[c][i].at[2] <= serial[c]
        /\ pc[c] \in Working => /\ OwnItem(c, acc[c][i])
                                /\ acc[c][i].value = SqlNull => Stray(acc[c][i])

\* The nodes of an answer belong to a call that is over, and to no other.
OldAnswer(c) ==
    \A i \in DOMAIN answer[c].items :
        LET x == answer[c].items[i] IN
        /\ x.at[1] = c
        /\ x.at[2] <= serial[c]
        /\ pc[c] # "idle" => x.at[2] # serial[c]
        /\ x.value = SqlNull => Stray(x)

CallInv(c) == OwnGlobals(c) /\ OwnHand(c) /\ OwnTree(c) /\ OwnAcc(c) /\ OldAnswer(c)

HasRequest == \A c \in Slots : pc[c] # "idle" <=> req[c] # None

TypeInv == TypeOK /\ HasRequest

SessionInv ==
    /\ TypeInv
    /\ LockDiscipline
    /\ ImportedBeforeUse
    /\ \A c \in Slots : CallInv(c)

\* A tree that was given to a caller is not changed by later or concurrent
\* calls, though the list of null locations points into it for a while.
AnswersAreFinal ==
    [][\A c \in Slots : answer'[c] # answer[c] => pc[c] # "idle" /\ pc'[c] = "idle"]_vars

\* While a callback waits for its own call of parse(), it does not come back,
\* and the lock it waits for is that of the call that runs it.
NestedWaits ==
    \A t \in Threads :
        /\ pc[<<t, 2>>] \in Waiting
        /\ pc[<<t, 2>>] = "acquire" => hand[<<t, 1>>] # None

\* A call made by the callback of another call is never served.
ReentryHangs ==
    [][\A t \in Threads : pc[<<t, 2>>] = "acquire" => pc'[<<t, 2>>] = "acquire"]_vars

\* Once inside the lock, a call comes out of it.
HolderLeaves ==
    \A c \in Slots : (parse_locker = c) ~> (parse_locker # c)

\* Every call is answered, if clients make finitely many.
EveryCallAnswered ==
    \A c \in Slots : (pc[c] # "idle") ~> (pc[c] = "idle")

\* __init__.py:11 on the lock: "ENSURE ONLY ONE PARSING AT A TIME".
OnlyOneParsing ==
    ~ \E c \in Slots, f \in Formatters : pc[c] = "parsing" /\ fmt[f] = "keyword"

\* A node, and a tree, as the caller sees them: without identities.
Seen(x) == [by |-> x.by, names |-> x.names, value |-> x.value]

Bare(items) == [i \in DOMAIN items |-> Seen(items[i])]

(* What lets the session stand for the service: a call in progress has     *)
(* rendered, so far, what the service renders in one step.                 *)

BlocksDone(c) == IF Busy(c) THEN line[c] - 1 ELSE line[c]

\* The blocks that are done are rendered as they should be, and had nothing
\* in them for the call to fail on.
BlocksSoFar(c) ==
    pc[c] \in Working =>
        /\ BlocksDone(c) \in 0 .. Len(req[c].script)
        /\ pc[c] = "lookup" => line[c] = 0
        /\ Bare(acc[c]) = Rendering(req[c])[BlocksDone(c)]
        /\ \A i \in DOMAIN acc[c] : acc[c][i].at[3] <= BlocksDone(c)
        /\ \A n \in 1 .. BlocksDone(c) : ~BlockFails(req[c], req[c].script[n])

\* Has node i of the block met the callback, if it is a call?
Rendered(c, i) ==
    \/ Nodes(c)[i].early /\ pc[c] = "scrubbing"
    \/ (Nodes(c)[i].early \/ pc[c] = "scrubbing") /\ i <= pos[c]

\* A NULL waits for EndLine with the sentinel in its place, which is recorded
\* by then wherever it does not leak.
NodeSoFar(c, i) ==
    LET kind == Nodes(c)[i].kind
        x    == Seen(tree[c][i])
    IN  /\ kind = "plain" => x = Plain
        /\ kind = "call" =>
              IF Rendered(c, i)
              THEN x = Call(Op(req[c]), Names(req[c])) /\ Op(req[c]) \notin Raising
              ELSE x = Plain
        /\ kind = "call_null" =>
              IF Rendered(c, i)
              THEN /\ x = CallNull(Op(req[c]), Names(req[c]), SqlNull)
                   /\ Op(req[c]) \notin Raising
                   /\ pc[c] = "scrubbing" /\ i <= pos[c] =>
                         At(c, i) \in null_locations \/ Leaks(req[c], Nodes(c)[i])
              ELSE x = Plain
        /\ kind = "null" =>
              \/ x = Null(SqlNull)
              \/ x = Plain /\ ~(pc[c] = "scrubbing" /\ i <= pos[c])

BlockSoFar(c) ==
    Busy(c) =>
        /\ \A i \in DOMAIN Nodes(c) : NodeSoFar(c, i)
        /\ pc[c] = "scrubbing" => req[c].script[line[c]].parses
        /\ \A l \in null_locations :
              l[4] # 0 => /\ l[4] \in DOMAIN Nodes(c)
                          /\ Nodes(c)[l[4]].kind \in {"null", "call_null"}
                          /\ ~Leaks(req[c], Nodes(c)[l[4]])

HandSoFar(c) ==
    hand[c] # None => /\ hand[c].by = Op(req[c])
                      /\ hand[c].names = Names(req[c])
                      /\ NextNode(c).early <=> pc[c] = "parsing"
                      /\ pc[c] = "scrubbing" /\ NextNode(c).kind = "call_null" =>
                            \/ At(c, pos[c] + 1) \in null_locations
                            \/ Leaks(req[c], NextNode(c))

SoFar(c) == BlocksSoFar(c) /\ BlockSoFar(c) /\ HandSoFar(c)

\* At every moment, what a call has made of its script agrees with the
\* meaning of that script, block by block and node by node.
RenderedSoFar == \A c \in Slots : SoFar(c)

Service == INSTANCE ParseService WITH
    asked   <- req,
    answers <- [c \in Slots |->
                  [status |-> answer[c].status, shape |-> answer[c].shape,
                   items |-> Bare(answer[c].items)]],
    warm    <- lookup_parsers

\* The locked, lazily built, globally configured session answers every call
\* as the lock-free service does: with the meaning of its own arguments.
ServiceSpec == Service!Spec
=============================================================================
