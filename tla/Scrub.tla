-------------------------------- MODULE Scrub --------------------------------
(***************************************************************************)
(* utils.scrub(): from what the grammar's parse actions leave behind       *)
(* (Call objects, lists, dictionaries, groups) to the tree a caller gets,  *)
(* and the rewriting of NULLs in that tree by __init__._parse().           *)
(*                                                                         *)
(* NULL is one sentinel object.  While scrub() copies lists and            *)
(* dictionaries it records where it put the sentinel, as a reference to    *)
(* the container and a key; afterwards the caller's `null` is stored in    *)
(* these places.  The callback `calls` gets to see the sentinel, and       *)
(* decides whether the container it was recorded in ends up in the tree.   *)
(*                                                                         *)
(* A tree is on a heap: a sequence of objects, each after those it holds.  *)
(* So the recursion of scrub() is one over the positions of the heap, and  *)
(* what it makes of an object has positions that follow from the object's. *)
(***************************************************************************)
EXTENDS Naturals, Sequences, FiniteSets

CONSTANTS
    Cases,     \* what clients ask for: records of a tree and its options
    none       \* no such thing

(* A value is an atom (a text or a number), the sentinel, None, or a       *)
(* reference, which tells the kind of its object.                          *)
Value(kind, atom, at) == [kind |-> kind, atom |-> atom, at |-> at]

Atom(a)       == Value("atom", a, 0)
Null          == Value("null", none, 0)
Nothing       == Value("none", none, 0)
Ref(kind, at) == Value(kind, none, at)

Kinds == {"list", "dict", "call", "group"}
IsRef(v) == v.kind \in Kinds

(* A call has its arguments for elements, and the named ones for fields.   *)
(* mo_parsing's group can be read as a dictionary of its named tokens, or  *)
(* as the list of all of them.                                             *)
Object(kind, op, elems, fields) ==
    [kind |-> kind, op |-> op, elems |-> elems, fields |-> fields]

NoFields == [k \in {} |-> none]

List(elems)  == Object("list", none, elems, NoFields)
Dict(fields) == Object("dict", none, <<>>, fields)
Empty        == Dict(NoFields)

Tree(heap, root) == [heap |-> heap, root |-> root]

\* f with k set to v.
With(f, k, v) == [x \in DOMAIN f \cup {k} |-> IF x = k THEN v ELSE f[x]]

\* Where scrub() puts what it makes of object i: a list of its elements, a
\* dictionary of its fields, and what normal_op makes of a call.
ListAt(i) == 3 * i - 2
DictAt(i) == 3 * i - 1
CallAt(i) == 3 * i

-----------------------------------------------------------------------------
(* The callbacks of __init__.py, for the call at i: they get the name, the *)
(* scrubbed arguments, and the fields of the scrubbed dictionary.          *)

\* Variant to break NothingLost: the answer is a new dictionary.
SimpleOpNew(op, args, kwargs, i) ==
    With(NoFields, op, IF args = Nothing THEN Ref("dict", ListAt(i)) ELSE args)

\* Without arguments there is no list, and its place is an empty dictionary.
simple_op(op, args, kwargs, i) ==
    With(kwargs, op, IF args = Nothing THEN Ref("dict", ListAt(i)) ELSE args)

\* A single argument is put in a list of its own.  An empty dictionary is never
\* the first (ArgumentsCount): normal_op would leave all arguments out.
Listwrap(args, i) == IF args.kind = "list" THEN args ELSE Ref("list", ListAt(i))

normal_op(op, args, kwargs, i) ==
    LET named == With(NoFields, "op", Atom(op))
        called == IF args = Nothing THEN named
                  ELSE With(named, "args", Listwrap(args, i))
    IN  IF kwargs = NoFields THEN called
        ELSE With(called, "kwargs", Ref("dict", DictAt(i)))

Renamed(o, op) == IF op \in DOMAIN o.fmap THEN o.fmap[op] ELSE op

-----------------------------------------------------------------------------
(* scrub(): the values, where v has those of the earlier objects.          *)

Scrubbed(v, value) == IF IsRef(value) THEN v[value.at] ELSE value

\* None is left out of dictionaries
Named(v, x) ==
    [k \in {k \in DOMAIN x.fields : Scrubbed(v, x.fields[k]) # Nothing} |->
       Scrubbed(v, x.fields[k])]

\* and of lists.
Kept(v, x) == {k \in DOMAIN x.elems : Scrubbed(v, x.elems[k]) # Nothing}

\* The n-th of a set of positions.
Nth(positions, n) == CHOOSE k \in positions : Cardinality({j \in positions : j <= k}) = n

\* A group that has names is a dictionary.
Listed(v, x) ==
    IF x.kind = "group" /\ Named(v, x) # NoFields THEN <<>>
    ELSE [n \in 1 .. Cardinality(Kept(v, x)) |-> Scrubbed(v, x.elems[Nth(Kept(v, x), n)])]

\* An empty list is None, and a list of one is its element.
ScrubbedList(v, x, i) ==
    LET output == Listed(v, x) IN
    CASE Len(output) = 0 -> Nothing
      [] Len(output) = 1 -> output[1]
      [] OTHER -> Ref("list", ListAt(i))

ScrubbedObject(o, v, x, i) ==
    CASE x.kind = "call" ->
            Ref("dict", IF o.calls = "normal_op" THEN CallAt(i) ELSE DictAt(i))
      [] x.kind = "dict" -> Ref("dict", DictAt(i))
      [] OTHER -> IF Named(v, x) # NoFields THEN Ref("dict", DictAt(i))
                  ELSE ScrubbedList(v, x, i)

\* The value of every object.
ScrubbedAll(o, heap) ==
    LET value[i \in DOMAIN heap] == ScrubbedObject(o, value, heap[i], i) IN value

-----------------------------------------------------------------------------
(* The containers it makes, those of object i one after the other, and the *)
(* locations it records in them.                                           *)

\* A container that nothing refers to is left empty.
MadeList(o, v, x) ==
    IF \/ Len(Listed(v, x)) > 1
       \/ Len(Listed(v, x)) = 1 /\ x.kind = "call" /\ o.calls = "normal_op"
    THEN List(Listed(v, x)) ELSE Empty

MadeDict(o, v, x, i) ==
    Dict(IF x.kind = "call" /\ o.calls = "simple_op"
         THEN simple_op(Renamed(o, x.op), ScrubbedList(v, x, i), Named(v, x), i)
         ELSE Named(v, x))

MadeCall(o, v, x, i) ==
    IF x.kind = "call" /\ o.calls = "normal_op"
    THEN Dict(normal_op(Renamed(o, x.op), ScrubbedList(v, x, i), Named(v, x), i))
    ELSE Empty

Made(o, v, x, i) == <<MadeList(o, v, x), MadeDict(o, v, x, i), MadeCall(o, v, x, i)>>

\* Positions are per walk: each makes containers of its own.
Slot(walk, at, step) == [walk |-> walk, at |-> at, step |-> step]
Field(k) == <<k, 0>>
Index(i) == <<none, i>>

\* Variant to break NullsReplaced: only the first null of a list is recorded.
ListLocsFirst(v, x, i, walk) ==
    LET output == Listed(v, x)
        nulls == {k \in DOMAIN output : output[k] = Null}
    IN  {Slot(walk, ListAt(i), Index(k)) :
            k \in {j \in nulls : Len(output) > 1 /\ \A n \in nulls : j <= n}}

ListLocs(v, x, i, walk) ==
    LET output == Listed(v, x) IN
    {Slot(walk, ListAt(i), Index(k)) :
        k \in {j \in DOMAIN output : Len(output) > 1 /\ output[j] = Null}}

DictLocs(v, x, i, walk) ==
    {Slot(walk, DictAt(i), Field(k)) : k \in {j \in DOMAIN Named(v, x) : Named(v, x)[j] = Null}}

\* A call whose argument is NULL alone is recorded under the name it had
\* before fmap, in the container of its named arguments.
CallLocs(v, x, i, walk) ==
    IF x.kind = "call" /\ ScrubbedList(v, x, i) = Null
    THEN {Slot(walk, DictAt(i), Field(x.op))} ELSE {}

MadeHeap(o, heap) ==
    [at \in 1 .. 3 * Len(heap) |->
       LET i == (at + 2) \div 3
       IN  Made(o, ScrubbedAll(o, heap), heap[i], i)[at + 3 - 3 * i]]

\* What no reference leads to is made as well, and belongs to no tree.
Locations(o, heap, walk) ==
    LET v == ScrubbedAll(o, heap) IN
    UNION {ListLocs(v, heap[i], i, walk) \cup DictLocs(v, heap[i], i, walk)
             \cup CallLocs(v, heap[i], i, walk) : i \in DOMAIN heap}

scrub(o, tree, walk) ==
    [out  |-> Tree(MadeHeap(o, tree.heap), Scrubbed(ScrubbedAll(o, tree.heap), tree.root)),
     locs |-> Locations(o, tree.heap, walk)]

PutIn(x, steps, null) ==
    LET keys == {s[1] : s \in steps} IN
    CASE x.kind = "list" ->
            List([k \in DOMAIN x.elems |-> IF Index(k) \in steps THEN null ELSE x.elems[k]])
      [] x.kind = "dict" ->
            Dict([k \in DOMAIN x.fields \cup keys |-> IF k \in keys THEN null ELSE x.fields[k]])

\* for o, n in null_locations: o[n] = null.  A key that is new is added.
\* Locations of another walk are not in this tree.
Put(tree, walk, locs, null) ==
    Tree([at \in DOMAIN tree.heap |->
            PutIn(tree.heap[at],
                  {l.step : l \in {m \in locs : m.walk = walk /\ m.at = at}}, null)],
         tree.root)

-----------------------------------------------------------------------------
(* One block of SQL: windows.py may scrub part of it while it is parsed,   *)
(* _parse() scrubs all of it, then puts the nulls in.                      *)

VARIABLES
    asked,            \* the case
    result,           \* what the grammar has so far
    null_locations,
    output,           \* what scrub() made of it
    stage

vars == <<asked, result, null_locations, output, stage>>

Init ==
    /\ asked \in Cases
    /\ result = asked.tree
    /\ null_locations = {}
    /\ output = Tree(<<>>, Nothing)
    /\ stage = "parsing"

\* {"neg": tree}
Neg(tree) ==
    Tree(Append(tree.heap, Dict(With(NoFields, "neg", tree.root))),
         Ref("dict", Len(tree.heap) + 1))

\* _to_bound_call: the limit of a window frame becomes its scrubbed self.
ScrubLimit ==
    /\ stage = "parsing"
    /\ asked.early
    /\ LET early == scrub(asked, asked.tree, "early") IN
       /\ early.out.root.kind = "dict"
       /\ result' = Neg(early.out)
       /\ null_locations' = early.locs
    /\ stage' = "parsed"
    /\ UNCHANGED <<asked, output>>

ParseString ==
    /\ stage = "parsing"
    /\ ~asked.early
    /\ stage' = "parsed"
    /\ UNCHANGED <<asked, result, null_locations, output>>

ScrubResult ==
    /\ stage = "parsed"
    /\ LET whole == scrub(asked, result, "whole") IN
       /\ output' = whole.out
       /\ null_locations' = null_locations \cup whole.locs
    /\ stage' = "scrubbed"
    /\ UNCHANGED <<asked, result>>

PutNulls ==
    /\ stage = "scrubbed"
    /\ output' = Put(output, "whole", null_locations, asked.null)
    /\ stage' = "done"
    /\ UNCHANGED <<asked, result, null_locations>>

Next == ScrubLimit \/ ParseString \/ ScrubResult \/ PutNulls

Spec == Init /\ [][Next]_vars

-----------------------------------------------------------------------------
(* What clients ask for.                                                   *)

IsSequence(s) == s \in Seq({s[n] : n \in DOMAIN s})

\* What object i of a heap may hold.
IsValue(value, heap, i) ==
    \/ value = Atom(value.atom) \/ value \in {Null, Nothing}
    \/ /\ IsRef(value)
       /\ value.at \in 1 .. i - 1
       /\ value = Ref(heap[value.at].kind, value.at)

\* What the grammar makes: lists have no fields and dictionaries no elements,
\* and the tokens of a group are named or not, all of them.
IsObject(x) ==
    /\ x.kind \in Kinds /\ IsSequence(x.elems)
    /\ x.kind = "list" => x.fields = NoFields
    /\ x.kind = "dict" => x.elems = <<>>
    /\ x.kind = "group" /\ x.fields # NoFields =>
         {x.elems[n] : n \in DOMAIN x.elems} = {x.fields[k] : k \in DOMAIN x.fields}

IsTree(tree) ==
    /\ IsSequence(tree.heap)
    /\ \A i \in DOMAIN tree.heap :
          LET x == tree.heap[i] IN
          /\ IsObject(x)
          /\ \A n \in DOMAIN x.elems : IsValue(x.elems[n], tree.heap, i)
          /\ \A k \in DOMAIN x.fields : IsValue(x.fields[k], tree.heap, i)
    /\ IsValue(tree.root, tree.heap, Len(tree.heap) + 1)

\* What normal_op tests: the first argument is not an empty dictionary.  The
\* grammar has empty dictionaries for values of names alone, such as all_columns.
ArgumentsCount(c) ==
    LET v == ScrubbedAll(c, c.tree.heap)
        made == MadeHeap(c, c.tree.heap)
    IN  \A i \in DOMAIN c.tree.heap :
          LET x == c.tree.heap[i]
              args == ScrubbedList(v, x, i)
              first == IF args.kind = "list" THEN made[args.at].elems[1] ELSE args
          IN  x.kind = "call" /\ first.kind = "dict" => made[first.at].fields # NoFields

\* No call has an argument by its own name.
IsCase(c) ==
    /\ IsTree(c.tree)
    /\ \A i \in DOMAIN c.tree.heap :
          LET x == c.tree.heap[i] IN
          x.kind = "call" => {x.op, Renamed(c, x.op)} \cap DOMAIN x.fields = {}
    /\ c.calls \in {"simple_op", "normal_op"}
    /\ c.calls = "normal_op" => ArgumentsCount(c)
    /\ c.null = Atom(c.null.atom)

ASSUME CasesAssumption == \A c \in Cases : IsCase(c)

\* Those in which each NULL can be replaced: something is around it, a call of
\* NULL alone keeps its name, and what normal_op makes is not scrubbed again.
Replaceable(c) ==
    LET v == ScrubbedAll(c, c.tree.heap) IN
    /\ Scrubbed(v, c.tree.root) # Null
    /\ \A i \in DOMAIN c.tree.heap :
          LET x == c.tree.heap[i] IN
          x.kind = "call" /\ ScrubbedList(v, x, i) = Null =>
            c.calls = "simple_op" /\ Renamed(c, x.op) = x.op
    /\ c.early => c.calls = "simple_op"

-----------------------------------------------------------------------------
(* What a caller may expect.                                               *)

Replaced(value, null) == IF value = Null THEN null ELSE value

ReplacedIn(x, null) ==
    Object(x.kind, x.op, [n \in DOMAIN x.elems |-> Replaced(x.elems[n], null)],
           [k \in DOMAIN x.fields |-> Replaced(x.fields[k], null)])

ReplacedAll(heap, null) == [i \in DOMAIN heap |-> ReplacedIn(heap[i], null)]

\* The tree of the same SQL, with the value written where NULL is.
Substituted(tree, null) ==
    Tree(ReplacedAll(tree.heap, null), Replaced(tree.root, null))

\* A tree without positions: what is at each, and then at the root.
BareValue(bare, value) == IF IsRef(value) THEN bare[value.at] ELSE value

BareObject(bare, x) ==
    Object(x.kind, x.op, [n \in DOMAIN x.elems |-> BareValue(bare, x.elems[n])],
           [k \in DOMAIN x.fields |-> BareValue(bare, x.fields[k])])

BareAll(heap) ==
    LET bare[i \in DOMAIN heap] == BareObject(bare, heap[i]) IN bare

Bare(tree) == BareValue(BareAll(tree.heap), tree.root)

\* The atoms in a tree.
AtomsOf(atoms, value) ==
    IF IsRef(value) THEN atoms[value.at]
    ELSE IF value.kind = "atom" THEN {value.atom} ELSE {}

AtomsOfObject(atoms, x) ==
    UNION ({AtomsOf(atoms, x.elems[n]) : n \in DOMAIN x.elems}
           \cup {AtomsOf(atoms, x.fields[k]) : k \in DOMAIN x.fields})

AtomsAll(heap) ==
    LET atoms[i \in DOMAIN heap] == AtomsOfObject(atoms, heap[i]) IN atoms

Atoms(tree) == AtomsOf(AtomsAll(tree.heap), tree.root)

Expected ==
    LET whole == scrub(asked, Substituted(asked.tree, asked.null), "whole").out
    IN  IF asked.early THEN Neg(whole) ELSE whole

\* README.md:68, 72: the post-parse rewriting puts the caller's null wherever
\* NULL is in the SQL, and changes nothing else: the tree is the one that SQL
\* with the value in place of NULL has, and scrubbing part of it early makes
\* no difference.
NullsReplaced == stage = "done" => Bare(output) = Bare(Expected)

\* Everything that was in the SQL is in the tree.
NothingLost ==
    stage = "done" => Atoms(Substituted(asked.tree, asked.null)) \subseteq Atoms(output)
=============================================================================
