------------------------------- MODULE MCScrub -------------------------------
(***************************************************************************)
(* Trees up to three deep: a call or dictionary of calls, lists,           *)
(* dictionaries and groups, with NULL in every place that has a rule of    *)
(* its own.  They are built nested, and stored on a heap.                  *)
(***************************************************************************)
EXTENDS Scrub, SequencesExt

F(k, v) == With(NoFields, k, v)

\* Nested trees: nodes of nodes and values.
Node(kind, op, elems, fields) ==
    [kind |-> kind, value |-> Nothing, op |-> op, elems |-> elems, fields |-> fields]

Leaf(value) ==
    [kind |-> "leaf", value |-> value, op |-> none, elems |-> <<>>, fields |-> NoFields]

RECURSIVE Store(_, _)

\* The nodes of a sequence on the heap, one by one: the heap, and the values.
StoreAll(nodes, heap) ==
    FoldLeft(LAMBDA done, node :
                LET stored == Store(node, done.heap)
                IN  [heap |-> stored.heap, roots |-> Append(done.roots, stored.root)],
             [heap |-> heap, roots |-> <<>>], nodes)

\* A node on the heap.  The tokens of a group are those of its names.
Store(node, heap) ==
    IF node.kind = "leaf" THEN Tree(heap, node.value) ELSE
    LET keys == SetToSeq(DOMAIN node.fields)
        elems == StoreAll(node.elems, heap)
        fields == StoreAll([n \in DOMAIN keys |-> node.fields[keys[n]]], elems.heap)
        x == Object(node.kind, node.op,
                    IF node.kind = "group" THEN elems.roots \o fields.roots ELSE elems.roots,
                    [k \in DOMAIN node.fields |->
                       fields.roots[CHOOSE n \in DOMAIN keys : keys[n] = k]])
    IN  Tree(Append(fields.heap, x), Ref(node.kind, Len(fields.heap) + 1))

Leaves == {Leaf(Atom("x")), Leaf(Null)}

Lists(S)    == {Node("list", none, s, NoFields) : s \in {<<a, b>> : a, b \in S} \cup {<<a>> : a \in S}}
Dicts(S)    == {Node("dict", none, <<>>, F("value", v)) : v \in S}
Kwargs(S)   == {NoFields} \cup {F("key", v) : v \in S}
Args(S)     == {<<>>} \cup {<<a>> : a \in S} \cup {<<a, b>> : a, b \in S}
Calls(S, T) == {Node("call", "f", s, k) : s \in Args(S), k \in Kwargs(T)}
Groups(S)   == {Node("group", none, <<v>>, NoFields) : v \in S}
               \cup {Node("group", none, <<>>, F("value", v)) : v \in S}

Inner ==
    Leaves \cup {Leaf(Nothing), Node("dict", none, <<>>, NoFields)}
    \cup Calls(Leaves, {Leaf(Null)}) \cup Lists(Leaves) \cup Dicts(Leaves)
    \cup Groups(Leaves \cup {Leaf(Nothing)})

Trees == {Store(node, <<>>) : node \in Calls(Inner, Leaves) \cup Dicts(Inner)}

AllCases ==
    [tree : Trees, calls : {"simple_op", "normal_op"}, fmap : {NoFields, F("f", "g")},
     null : {Atom("null1")}, early : BOOLEAN]

MCCases == {c \in AllCases : c.calls = "normal_op" => ArgumentsCount(c)}

PassCases == {c \in MCCases : Replaceable(c)}

FmapCases ==
    {c \in MCCases : /\ c.tree = Store(Node("call", "f", <<Leaf(Null)>>, NoFields), <<>>)
                     /\ c.calls = "simple_op" /\ c.fmap # NoFields}
=============================================================================
