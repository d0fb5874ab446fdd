----------------------------- MODULE ParseCalls -----------------------------
(***************************************************************************)
(* What a caller hands to parse(), parse_mysql(), parse_sqlserver() and    *)
(* parse_bigquery() (mo_sql_parsing/__init__.py), and what those arguments *)
(* denote.  Shared by ParseService, which says what a call promises, and   *)
(* ParseSession, which is the code.                                        *)
(*                                                                         *)
(* A block of SQL is abstracted to the sequence of nodes of its parse tree *)
(* that the options can reach: a function call (rendered by the caller's   *)
(* `calls` under the names of `fmap`), a NULL in a list or under a key     *)
(* (replaced by the caller's `null`), a call of NULL alone, which is both, *)
(* or anything else.  An early node sits in a window frame, whose parse    *)
(* action already calls scrub() while the text is being parsed.            *)
(***************************************************************************)
EXTENDS Naturals, Sequences

CONSTANTS
    Flavours,    \* the four grammars: keys of lookup_parsers
    Keys,        \* legal values of all_columns: "*" and None
    Callbacks,   \* functions a caller can pass as `calls`
    Fmaps,       \* dictionaries a caller can pass as `fmap`
    Nulls,       \* values a caller can pass as `null`
    Raising,     \* callbacks that raise an exception
    Reentrant,   \* callbacks that call parse() themselves
    Requests,    \* the calls that clients may make
    simple_op,   \* the callback used when `calls` is None
    no_fmap,     \* the empty dictionary used when `fmap` is None
    SqlNull,     \* the sentinel utils.SQL_NULL, a NULL that is not replaced yet
    None         \* Python's None: option not given, nothing here

ASSUME CallbacksAssumption ==
    /\ simple_op \in Callbacks
    /\ no_fmap \in Fmaps
    /\ None \notin Callbacks \cup Fmaps \cup Nulls
    /\ SqlNull \notin Nulls \cup {None}
    /\ Raising \subseteq Callbacks
    /\ Reentrant \subseteq Callbacks

Node == [kind : {"plain", "call", "call_null", "null"}, early : BOOLEAN]

IsCall(node) == node.kind \in {"call", "call_null"}

\* One string that parse_delimiters() yields; `parses` says whether the
\* grammar accepts all of it.
Block == [nodes : Seq(Node), parses : BOOLEAN]

\* all_columns is any value: one outside Keys is the caller's mistake.
IsRequest(r) ==
    /\ r.flavour \in Flavours
    /\ r.calls \in Callbacks \cup {None}
    /\ r.fmap \in Fmaps \cup {None}
    /\ r.null \in Nulls
    /\ r.script \in Seq(Block)

ASSUME RequestsAssumption ==
    /\ None \notin Requests
    /\ \A r \in Requests : IsRequest(r)

\* Variant to break TypeOK: the default is forgotten.
OpNoDefault(r) == r.calls

\* calls or simple_op
Op(r) == IF r.calls = None THEN simple_op ELSE r.calls

\* fmap or {}
Names(r) == IF r.fmap = None THEN no_fmap ELSE r.fmap

\* What a node has become: which callback rendered it under which names, and
\* the value that is in it or in its place.
Plain              == [by |-> None, names |-> None, value |-> None]
Call(op, f)        == [by |-> op, names |-> f, value |-> None]
CallNull(op, f, v) == [by |-> op, names |-> f, value |-> v]
Null(v)            == [by |-> None, names |-> None, value |-> v]

-----------------------------------------------------------------------------
(* The meaning of a request, from its own arguments alone.                 *)

\* The one NULL that is not replaced.  Its place is taken down before the call
\* is rendered, as the key of the function's own name in the named arguments:
\* under another name, or in what a callback other than simple_op makes, it is
\* somewhere else.  An early call is met again as the dictionary it became.
\* Any fmap but the empty one renames these functions, and any callback but
\* simple_op makes a container of its own.
Leaks(r, node) ==
    /\ node.kind = "call_null" /\ ~node.early
    /\ Op(r) # simple_op \/ Names(r) # no_fmap

RenderNode(r, node) ==
    CASE node.kind = "plain" -> Plain
      [] node.kind = "call"  -> Call(Op(r), Names(r))
      [] node.kind = "null"  -> Null(r.null)
      [] node.kind = "call_null" ->
            CallNull(Op(r), Names(r), IF Leaks(r, node) THEN SqlNull ELSE r.null)

RenderBlock(r, block) ==
    [i \in DOMAIN block.nodes |-> RenderNode(r, block.nodes[i])]

\* The rendering of the first n blocks, one after the other.
Rendering(r) ==
    LET upTo[n \in 0 .. Len(r.script)] ==
            IF n = 0 THEN <<>>
            ELSE upTo[n - 1] \o RenderBlock(r, r.script[n])
    IN  upTo

HasCall(block) == \E i \in DOMAIN block.nodes : IsCall(block.nodes[i])

BlockFails(r, block) ==
    \/ ~block.parses
    \/ HasCall(block) /\ Op(r) \in Raising

\* The caller's own mistakes, any of which ends the call with an exception.
Fails(r) ==
    \/ r.key \notin Keys
    \/ \E i \in DOMAIN r.script : BlockFails(r, r.script[i])

\* One result is returned bare, no result is None, several are a list.  Results
\* are statements in the code, and stand for themselves by their nodes here.
Shape(items) ==
    CASE Len(items) = 0 -> "None"
      [] Len(items) = 1 -> "one"
      [] OTHER -> "list"
=============================================================================
