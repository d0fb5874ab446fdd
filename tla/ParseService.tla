---------------------------- MODULE ParseService ----------------------------
(***************************************************************************)
(* What the entry points of mo_sql_parsing promise to their callers, with  *)
(* no lock, no module globals and no lazily built parser in sight: a call  *)
(* is answered with the meaning of its own arguments, whatever other calls *)
(* are in progress or were made before, and an answer never changes once   *)
(* given.  A call ends with an exception only if its own arguments are at  *)
(* fault, or if the grammar it needs has never been built before.          *)
(***************************************************************************)
EXTENDS ParseCalls

CONSTANT Slots         \* the places a call can be made from

VARIABLES
    asked,     \* the request each slot is waiting for, or None
    answers,   \* the last answer each slot was given
    warm       \* the <<flavour, key>> pairs whose grammar exists

vars == <<asked, answers, warm>>

NoAnswer  == [status |-> "none", shape |-> "None", items |-> <<>>]
Exception == [status |-> "raised", shape |-> "None", items |-> <<>>]
Answer(r) ==
    LET items == Rendering(r)[Len(r.script)]
    IN  [status |-> "ok", shape |-> Shape(items), items |-> items]

Init ==
    /\ asked = [c \in Slots |-> None]
    /\ answers = [c \in Slots |-> NoAnswer]
    /\ warm = {}

Ask(c, r) ==
    /\ asked[c] = None
    /\ asked' = [asked EXCEPT ![c] = r]
    /\ UNCHANGED <<answers, warm>>

Warm(c) ==
    /\ asked[c] # None
    /\ asked[c].key \in Keys
    /\ warm' = warm \cup {<<asked[c].flavour, asked[c].key>>}
    /\ UNCHANGED <<asked, answers>>

Reply(c) ==
    /\ asked[c] # None
    /\ ~Fails(asked[c])
    /\ <<asked[c].flavour, asked[c].key>> \in warm
    /\ answers' = [answers EXCEPT ![c] = Answer(asked[c])]
    /\ asked' = [asked EXCEPT ![c] = None]
    /\ UNCHANGED warm

Refuse(c) ==
    /\ asked[c] # None
    /\ \/ Fails(asked[c])
       \/ <<asked[c].flavour, asked[c].key>> \notin warm
    /\ answers' = [answers EXCEPT ![c] = Exception]
    /\ asked' = [asked EXCEPT ![c] = None]
    /\ UNCHANGED warm

Next ==
    \E c \in Slots :
        \/ \E r \in Requests : Ask(c, r)
        \/ Warm(c)
        \/ Reply(c)
        \/ Refuse(c)

Spec == Init /\ [][Next]_vars
=============================================================================
