# A verification project for mo-sql-parsing

`mo_sql_parsing` turns SQL into a JSON tree (`parse` and its dialects) and a tree
back into SQL (`format`).  This directory models the parts of it that have
state, an order of events, or rules that depend on one another, checks them
with TLC on small instances, and proves the most important facts about the
session layer, `scrub()`, the splitting of scripts, window frames, INSERT and the
signs of durations with TLAPS for every instance.  All line numbers refer to `src/mo_sql_parsing/`.

## 1. Inventory

| component | code | state | operations | what makes it correct |
|---|---|---|---|---|
| session: entry points, lock, lazy grammars | `__init__.py` 9-120 | `parse_locker`, `lookup_parsers`, and the globals `null_locations`, `scrub_op`, `fmap` of `utils.py` | `parse`, `parse_mysql`, `parse_sqlserver`, `parse_bigquery`, `_get_or_create_parser`, `_parse` | a call is answered from its own arguments; the lock comes free again; answers do not change |
| scrub and callbacks | `utils.py` 63-107, `__init__.py` 135-152 | the recorded null locations | `scrub`, `simple_op`, `normal_op`, rewriting of NULL | each NULL becomes the caller's value and nothing else changes |
| script splitter | `__init__.py` 155-186 | rest of the script, current delimiter | `parse_delimiters` | the statements that a line by line reading gives; no text lost; ends |
| window frames | `windows.py`, `formatting.py` 233-277 | none | `_to_bound_call`, `_to_between_call`, `Formatter.value` | the range means what the frame says; text and back |
| operators | `keywords.py` 282-408, `utils.py` 121-300, `formatting.py` 64-88, 136-163, 330-356, 381-421, 477-506 | none | `to_json_operator`, `to_tuple_call`, `to_case_call`, `to_switch_call`, `Operator`, `_not`, `_binary_not`, `_missing`, `_exists`, `_collate`, `_between`, `_in`, `_regexp`, `_case` | the tree computes what the SQL says; parentheses left out are not needed |
| set operations, ordered queries | `sql_parser.py` 493-628, `utils.py` 657-748, `formatting.py` 576-738 | none | `to_union_call`, `to_query`, `ordered_query`, `unordered_query`, `union`, `from_` | the tree asks for the rows of the text; text and back |
| intervals | `sql_parser.py` 147-225, `utils.py` 396-463, `keywords.py` 410-498, `formatting.py` 441-449 | none | `to_interval_call`, `cast_interval_call`, `_interval` | every amount keeps its sign and unit |
| VALUES, INSERT, REPLACE | `utils.py` 213-235, 555-582, 691-724, `formatting.py` 748-778 | none | `to_values`, `to_insert_call`, `Formatter.insert` | no row or value lost |
| joins and tables | `sql_parser.py` 441-447, 496, 546-565, `keywords.py` 170-181, 263-275, `utils.py` 497-512, `formatting.py` 539-558, 685-704 | none | `to_join_call`, `_join_on`, `from_` | the list of the tree and its text join the same rows as the query |
| names and texts | `utils.py` 758-850, `formatting.py` 21-61, 451-469 | none | `single_literal`, `double_column`, `backtick_column`, `escape`, `_literal` | what is between quotes comes through unchanged |
| statements and DDL, other formatting | `sql_parser.py`, `types.py`, `keywords.py`, `formatting.py` | none | grammar rules | one declaration to one node |
| `mo_parsing`, `mo_dots` | external | grammar caches | `parse_string`, `infix_notation` | assumed |

How they interact.  A call takes the lock, looks up or builds its grammar
(`sql_parser.py`), and for each string that the splitter yields sets the
globals of `utils.py`, has `mo_parsing` run the parse actions of the grammar,
and calls `scrub()` on the result.  `scrub()` calls back into the user's
`calls`, under the lock and with the globals in place; `windows.py` calls it
early, while the text is still being parsed.  Afterwards the places recorded
in `null_locations` are overwritten with the user's `null`.  `format()` shares
nothing with this but the `RESERVED` grammar, and does not take the lock.

What is hard here: several threads on one lock and a set of module globals;
callbacks that raise or call `parse()` again; a grammar build that fails half
way; a two-pass tree whose first pass records references that the second must
still find; text cut by regular expressions; and two directions (parse, format)
with separate tables of precedence that have to agree.  Nothing is persisted
and no messages are exchanged, so there is no crash recovery and no lost
delivery.  The hazards, each at its line, are in `PROJECT.json`.

## 2. Modules

| module | stands for | checked by | proofs |
|---|---|---|---|
| `ParseCalls` | arguments of a call, and what they denote | | |
| `ParseService` | abstract: lock-free, stateless answers | | |
| `ParseSession` | `__init__.py`, and `scrub()` as interleaved steps | `MCParseSession` | `ParseSessionProofs`, `ParseRefinementProofs` |
| `Scrub` | `scrub()` and the callbacks on trees | `MCScrub` | `ScrubProofs` |
| `Delimiters` | `parse_delimiters()` | `MCDelimiters` | `DelimitersProofs` |
| `WindowFrame` | frames, parsed and formatted | `MCWindowFrame` | `WindowFrameProofs` |
| `Intervals` | durations: pieces, signs, units | `MCOperators` | `IntervalsProofs` |
| `Quoting` | names and texts between quotes | `MCOperators` | |
| `Operators` | expressions of these, parsed and formatted | `MCOperators` | |
| `Joins` | tables and joins of FROM, and the rows they give | `MCSetOperations` | |
| `SetOperations` | set operations and their clauses | `MCSetOperations` | |
| `InsertValues` | INSERT of rows, parsed and formatted | `MCInsertValues` | `InsertValuesProofs` |
| `NatSetInduction` | nothing: induction over numbers, for the proofs | | its own |

### ParseCalls, ParseService, ParseSession

A *slot* is a place a call can be made from: `<<t, 1>>` is thread `t`, and
`<<t, 2>>` the callback that `t`'s call is running.  `pc[c]` is where the call
is: `acquire` (35-36), `lookup` (85-97), `next` (head of the loop, 101),
`parsing` (106), `scrubbing` (107).  One action is one stretch of code after
which another thread or a callback may look: `Acquire`; `Hit`, `Build`,
`BuildFails`, `BadColumns` for `_get_or_create_parser`; `BeginLine` sets the
globals (102-105); `VisitOther`, `VisitNull`, `EnterCallback` are the kinds of
value `scrub()` meets; `CallbackReturns`, `CallbackRaises`, `Reenter` are the
user's function; `ParseFails`, `ParseString`; `EndLine` rewrites the nulls and
extends the accumulator (108-115); `Return` (116-120).  Every way out goes
through `Leave`, the end of the `with` statement.

A tree is the sequence of its nodes that the options can reach, each with an
identity (slot, call, block, place).  Null locations are identities, so that
`EndLine` writes through them into whatever tree they point at: this is what
makes `AnswersAreFinal` a question.  A node marked `early` sits in a window
frame and is visited during `parsing`; a null recorded then is recorded in a
container the later walk copies, which is place 0.  Building a grammar is one
action: it happens under the lock and touches nothing but the cache.

A call of NULL alone (kind `call_null`) is both a call and a NULL.  Its place is
recorded by `EnterCallback` before it is rendered, as the key of the function's
own name in the named arguments (`utils.py` 79, `KwargsPlace`).  That place is in
the tree only if `simple_op` renders the call and nothing renames it; otherwise
it is place 0, and the sentinel stays in the answer.  So it is in the code, and
`RenderNode` says so of the request (`Leaks`).  Scrubbed early, such a call is a
dictionary by the time of the second walk, which records its NULL like any
other.  Two simplifications: any fmap but `{}` renames these functions, and any
callback but `simple_op` makes a container of its own.  And `Shape` counts the
nodes of an answer where the code counts the results of its blocks, in the
service and in the session alike.

`ParseService` has three variables: what each slot asked, what it was last
answered, and which grammars exist.  It answers with `Rendering`, computed
from the request alone.  `ServiceSpec` says that the session, under the map
`asked <- req`, `answers <- answer` without identities and
`warm <- lookup_parsers`, is such a service.  `RenderedSoFar` is what holds
between two answers: the blocks that are done are rendered as `Rendering` has
them, and so are the nodes that the walk has passed in the block at work.

### Scrub

A tree is on a heap, a sequence of objects (list, dictionary, call, group) each
after those it refers to; a value is an atom, the sentinel, None or a reference.
The recursion of `scrub()` is a recursive function over the positions of the
heap (`ScrubbedAll`), as in the code a matter of an object and of what its parts
were scrubbed to.  What is made of object `i` has three positions: a list of its
elements (`ListAt`), a dictionary of its fields (`DictAt`) and what `normal_op`
makes of a call (`CallAt`); `simple_op` writes into the dictionary it is given,
which is why its result is at `DictAt`.  A null location is a walk, a position
and a key or index, recorded by `ListLocs`, `DictLocs` and `CallLocs` whether or
not the tree still refers to that position; `Put` is the loop of lines 108-109,
which adds a key that is not there.  Four actions: `ScrubLimit` (`windows.py`,
the walk `early`) or `ParseString`, then `ScrubResult` (the walk `whole`), then
`PutNulls`.

`Replaceable` says when each NULL has a place in the tree that it can be
replaced in.  `NullsReplaced` compares the answer with what the same code makes
of the SQL that has the caller's value where NULL was; `Bare` forgets positions.

### Delimiters

Text is a sequence of tokens (words, characters of delimiters, and a DELIMITER
command as one).  The two regular expressions are sets of matches with the
leftmost, greedy one chosen.  The reference of `SameAsClient` is a client that
reads line by line and ends a statement only at the end of a line (MySQL's own
client ends one inside a line too, which the code does not try to do); the code
searches from the left over whole blocks.  `NothingLost` is a law that holds at every step: what was yielded,
followed by what is left (`Left`), has the words of the script in order, where
`Kept` leaves out space and the tokens that delimiters are made of.

What follows DELIMITER on its line, without the space around it, is the argument:
it may have space inside, and never the end of a line (`IsDelimiter`).  The two
agree on such scripts because a match of the splitter has to reach the end of
its line over space alone, and a command has to stand alone on its line; where
that is not asked (`EndersAnywhere`), they come apart.

### WindowFrame, Operators, SetOperations, InsertValues

All four take what a client writes through `parse`, `format` and `parse`
again, in three actions, with the code's rules as operators.  Precedences are
doubled, as the code adds and subtracts one half.

`Operators` evaluates both
expression and tree over small numbers; `SetOperations` evaluates text and tree
to rows, with bags for the set operations and a sequence under ORDER BY,
OFFSET and LIMIT.  `infix_notation` is external and modelled from the way
`sql_parser.py` 380-403 uses it: level by level, binary operators from the
left, NOT from the right.  BETWEEN takes its AND with it, and what has words or
a list of its own (CASE, a call, IN's list) is an item of kind `call`.  A CASE
with a value becomes one with conditions (`to_switch_call`).

`Intervals` and `Quoting` are the leaves of `Operators`.  A duration is a
sequence of pieces as the grammar finds them, each with the sign before it or
`ago` behind; `SaidOf` is SQL's reading, and both that and the tree are sums of
amounts with a weight for each unit.  A name or text is a sequence of
characters.  `literal_eval` is what Python makes of the text between the quotes
that the parse actions put around it, and `Content` is SQL's reading: nothing
but the quote is special.  `literal_field` and `split_field` of `mo_dots`
double the dots inside the parts of a name, as src/tests/test_bigquery.py:417
shows (`a.b.c` in backticks is a..b..c); dots at the ends of a part, for which
no test shows what they do, are not among the inputs.

A range of `WindowFrame` has no unit: ROWS and RANGE are suppressed
(`windows.py` 79), and `Written` always says ROWS, as `formatting.py` 242 does.
`Offsets` are the limits of a frame and `Meaning` its limits and its unit.
`LimitsKept` compares limits, for both units; `FrameMeaning` compares the meaning
of the text with that of the frame, which a frame of RANGE loses.

`Joins` reads the items of a FROM one by one.  A join whose table is followed
by another join has that one as its child (`sql_parser.py` 441-447), so that ON
goes to the last open join, and `to_join_call` puts the child behind its parent
in one list (`ReadOn`, `ReadJoin`).  `MeaningOfFrom` is SQL's reading, with a
stack of operands, and `RowsOfFrom` that of the list: each join with all before
it.  USING of one column is written without parentheses (`UsingBare`,
`formatting.py` 557), which this grammar reads (`Unwrapped`) and SQL does not:
`IsSql` says that a text has no such USING, and `SameRows`, which gives the text
SQL's reading, is about these texts only.  `SetOperations` has these lists in its
FROM clauses, with queries among the tables.

Set operations are taken to be of equal rank, from the left, which is what
SQLite (the source that `keywords.py` 283 names for its table) and
`to_union_call` do; other databases rank INTERSECT above the rest.

`InsertValues` keeps the three forms in which rows can reach the tree: as
dictionaries keyed by the columns, as lists, or as a query of SELECTs joined by
UNION ALL.  Which one it is depends on the truth value of the cells
(`to_values`), so a single 0, empty text, computed cell or NULL sends the
statement down another path, with another text.  A NULL counts as computed
because the parser has it as a `Call`, for which `get_literal` answers None.
IF EXISTS is in the tree as `if_exists`, and the formatter looks for `if exists`
(`formatting.py` 763, 768, 775): no text has it.  Dictionaries lose the order of the columns and the formatter
sorts them (`SortedColumns`); `Added` says which rows a statement, a tree or a
text adds, by column name, and is what all three are compared by.
`sorted()` is `Sorted`, by the place of each column among the others.

## 3. Runs

| run | what it shows |
|---|---|
| `session` | two threads with two calls each, calls from inside callbacks, and a `format()`; requests that differ in flavour, form, callback, names and null, with three blocks, an empty block, text that does not parse, a raising callback, a misspelt `all_columns`, and a failing build. NULLs are in lists, under keys and alone in calls. Isolation, lock discipline, the sentinel answered only where it leaks from a renamed or otherwise rendered call of NULL alone (`SentinelConfined`), what is rendered so far, final answers, refinement of `ParseService`, and the self-deadlock of a nested call |
| `liveness` | with callbacks that do not re-enter, a holder leaves and every call is answered |
| `format_lock` | **violation**: `format()` parses keywords while a call is parsing |
| `scrub` | NULLs replaced and nothing lost, in trees up to three deep |
| `scrub_fmap` | **violation**: `f(NULL)` with `fmap` f to g leaks the sentinel |
| `delimiters` | statements of the client, nothing lost, and the generator ends |
| `frame` | of every frame between rows, the limits through `parse` (`LimitsKept`, ROWS and RANGE), the meaning through `parse` and `format` (`FrameMeaning`, ROWS), the range read back (`RoundTrip`), and no exception |
| `frame_expr` | **violation**: `RANGE e FOLLOWING` becomes e preceding |
| `operators` | value kept, one form, round trip, for operators of every kind over names, durations, quoted names and texts |
| `set_operations` | the tree asks for the rows of the text (`MeaningKept`), what is written for the tree asks for them again wherever it is SQL (`SameRows`), and is read back as the tree, for chains, subqueries and joins |
| `lost_group` | **violation**: `a EXCEPT (b UNION c)` loses its parentheses |
| `insert` | the same rows in statement, tree and text, whichever form they take, and the tree read back unless it says IF EXISTS |

### Bounds

* `session`: two threads are enough for one call to meet another; two calls per
  slot for a call to meet what an earlier one left; `MaxFailures = 1` for a
  failed build and a retry.  No symmetry is used.  The other bounds are in the
  requests.
* `liveness`: one call per slot, since a liveness property of a lock that is
  contended without end would need strong fairness.
* `scrub`: the rules look at a value, its parent, and whether it is alone, so
  depth three has each rule above and below each other.
* `delimiters`: four lines from eleven, among them a delimiter inside a line, at
  the end with space, doubled, tripled, with space between, and DELIMITER lines
  of both kinds.
* `frame`: limits from 0 to 4; the code only asks for 0, sign and absence.
* `operators`: up to four operators, so that each pair of neighbouring ranks
  occurs as left and as right operand and inside a chain; operators with a
  method of their own (BETWEEN, IN, the LIKEs, ~, REGEXP, COLLATE) above and
  below those of each rank they can stand next to.  Durations of one and two
  pieces with each sign that is kept.  Texts and names of up to three
  characters, which is as far as the rules look: a quote, two of them, and what
  stands at either end.
* `set_operations`: four parts, five operations, five tails, and operands in
  parentheses on either side.  Up to three tables, of two or three rows with
  repeated and unmatched values, two kinds of join after one another or nested:
  what one join does depends on the rows before it and on which condition it
  was given.
* `insert`: the rules look at one cell, at whether there is more than one row,
  and at the order of columns: two rows of two cells of every kind (truthy,
  falsy, NULL, computed), and three by three for orders that are not their own
  inverse.

Deadlock is not checked where clients stop asking, a pipeline ends after its
last stage, or a nested call waits for ever, which `ReentryHangs` states.

### Inputs that passing runs leave out

Each is something the code gets wrong, listed as a hazard and, where it has a
run of its own, a finding.

* `scrub`: a call whose argument is NULL alone, when `fmap` renames it or
  `normal_op` renders it; and `normal_op` on a value scrubbed early, where a
  second walk collapses the list of one argument (`Replaceable`).  Not among
  the cases at all (`IsCase`): a call with an argument by the name of its own
  function, which `simple_op` would overwrite; and, under `normal_op`, a call
  whose first argument is an empty dictionary, for which line 148 leaves out
  all arguments, and which the grammar has nowhere (`ArgumentsCount`).
* `frame`: the frame over the whole partition, whose range without limits is
  written as nothing; limits that are expressions.  Frames of RANGE are among
  the inputs, but `FrameMeaning` says nothing of them: they are written as
  frames of ROWS.
* `operators`: `>` next to the other inequalities, `&` next to `|`, NULL tests
  under tighter operators, `a IS [NOT] DISTINCT FROM NULL` (the two are turned
  around, `utils.py` 265-268), NOT before AND or OR; ~ over & or under
  arithmetic, REGEXP under AND and OR, a BETWEEN under an operator that binds
  more tightly, an IN as the left side of BETWEEN, and one kind of LIKE to the
  left of another, all of which lose parentheses; and CASE value WHEN NULL,
  which is read back as a test for NULL.  Of durations: an amount of 0
  (it keeps "expr" for its unit), a + before the whole, a minus before days
  with no sign before the whole, and `ago` behind several pieces, whose signs
  are lost; and a unit after several pieces, a cast that `casting()` cannot
  write.  Of names and texts: a backslash, which Python interprets, and a line's
  end in a name, which is no Python literal.
* `set_operations`: FETCH (lost after a chain, and written with the offset);
  unions as a right operand in parentheses; operands of a union with a tail;
  an INTERSECT in the right operand of an INTERSECT (same rows, other tree);
  WITH before EXCEPT, INTERSECT, MINUS or an ordered union.  Of joins: an outer
  join whose right side is an inner join (the flat list makes the outer join
  first), LEFT JOIN b CROSS JOIN c with one ON (which goes to CROSS JOIN),
  tables with commas before a join (the commas are not written), ON with a
  condition whose tree is falsy (not written), and kinds that `join_keywords`
  does not have, such as NATURAL JOIN.  USING is among the inputs, but
  `SameRows` says nothing of a text that has it, since that text is not SQL.
* `insert`: several rows of data without a list of columns (`Formattable`).
  IF EXISTS is among the inputs, but `RoundTrip` says nothing of trees that have
  it.  Left out because the model does not have them: tables with one
  column, and OVERWRITE, IGNORE, WITH and RETURNING.

### Fairness

`FairSpec` of the session has weak fairness on the steps of each slot: threads
that can run are run by the interpreter, a step is straight-line code, and a
callback is assumed to come back.  There is none on making calls.  Weak
fairness is enough to get the lock because clients make finitely many calls.
The splitter has weak fairness on its only thread, since `_parse()` asks for
the next string until there is none.

## 4. What is proved

Assumptions: the named ASSUMEs of `ParseCalls` (the default callback is a
callback, requests are well-formed, the sentinel is no value a caller passes as
`null`), `ParseSession` (`Free` is no slot), `Delimiters` (scripts are
lines of tokens, the argument of a command is the rest of its line, and a
delimiter is a text that `strip()` leaves as it is, not empty and on one line),
`Scrub` (`IsCase`: a heap as above, and the inputs left out in section 3),
`WindowFrame`, and `InsertValues` (which cells are falsy, and that two names of columns compare as different).
Threads, requests, lengths of scripts and delimiters, sizes and depths of trees,
numbers of rows and columns, and bounds are arbitrary.

`ParseSessionProofs`
: `TypeCorrect` first.  The properties are not inductive: that a call renders
  with its own options needs that the *globals* are its own while it is busy
  (`OwnGlobals`), which needs that only one call is busy (`LockDiscipline`).
  That a sentinel is answered only in a *stray* node, one that was renamed or
  rendered by another callback (`Stray`), needs that every other sentinel in the
  current tree which the second walk has passed is in `null_locations`
  (`OwnTree`), that the one a running callback will return is too (`OwnHand`),
  and that earlier blocks have none left but stray ones (`OwnAcc`).  That answers do not change needs
  that locations belong to the current call (`OwnGlobals`) and answers to
  finished ones (`OldAnswer`, by serial number).  Their conjunction is
  `SessionInv`; one lemma per action shows that the slot which steps keeps its
  part (`VisitNullInv`, `EndLineInv`, ...), and `OtherInv` that all others do.
  From it: `OneCallWorks`, `ImportsComeFirst`, `CallsAreIsolated`,
  `SentinelIsConfined`, `AnswersStay`.  `ReentryNeverServed` uses `NestedWaits`:
  a nested call waits for a lock that the call around it holds until the nested
  one is over.

`ParseRefinementProofs`
: `SessionImplementsService`: the session implements `ParseService`, step by
  step.  The strengthening is `SessionInv /\ RenderedSoFar` (`SoFarNext`, one
  lemma per action).  `RenderingSteps` unfolds `Rendering` by one block, and
  `NodeRendered` says that a node whose walk is over and whose nulls are put in
  is what the service renders, the sentinel that leaks included; `EndLineSoFar` puts the two together.  Then
  `Replies` (a call at the end of its script has all of its rendering),
  `Refuses` and `BlockAtFault` (an exception is the caller's fault, or that of a
  grammar never built) give for each step a step of the service or a stutter
  (`StepServes`).  `RenderingProgresses` is `RenderedSoFar` as a theorem.

`ScrubProofs`
: `NullsAlwaysReplaced` and `AtomsAlwaysKept`, wherever `Replaceable` holds.
  The invariant is `Followed`: what was recorded in the walk `whole` are the
  locations of the tree that was scrubbed, and the output is what that tree was
  scrubbed to.  The argument is in four parts.  (1) Scrubbing commutes with
  replacing NULLs (`ValuesReplaced`, `MadeHeapReplaced`), because no rule of
  `scrub()` but the recording looks at a NULL.  (2) Writing at the recorded
  locations is that replacement (`PutIsReplaced`): each NULL of what was made is
  at a recorded location, and each location of the tree holds a NULL.  Hence
  `PutScrubbed`.  (3) What `scrub()` makes is a heap again (`MadeIsHeap`), and
  under `simple_op` a second walk over it, as for a limit scrubbed early,
  changes nothing (`TidyKept`).  (4) No atom is lost on the way (`AtomsKept`).
  `ScrubbedAllIs`, `AtomsAllIs` and `BareAllIs` unfold the recursive functions
  over the heap (that there is such a function is by `UpToInduction`); what they
  compute is shown with `BelowInduction`.
  `PositionsHavePlaces` is about the elements that are left when None is not.

`DelimitersProofs`
: `ScriptKept`: `NothingLost`, with the types of the variables as the inductive
  invariant.  `WithoutConcat` and `KeptConcat` say that `Kept` goes token by
  token and part by part, `FlattenAppend` that what is yielded comes last; then a
  step keeps the law if what it takes from what is left is yielded, up to what
  `Kept` leaves out (`StepKeeps`).  `FirstCommand` and `FirstEnder` say what the
  two searches find, and `KeptStrip` what `strip()` takes.

  `StatementsOfClient`: `SameAsClient`, which says something of the last state
  only.  The code stops within lines and the client does not, so the client is
  first taken apart to read token by token (`Read`, over places `At(reader,
  line)`); `ScriptReads` shows that this is the client of `ClientUpTo`.  The
  invariant is then `ReadSoFar`: the client that has read what was yielded and
  goes on with the rest ends with the statements of the whole script.  It is not
  inductive by itself: that a line within a block is no command, or that the
  text after a command starts with the end of a line, is what earlier searches
  made sure of (`Shaped`).  One lemma per step: the search takes space away that
  the client does not see (`StrippedReads`, `LastReads`); a block that is not cut
  has no line that ends a statement (`QuietBlock`); a block that is cut has none
  before the match (`QuietBefore`, from the leftmost match), the match is where
  the client ends its statement (`StatementLine`), and the space after it is none
  of the next one's (`AfterDelimiter`); a command ends what the client has and
  sets its delimiter (`CommandReads`).

`WindowFrameProofs`
: `LimitsAlwaysKept`, for frames of ROWS and RANGE (`IsRowFrame`) with limits of
  any size, by cases on the bounds (`ParseOffsets`).  `RoundTripHolds` shows that
  the limits of a frame are a range of rows (`OffsetsAreRowRange`) and that the
  text for such a range is a frame of ROWS with these limits (`WrittenOffsets`);
  it assumes no frame is the whole partition.  `FrameMeaningHolds` puts the two
  together, for frames of ROWS under the same assumption.
  `NeverTypeError` shows that formatting does not fail for that one either.

`InsertValuesProofs`
: `InsertMeaning`, for any number of rows and columns, if what is written is a
  statement of SQL (`IsStatement`: no column twice, a cell for each).  By cases
  on the form.  In data every cell is a literal (`DataCells`), so that the two
  forms of data have the cells of the statement, and a row zipped with its
  columns is the row keyed by them (`ZippedIsKeyed`).  `InsertTextKept` and
  `InsertRoundTrip` hold for what the formatter can write (`Formattable`: data
  has columns), `InsertRoundTrip` unless the tree says IF EXISTS.  Rows with a
  NULL are a query here as in the code, and in scope of all three.  Sorting gives every column once
  (`SortedIsBijective`, from `PlacesDiffer` and `PlacesAreTaken`), so that the
  text of data adds the rows of the tree (`DataWritten`), is a statement of SQL
  and data again (`DataTextIsStatement`), and is read as the same tree
  (`DataReadBack`); a query is written and read as it is (`QueryReadBack`).

`IntervalsProofs`
: `SignsKept`, for pieces of any amounts: the parse action says what the piece
  says if and only if none of the ways of losing a sign is in it
  (`LosesNoSign`).  `CallOfPiece` is what is made of a piece that is no number
  alone, `TurnedSign` is about one amount, and `SignedTwice` about negating it.  It is about one
  piece; how pieces are put together is a fold, and checked only.

`NatSetInduction`
: the library's induction takes a predicate as a parameter, which the provers
  cannot instantiate.  Stated with a set, it can be used: `LeastNumber`,
  `GreatestNumber`, `UpToInduction` (one step at a time), `BelowInduction` (from
  all smaller ones) and `RecursionExists` (there is a function that satisfies a
  recursive equation), each from the well-foundedness of the natural numbers.

Only model-checked: the liveness properties (`HolderLeaves`,
`EveryCallAnswered`, `EveryScriptEnds`), which are out of the prover's reach;
everything about `Operators` and `SetOperations`, whose RECURSIVE
operators on nested trees the prover does not take; and `Joins`, `Quoting` and
the sum of a duration's pieces, which are folds over sequences.  The
counterexamples of section 5 are TLC's.

## 5. Findings

1. `windows.py` 35: a frame that follows by an expression is negated.
2. `utils.py` 79: a call of NULL alone that is renamed leaks the sentinel, as
   does one that `normal_op` renders.
3. `formatting.py` 636: a union inside another set operation loses its
   parentheses, and with them its meaning.
4. `__init__.py` 132: `format()` parses outside the lock whose comment says
   that only one parsing happens at a time.

## 6. Not modelled

Grammar rules that turn one declaration into one node (DDL, types, PIVOT and
the like) have no interplay to check.  How text is cut into words is regular
expressions over characters: only what is done with the pieces is modelled, so
that a unit of one letter taking the first letter of the next word
(`sql_parser.py` 152) is a hazard without a property.  `mo_parsing` itself is
external: a parse is an outcome.  In `SetOperations` a parenthesised query that
stands alone and is followed by clauses is left out: which branch of
`to_union_call` it takes depends on what `mo_parsing` hands over.  Joins in
parentheses, LATERAL, UNNEST and the hints of a table are left out of `Joins`;
casts, JSON accessors and queries as operands out of `Operators`; square
brackets and the texts of other dialects, which differ from what is there by
the quote, out of `Quoting`.

## 7. Plan

In this order:

1. Proofs: that the precedence rules of `Operators` and `SetOperations` put
   parentheses where they are needed, with expressions on a heap and recursive
   functions, as in `Scrub`.
2. `SharedNull`: callers that write to trees which hold the one mutable
   `SQL_NULL`.
3. What `InsertValues` leaves out: VALUES as the source of a query, REPLACE and
   the options of INSERT.
4. Joins in parentheses, and casts as operands.
