# query4Opc in TLA+

query4Opc runs Cypher queries against the address space of an OPC UA server
(open62541). A query goes through four parts: the REST interface of `queryClient`,
the query method of `queryServer`, the `QueryEngine` with its match clauses, and
the sources and sinks of a clause, which browse the address space. This directory
holds the TLA+ modules of these parts, the TLC runs over them, and proofs that
TLAPS checks. `PROJECT.json` maps every definition to the lines it models.

## The system

| Part | State | Operations | Interaction |
|---|---|---|---|
| `graph::PathMatcher` (sink) | pattern, its two halves, start index, result | `filter`, `checkPath`, `check` | called by a source for each start element; browses; makes nested matchers |
| `graph::Path` | nodes, relations | split, invert, matching predicates | copied by every matcher |
| `graph::HierachicalVisitor` (source) | root, class, reference type | `generate`, `visit` | browses below the root, calls `filter` of the sink synchronously |
| `graph::SourceColumn` (source), `DefaultSink` (sink), `PathResult` | a reference to a column; rows | `generate`, `filter`, `emplace`, `col`, `paths` | joins a clause to an earlier one |
| `graph::MatchClause`, `graph::QueryEngine` | the clauses of a query, each with source and sink | `scheduleQuery`, `createMatchClause`, `findStartIndex`, `findSourceColumn`, `run` | runs clause after clause |
| `cypher::Path`, `Helper.h` | - | the translation of parsed patterns | input of the engine |
| `cypher::Parser` | - | `parse`: checks of the statement and its clauses, syntax tree to `cypher::Query` | before the engine; the tree is libcypher-parser's |
| `playground/queryServer` | - | the query method: parse, schedule, run, encode | one call per query, in the one server thread |
| `playground/queryClient`, `Commands` | stored queries, one promise, open calls | POST handler, main loop, response callback, signal handler | handler threads and main thread share `Commands`; asynchronous method calls |
| `getPathToParentNode` | the node to browse, the path so far | the way to the root | browses; a vector of `ReferenceDescription` that grows |
| `ReferenceDescription` | the strings it owns | copy, move, two assignments, destructor | the element of every path and column |
| `csvExport` | the table of namespace uris, the files written | `addNamespace`, import, `dumpNode`, `dumpReference` | a tool of its own; `addNamespace` is called back by the nodeset loader |
| JSON encoder | - | `json_encode` | the last step of the query method |
| `BrowseResultWrapper`, tracing, `Filter.h`, benchmarks | one browse result; counters | - | clean-up, measurements, an earlier design |

What is hard about them:

- *Recursion over a graph.* `check` and `visit` call themselves for every
  reference they browse. What a nested call is about depends on indices into a
  pattern that is split, inverted and split again; references branch, join and
  lead in circles; browse calls fail in the middle or cut their result off.
- *Late binding.* A clause chooses the column it starts from before any result
  exists, by an identifier, and reads it when it runs.
- *Whatever the parser lets pass.* It looks at the first label, the first path, a
  single relationship type, and drops the rest without an error; any query runs in
  the one thread of the server, and nobody catches an exception.
- *Ownership.* Ids are copied flat while the vector that owns their strings grows;
  the export tool keeps pointers into loaders that it deletes.
- *Threads.* A handler waits at most 3 s for a promise that every other handler
  replaces and that the main thread fulfils without a lock.

What makes the parts correct: a matcher returns the rows that the references
allow and no others; a visitor hands over what lies below its root; a query finds
what its clauses ask for, and loses no row of it where conditions are dropped; a
string has one owner; a number in the export stands for one namespace; a request is replied the result of its own query, or
that it took too long, and nothing ends the process. Where the code does not do
this, the modules show under which condition it does, and a run shows the
difference (see *Findings*).

`PROJECT.json` lists the hazards line by line, with the properties about each.

## The modules

    AddressSpace   GraphPath   CypherQuery       data: references, patterns, queries
    MatchingPaths  MatcherRefinement             what PathMatcher promises, and that it keeps it
    PathMatcher            PathMatcherProofs     the matcher
    HierachicalVisitor     HierachicalVisitorProofs   the visitor
    QueryEngine            QueryEngineProofs     clauses; composes the two above
    CypherParser                                 syntax tree to query
    QueryServer            QueryServerProofs     one call; composes parser, engine, encoder
    ReferenceDescription                         copies and moves over a heap
    ParentPath             ParentPathProofs      the way to the root
    CsvExport              CsvExportProofs       the export tool
    RestInterface                                what queryClient promises
    QueryClient            QueryClientProofs     HTTP threads and main loop
                           CountingLemmas        facts about counting that the proofs share
    MC*                                          values for TLC

**AddressSpace** is external: the server behind `UA_Server_browse` and
`UA_Server_readNodeClass`. A space is a list of half references in the order in
which the server returns them. `Browse` follows the browse description that the
code makes: direction, type with subtypes, class mask, at most `MaxRefs`
references (1000 in the code) without a continuation, nothing on a bad status.
An element is what the engine keeps of a `UA_ReferenceDescription` and compares:
id, class and type definition.

**GraphPath** is `graph::Path` with what `PathMatcher` does to it. An optional id
has three kinds of values, not two: disengaged (`NoId`), an id, and engaged with
the null id, which `Node::operator=` produces. `ReverseNodes` is `std::reverse`
with this assignment.

**PathMatcher** has one step per reference that is followed. The nested calls of
`check` are a stack of frames; a frame knows from which node its pattern starts
(`base`, advanced by `path.split(1)`), for which node it has browsed (`pos`), the
row so far, and the references to follow. `Filter` is the call of `filter`;
`Descend`, `Reject`, `Accept`, `AssertionFails` and `Return` are the loop and the
recursion of `check`; `RightDone` and `LeftDone` are the loop of `checkPath` with
the merge. The build is a debug build: a failed assertion ends the behaviour.
`phase` and `rights` stand for the program counter and the loop of `checkPath`.

**MatchingPaths** is the abstract specification: one step takes a start element
and appends one row for each way in which references around it carry the whole
pattern. It speaks of no splitting, browsing or nesting. `PathMatcher` implements
it (`KeepsPromise`, in `MatcherRefinement`) for the patterns of `Handled`.

**HierachicalVisitor** keeps the nested calls of `visit` as a stack that has room
for `StackLimit` calls; `VisitReference` hands an element over and calls, and
overflows without room.

**CypherQuery** and **QueryEngine** are the way from a parsed query to results.
`Schedule` is one round of `scheduleQuery` with all of `createMatchClause`;
`BeginVisit` and `BeginColumn` begin a clause; `Visit` and `Filtering` are steps of
the visitor and of the matcher, taken from their modules by INSTANCE, and
interleaved as the code nests them: the visitor goes on when `filter` has returned.
`ClauseDone` is the step to the next clause. `tables` are the results of the clauses.

**CypherParser** begins where libcypher-parser ends: a text is the result that
`cypher_parse` returns for it. `Parse` has the checks of `Parser::parse` in their
order, `ParseClauses` the loop over the clauses, which stops at the first clause
that is refused or throws; `ParseNodePattern` and its neighbours translate. What
they drop (further labels, several types, ranges, paths after the first,
properties given again, predicates that are no paths, OPTIONAL) is in the text and
not in the query. A value of a property is the node id that its text is parsed to later.

**QueryServer** is one call of the query method. `Refuse` and `Accept` are the two
results of the parser, `Engine` is a step of QueryEngine, `Answer` the encoding of
the last clause's rows. `EndProcess` has everything that ends the process:
exceptions, assertions, null pointers, an exhausted stack, `back()` of an empty
vector. What a text asks for (`AskedRows`) is said of its syntax tree and of the
address space, not of the parsed query, so that parser, engine and encoder are
checked together.

**ReferenceDescription** gives the strings of a description a block of a heap.
Names of blocks never come twice, as if no address were used again: a pointer to
a freed block is seen as one. **ParentPath** is `getPathToParentNode`: `Find` is a
browse and the copy of its first reference, `Extend` sets the flat copy of the id
and emplaces, in place or with a reallocation that copies all elements (the move
constructor is not noexcept), `CopyAssign`, `MoveAssign`, `AssignSelf` and
`Discard` are what a caller may do with the result. It is the one place where the
heap is followed; in the engine elements are values.

**CsvExport** imports one file after the other; `AddNamespace` is one callback of
the loader, `Write` one round of the loop over the node classes. Each line that is
written also remembers the file and the uri it is about, which the program does
not. The table of uris keeps the loader's pointers. Whether these outlive the
loader is not to be seen in this repository, so both are possible (`kept`); if
they do not, comparing with an entry of an earlier file may find it equal, find it
different, or crash.

**QueryClient** has the handler threads (`Post`, `GetResult`, `TimeOut`), the main
thread (`Main`) and the signal handler (`Stop`). `Commands::query` and
`getNextQuery` hold the mutex and are atomic. `queryResponse` does not, so a
`query` may come between its begin and its end; then every outcome that the
libstdc++ promise can have in this data race is possible: either order, a crash
(`RaceCrashes`), or a result put into the abandoned state with the storage of the
new one (`RaceStealsStorage`). Each `query` replaces the promise; `promises` keeps
the shared states of all of them. Responses come in the order of the calls, from
one server that handles one call at a time. The result of a query is identified
with the query. The pool of HTTP threads is taken to be large enough.

**RestInterface** is what the REST interface promises: one reply per request, its
own result or the notice of the timeout.

## The runs

| Run | Shows |
|---|---|
| `matcher_handled` | `KeepsPromise`: refinement of `MatchingPaths` |
| `matcher_any` | for all patterns: `HalvesLinked`, `RowsComplete`, `MergedAtStart`, `AbortsOnlyIfMisaligned`, `Terminates` |
| `visitor_all` | `EmittedBelowRoot`, `NothingMissed`, `OncePerWay`, `OverflowOnlyInCircle`, `EndsUnlessInCircle` |
| `server_all` | of the engine: `FailsOnlyIfUnconnected`, `TablesComplete`, `StartsFromSource`, `Answers`; from text to JSON: `EndsOnlyFor` (what ends the server), `LosesNoRow`, `RepliesAsAsked`, `CallEnds` |
| `client_patient` | `KeepsPromise`: refinement of `RestInterface`; `NeverCrashes` |
| `client_any` | `AnswerOfEarlier`, `AnswerOnItsWay`, `EveryRequestReplied`, `StoredQueriesAreTaken` |
| `parent_all` | `OwnedOnce`, `BrowsesLiveNode`, `StepsUp`, `WholeWay`, `PathEnds` |
| `export_all` | `OneNumberOneNamespace`, `EndsAreWritten`, `CrashesOnlyIfFull`, `ExportEnds` |
| the others | one finding each |

Bounds, and why they are enough:

- *Matcher.* Four nodes, three reference types (one a subtype), spaces with a
  tree, a circle, parallel references and siblings, with and without bad status
  codes; patterns of one to three nodes, all start indices. Three nodes are the
  shortest pattern with a node inside and with two nodes on one side of the start,
  which every special case of `check` and `checkPath` needs. `matcher_handled` takes start
  indices 0 and 1 and `MaxRefs` 8, more than any browse finds; `matcher_any` has
  `MaxRefs` 2, fewer than some find, and starts that do not fit.
- *Visitor.* All subsets of seven references over four nodes: joins, two ways to
  a node, circles of two lengths, a reference that is not hierarchical; three
  assignments of classes; `StackLimit` 4, one call per node.
- *Server.* The queries of the engine as texts, and texts with a second label, a
  property given twice, two types, a range, a second path, a predicate, OPTIONAL, a property that is no string,
  two RETURNs, no MATCH, no directive, a clause of another kind, each where it
  makes a difference; every reason in `EndsOnlyFor` occurs, as do responses
  with more rows than asked for, with exactly these, and with none. Eight nodes, four spaces (one with a circle, one with a failing node),
  and lists of one to three clauses; every kind of start, joins in the first and
  the last column, WHERE, subtypes, an unknown relationship type, clauses that
  cannot be joined. Three clauses are enough for a column that is itself joined.
- *Client.* Three requests of patient users and of one user: one that timed out,
  one that waits and one that comes in between; two requests at any time, which is enough for one
  to replace the promise of the other during `queryResponse`, and which
  leaves the liveness properties without symmetry; two queries, so that equal and
  different texts occur; one failed call. The proofs of `AnswerOfEarlier` and
  `AnswerOnItsWay` are for any number of requests.
- *Way to the root.* All subsets of seven references over four nodes, with and
  without a bad node; a greatest length of 5, more than there are nodes and two
  reallocations after the first element; two assignments, so that one may undo or repeat another.
- *Export.* Lists of up to three files of one or two of three namespaces, new ones,
  known ones and both, in either order; three classes, of which two have
  references written; room for three uris, so that the table gets full.

Deadlock is not checked: every one of these programs comes to an end, and the
client's main thread ends while handlers may wait.

Fairness: matcher, visitor, the query method, the way to the root and the export
run in one thread that is never preempted, so their next step is weakly fair. In the client, the main thread and each handler
are threads of their own and weakly fair, `TimeOut` included since `wait_for` has a
limit. Nothing is assumed of users, of the signal, or of responses: the main
thread may iterate for ever without one.

Conditions that runs state, since the property does not hold without them:

- `Handled` (PathMatcher): the start is the first or second node and, unless it is
  the last, fits already; no node without an id comes right after one with an id, on the way out
  from the start; a type is asked only at the ends; no result is cut off.
- `HandledPattern` (QueryEngine): the same of the pattern of a clause, and labels
  and types the engine knows, and a start that says no more than the class of the
  root or, in a later clause, than its identifier. `ComparesAll`: the clause shares
  one identifier, that of its start, with one earlier clause, and none comes twice
  in it. `HandledClause` is both. `Answers` needs both, `LosesNoRow` the first only.
- `HandledSpace`: nodes with references can be browsed, a reference is kept with both
  of its nodes, in opposite directions, and no browse result is cut off.
- `Users` (QueryClient): "any" assumes nothing; "one" is a user who waits for the
  reply before the next request; "patient" also waits until nothing is left to do.

## Findings

| Run | What it shows |
|---|---|
| `matcher_named_inside` | after a node with an id inside the pattern the nested matcher gets the wrong part of it; the size assertion fails |
| `matcher_late_start` | with the start at the third node or later, the columns left of it come in reverse order |
| `engine_variables` | the documented query for all variables finds the Objects folder only |
| `client_one_user` | the late result of a query is the reply to the next request |

What the modules show besides, without a run of its own: a start element that has nodes to its right in the pattern is not compared
with its node (`ExampleQueries.md` lists a query with an id under those not
supported); `std::reverse` of nodes leaves an engaged null id behind (`AssignOptional`), so a pattern of four
nodes with an id left of the start can miss rows; references after the first 1000
of a browse are dropped (`Browse`); hierarchical references in a circle overflow
the stack (`EndsUnlessInCircle`); a relationship type outside the table of four
matches every type (`LookupReferenceType`); the client logs that it retries to
connect and exits (`ConnectFails`); the second of two responses that come without a
request in between ends the client (`SetValueCrashes`), which only patient users
avoid; a text with two RETURNs and no MATCH is accepted, although the message of
the parser speaks of one return clause, and ends the server (`EndsOnlyFor`), as do
a property that is no string and a text of comments; a response of no rows is the
text `null`; the number of a namespace in the export is one more in the file that
adds it than in the files after it (`OneNumberOneNamespace` compares lines of one
kind only); of a property that a node pattern gives twice the parser keeps the first
and drops the second without an error (`GivenAgain`): proving `RepliesAsAsked`
showed that such texts belong to `ConditionsDropped`. `Handled` and `HandledPattern`
exclude the first three and the unknown type; a visit that overflows never ends
a query, which is when `Answers` speaks.

## The proofs

For every value of the constants, TLAPS proves:

- *PathMatcherProofs*: `TypeOK`, `HalvesLinked`, `RowsComplete`, `MergedAtStart`
  and `AbortsOnlyIfMisaligned` are invariants of `PathMatcher`. The assumptions
  are those of the modules: the input is well formed. The row properties are not
  inductive, since a row that is returned was built in frames. The invariant
  `IInv` adds that every frame has a row that is chained up to the node it has
  browsed for, and, unless the half is misaligned, as long as its position; that
  every pending reference is a candidate of this frame; and that what is waiting
  in `rights` are right rows. One lemma per action shows that it keeps `IInv`.

  And the refinement: for inputs that the code handles (`Handled`, stated below),
  `PathMatcher` implements `MatchingPaths` (`PromiseIsKept`). The module computes
  rows by recursion, the promise speaks of all ways to choose a reference per
  relation. Between the two is the notion of a *walk* of a half, which chooses
  one reference for each of its relations. `Progress` says of a `check` in
  progress that its frames stand on one walk, and that the rows it has found list
  exactly the walks that leave this one at a reference which is not pending any
  more, each once. So a `check` that returns has listed all walks of its half.
  `MergedSoFar` says the same of the loop over right and left rows.
  Then a walk of the right half and one of the left are, together, a choice of the
  promise: `StartInFirstColumn` and `StartInSecondColumn` state the bijection for
  the two places at which a start may be, through the split, the inversion of the
  left half and the null ids that it leaves. As both sides are lists of the
  same set, they are the same bag, and a `filter` that returns is one step of the
  promise.
- *HierachicalVisitorProofs*: `TypeOK`, `EmittedBelowRoot`, `NothingMissed`,
  `OverflowOnlyInCircle` and `OncePerWay`. Below a root means: in every set that
  contains it and is closed under children. This definition needs no induction.
  `NothingMissed` comes from an invariant that says: all that is below the root is
  handed over or below a pending reference. `OverflowOnlyInCircle` comes from the
  stack being a path of references: if it has more calls than there are nodes, a
  node is twice on it (a pigeonhole over `Cardinality`).

  `OncePerWay` needs to know that the visit ends nowhere but where no circle is,
  since otherwise the ways are infinitely many. A node is *grounded* if it is in every
  set that has each node whose children it has; there is no circle below a grounded
  node. The invariant `WaysInv` says that the target of a reference that a call has
  worked off is grounded, so the root is when `generate` returns
  (`ReturnsOnlyWithoutCircle`, which is also the safe half of `EndsUnlessInCircle`).
  It also says which ways have been handed over: those that leave the way of the calls in
  progress at a reference that is not pending any more, or end on it. In the end
  these are all ways, and none comes through a node twice.
- *QueryEngineProofs*: `TypeOK`, `FailsOnlyIfUnconnected`, `TablesComplete` and
  `StartsFromSource` of `QueryEngine`, for every address space and query. The
  invariant relates the plan to the clauses (a planned column is one with the same
  identifier in an earlier clause, and the start is where the identifier is),
  says that results have the columns of their clauses, and has one part per
  phase. Within a clause it contains `IInv` of the visitor and of the matcher; between
  two clauses neither has anything in progress. Their steps are not proved again:
  the lemmas of the two modules are used through INSTANCE, for the variables of the
  engine. That the choice of a column and that of a start index agree is a
  statement about least elements of sets of places.

  `Answers` is proved with a second invariant on top of this one, `AnswersInv`.
  It says of the clause that runs that its sink has what belongs to the elements
  handed to it so far: a default sink one row for each, a matcher what its promise
  has for them (`Answering` in PathMatcherProofs, which counts a `filter` in progress
  with the element it is about). Of a clause that has run it says that its table
  has the rows that it gathers: those that fit the pattern and start in what the
  source had (`Gathered`). What the source had is, when the visitor has returned,
  the nodes below the root (`AllHandedOver`, from `NothingMissed` and
  `EmittedBelowRoot`), or the column of the earlier clause, which does not change.
  `GatheredIsExpected` then leads from rows that start in a column to rows that
  agree with all earlier clauses: what is expected is always gathered, and the
  converse needs `ComparesAll`. The condition on types in `HandledPattern` and the
  part of `HandledSpace` about both nodes of a reference were found missing by
  this proof.
- *QueryServerProofs*: `ServerTypeOK` and `EndsOnlyFor`, for every text. What the
  parser hands over is shown to be what the engine assumes of its queries; for the loop
  over the clauses this is an induction over their number. Then a running call has
  the invariant of the engine, so its theorems hold for the queries made of
  texts, and an end of the process has one of the listed reasons: each way to end
  it is traced to the clause that causes it. An exhausted stack is among the reasons only
  together with a circle, or with a stack that has no room for a call per node.

  `LosesNoRow` and `RepliesAsAsked` compare the syntax tree with the response. The
  parser is treated node by node and relationship by relationship: what fits the
  tree fits what is made of it, and conversely if nothing is dropped (`NodeAsked`,
  `RelationshipAsked`), so the rows asked for are among those expected, and are
  these if nothing is dropped (`RowsAsked`). `ServedInv` says that the clauses are
  those of the text, that `AnswersInv` holds, and that the response encodes the last table.
  `ChangesDropped` is not needed as a hypothesis by the proof: it is in the
  properties since `AskedRows` does not speak of ranges and of OPTIONAL.
- *ParentPathProofs*: `TypeOK`, `OwnedOnce`, `BrowsesLiveNode`, `StepsUp` and `WholeWay`, for
  any greatest length and any number of assignments. Ownership is first proved of
  a heap, a vector and a description as values (`Own`), one lemma for each thing
  that is done to them: a new block, an append, a reallocation, a copy, a move, a
  clear. The invariant adds that what was found and is not yet appended has a
  block and is the first parent of the node browsed, which is the end of the way.
  `StepsUp` also rests on `ParentsAreFirst`: the limit of a browse never hides the first reference.
  `WholeWay` adds that a path that has ended has no further parent: since a
  node has one first parent, a node that came twice would have led on as it did the
  first time, for ever; and a path longer than there are nodes has one twice.
- *CsvExportProofs*: `TypeOK`, `OneNumberOneNamespace`, `EndsAreWritten` and
  `CrashesOnlyIfFull`, for any files and any room in the table, whether the
  loader's strings stay or not. The invariant says that while a file is read the
  table has the uris of the files before it and those of this file that have a
  number, each at one place, those of earlier files first; and that every number,
  of a line too, is about the first place of its uri. The order is what keeps a
  uri that is new (its place plus one) and one that is known (its place) apart in
  one file. The assumption: a file names each of its uris once.
  `CrashesOnlyIfFull` then is a pigeonhole.
- *QueryClientProofs*: `TypeOK`, `AnswerOfEarlier` and `AnswerOnItsWay` for users
  of any kind, with the data race. The invariant says that every query that is
  stored, sent or being answered was posted by a request before, and that
  requests that came while a result was being set have their query in the map.
  With patient users, `NeverCrashes` and the refinement of `RestInterface`
  follow from a second invariant: at any time at most one query is under way, the
  one of the newest promise.

*CountingLemmas* has what these proofs share: the least element of a set of
natural numbers, induction stated for a set of them (as the theorems
of the library take operators, which no prover here can instantiate), and sequences
that list a set: empty, appended, concatenated, reversed, mapped by a bijection,
counted.

Assumptions: a walk, a way or a space may be of any size; where a property
counts nodes (`OverflowOnlyInCircle`, `OncePerWay`, `WholeWay`), it says that they are
finitely many, as they are on any server. `PromiseIsKept` has `Handled` of all
inputs as its hypothesis, the same condition under which `matcher_handled` checks
the refinement; `matcher_late_start` and `matcher_named_inside` show that it does not
hold without.

Only model-checked:

- Liveness (`Terminates`, `EndsUnlessInCircle`, `CallEnds`, `EveryRequestReplied`,
  `StoredQueriesAreTaken`, `PathEnds`, `ExportEnds`), as TLAPS has no ENABLED.
- The findings: a violation needs one instance, which TLC gives.

## Not modelled

- The text of a query: libcypher-parser reads it, and its result stands for it.
- `main` of `queryServer`: loading nodesets and adding the method, once, before
  the first call. `queryServer` and `queryClient` as one system: `QueryClient`
  leaves open what the server does with a call and when, and `QueryServer` says
  what one call can come to; together they would say no more than each does.
- Opening the output files of `csvExport`.
- Tracing counters, `explain`, the printed form of ids: text and measurements.
  `Filter.h`: its test is disabled, nothing else uses it. Benchmarks.
- `BrowseResultWrapper`: it is neither copied nor moved. Flat copies of ids in
  patterns, and the heap outside of `getPathToParentNode`.
- The pool of HTTP threads, the OPC UA session after the connect, reordering of
  responses by the server.

## Plan

Done: all modules and runs; as theorems, type correctness and every safety property
that a passing run checks, and the refinements of `MatchingPaths` and of
`RestInterface`. Of the properties, only liveness is left to TLC.
