# A verification project for sheets

Sheets keeps a temporal property graph in one SQLite file. Every effective
write batch becomes a revision; every revision can be read for ever. A Cypher
engine, a command line and a terminal interface sit on top. Nothing runs as a
service: several processes open the same file, and SQLite's write lock is the
only thing that orders them.

This directory holds TLA+ models of the parts that carry that promise, the TLC
configurations that check them on small instances, and TLAPS proofs for every
size of the most important results. `PROJECT.json` lists components, runs,
mutants, the definition-to-source map, findings, hazards and theorems.

## 1. Inventory

| Part | State it keeps | Operations | Interacts through |
|---|---|---|---|
| Store write path (`store/write.go`) | revisions, identities, versions; the running transaction: base, revision, sticky failure | `Write`, `CreateNode`, `UpdateNode`, `DeleteNode`, `CreateEdge`, `UpdateEdge`, `DeleteEdge`, `graphChanged`, seal, commit | SQLite transaction, schema triggers |
| Identifiers (`store/write.go`) | the last identifier of the process | `newUUIDv7` | a mutex, the clock |
| Schema (`store/migrations/*.sql`) | triggers, CHECKs, unique indexes | fire on each statement | every statement of the write path |
| Store reads (`store/read.go`, `view.go`, `revision_cursor.go`) | nothing between calls except the opaque cursor | `ResolveSnapshot`, `View`, `ListNodes`, `ListEdges`, `Scan*`, `Count*`, `ListRevisionPage` | separate statements, so commits fall between them |
| Project layout (`project/project.go`) | the `.sheets` directory: marker, database, staging directories | `InitContext`, `completeExistingProject`, `Discover`, `validateMetadata` | the file system, shared by processes |
| Open, migrate, retry (`store/store.go`, `write.go`) | schema version, journal mode, the write lock | `Open`, `initialize`, `beginImmediate`, `queryStringWithBusyRetry` | one migration transaction; SQLite's lock |
| Entry point (`cmd/sheets/main.go`) | the exit code of a signal | `processSignalContext` | a goroutine beside the command |
| Cypher front end (`cypher/*.go`, `parsergen`) | the list of statements parsed so far | `Parse`, `splitDocument`, the rule methods, the bind functions | the generated parser's trees |
| Engine cache (`engine/engine.go`, `graph.go`) | one cached graph per engine, one in-memory graph per request | `Execute`, `Snapshot`, `loadGraph`, `loadWriteGraph`, `storeCache` | threads share the cache under a lock, processes share the file |
| Working-set planner (`engine/iterator.go`, `requirements.go`) | the entities loaded, candidates of variables, a budget | `executeDirectCount`, `loadReadWorkingSet`, `loadNodeWorkingSet` | predicates pushed to the store |
| Matching, shortest paths (`engine/match.go`) | per request | `matchClauseRows`, `matchPattern`, `evaluateShortestPattern` | reads the in-memory graph |
| TUI session (`tui/update.go`, `commands.go`, `actions.go`, `model.go`) | snapshot on screen, serials of loads and executions, timeline, pending operation, overlay | messages of asynchronous commands, keys | goroutines per command, a poller, other processes' commits |
| Evaluator, streaming, TUI widgets, CLI, temporal values, codec, tools | see `PROJECT.json` | | |

What makes it hard:

- a batch is decided by comparing rows, after mutations that may create, change,
  overwrite and delete the same entity; a mutation is several SQL statements and
  may stop between any two, and a callback may hide the error;
- the same rules (endpoints, single parent, no cycle, contiguous history) are
  enforced in Go and again in triggers, and must agree;
- reads consist of several statements and calls, with commits in between;
- caches are validated by a revision number only;
- processes create, complete, migrate and look up one project at the same time,
  wait for one lock, and may be signalled or die at any point;
- a query is answered from the part of the graph that a planner thinks it needs,
  by predicates whose equality is not the engine's;
- the binder dispatches on trees by position and by text, over a grammar of more
  than a hundred rules;
- the interface starts commands that are superseded but still answer.

What makes each part correct: history is append-only and immutable, commits are
all or nothing and lose nothing, the integrity check can never fail on what
`Write` wrote; a paged read is one snapshot, without gaps or repeats, and ends;
a project appears whole and its schema is migrated entirely or not at all, and
every call returns; the AST says what the statement says; an engine's answer is
the graph of the revision it names, and the answer of a query that of the matcher
over that whole graph; the screen never goes back in time, says so when it is
stale, catches up, and does not write while it shows history. The hazards in
`PROJECT.json` give the line each of these bites at.

## 2. Modules

| Module | Models | Composes |
|---|---|---|
| `VersionTable` | rows with `valid_from`/`valid_to`: visibility, insert, close, overwrite, retire, the touched-row comparison | |
| `StoreSchema` | the database record, what each trigger and index admits, `validateDataIntegrity` | `VersionTable` |
| `TemporalStore` | `Store.Write`: begin, every mutation, broken-off mutations, failures, rollback and crash, the no-op rollback, sealing and commit | `StoreSchema`; refines `GraphHistory` |
| `GraphHistory` | the abstract promise: an append-only sequence of well-formed graphs | |
| `EntityIds` | `newUUIDv7` | |
| `Startup` | initialising, completing, discovering, opening and migrating a project; busy retry; signals and crashes | |
| `CypherGrammar` | the shapes of every rule of the generated parser | |
| `CypherBinder` | every bind function, from a shape to an AST node | `CypherGrammar` |
| `CypherFrontEnd` | `Parse`: splitting a document, recognising and binding each statement | `CypherBinder` |
| `EngineCache` | engines, threads and their caches over one history | |
| `PropertyValues` | property values, the engine's and the store's equality, the predicates pushed for a property map | |
| `PatternMatch` | the matcher: candidates, adjacency, variable lengths, bound variables | `PropertyValues` |
| `ReadQuery` | choosing a loading strategy, loading, evaluating, the breadth-first shortest path | `PatternMatch` |
| `GraphPaging` | `ListNodes`/`ListEdges`: resolve, scan, cursor, count, commits between statements | `VersionTable` |
| `RevisionPages`, `HistoryWalk` | `ListRevisionPage` as an operator; clients that walk with it | |
| `TuiSession` | the event loop of the terminal interface and its commands | `RevisionPages` |
| `MCPaging` | the clients of the store's paged reads and of its identifiers | `GraphPaging`, `HistoryWalk`, `EntityIds` |
| other `MC*` | constants, workloads, symmetry sets for TLC | |
| `VersionTableProofs` | lemmas about the table operations | `VersionTable` |
| `TemporalStoreProofs` | theorems about the write path, its integrity and the refinement | `TemporalStore`, `VersionTableProofs` |
| `PagingProofs` | theorems about paged reads, history walks and identifiers | `MCPaging`, `VersionTableProofs` |
| `ReadQueryProofs` | theorems about the planner, the matcher and the indexes | `ReadQuery` |
| `EngineCacheProofs`, `StartupProofs`, `TuiSessionProofs`, `CypherFrontEndProofs` | theorems | the module named |

Correspondence, where it is not plain from the names:

- **TemporalStore.** `db` is the committed file, `work` the tables as the running
  transaction sees them, `tx` the `WriteTx`. `Rollback` is a returned error, a
  panic, a cancelled context or a crash: all of them discard `work`. `BreakOffNode`
  and `BreakOffEdge` are mutations that stop between two of their statements; they
  set the sticky failure, and `tx.partial` remembers it. Every mutation asks the triggers; had
  one refused a statement that the Go code admitted, `tx.aborted` would be set.
  Contents are members of small sets, the clock is any reading from `Clock`.
- **EntityIds.** An identifier is its milliseconds and the digits of its payload:
  the free bits of the bytes 6 to 15. Version and variant bits are constant and
  the text is hexadecimal, so the order of texts is that of these pairs.
- **Startup.** `dirs[1]` is the target's `.sheets`, `dirs[2]` that of its parent.
  A process is at a `pc` between two file or SQL operations. A database is its
  schema version, whether it validates, and its journal mode. A staging directory
  has a random name, so what happens in it is one step. Time passes only in the
  retry loop, in units of its first backoff.
- **CypherGrammar.** A rule is the set of the child sequences its method can
  produce, read off the `Match`, rule and prediction calls. Layout is left out.
- **CypherFrontEnd.** `splitDocument` reads the document element by element
  (`Split`, `SplitEnd`). `Half` is half of the words of an integer's width, 2^63 in
  the program. Binding is a walk down one branch of the tree: `Visit` takes
  any shape of the rule, `Descend` goes to any subtree the binder reads. Trees are
  therefore not built, and nesting has no bound. `facts` are what a few functions
  look at around their node: whether the text holds `..`, an integer's magnitude,
  whether a filter is a quantifier's. Some trees share an AST on purpose, and the
  bind functions say so: parentheses leave no node, a chain of comparisons becomes
  the conjunction of its pairs, a quantifier without a condition gets its variable
  as one. `NoChoiceIgnored` is therefore about one node at a time: two shapes with
  the same subtrees are told apart, or are named as spellings in `Canonical`.
- **EngineCache.** `Store.Write` is reduced to what the engine sees of it. A
  thread is between two lines of `loadGraph` or `Execute` at any `pc`.
- **PropertyValues.** Numbers are integers and floats of a small machine: floats
  hold integers exactly up to `Exact` (2^53) and only even ones above, and integers
  end at `MaxInteger` (2^63 - 1), so one float lies just beyond them. Zero has two
  signs, NaN equals nothing. Key 0 is the body, which has no index. `ShortestDigits`
  is the number that the shortest digits of a float spell out when they are read as
  an integer, which is how a list's index key shows it: the float itself up to
  `Exact`, above it perhaps another number (2^62 is printed 4611686018427388000).
- **ReadQuery.** `working` is what has been loaded, `bindings` the candidates of
  variables, `cursor` the expansion under way, `search` the breadth-first search.
  One action is one scan, one level of an expansion or one level of a search. The
  byte budget of the iterator is folded into its entity budget. The matcher's
  backtracking is written in layers, as recursive functions over the depth of a walk
  and over the relationships, patterns and clauses passed. `ReadAssumption` says which
  revisions and queries there are. `IsGraph` has the schema's foreign keys; `IsQuery`
  has of `validateDocumentSemantics` that a name is not both a node and a relationship
  and that `WHERE` and pattern properties refer to names in scope. Of pattern
  properties the model has constants and properties of nodes bound before; a reference
  forward, which the validator also admits, is not in the model's language.
- **GraphPaging.** A content has a scalar part, which the SQL text filters on, and
  a nested part, which only the Go loop does. A predicate stands for its
  fingerprint together with the cursor's kind. The client may keep the cursor and
  change what it asks for (`SwapRequest`).
- **RevisionPages.** Sealed revisions are numbered without gaps (checked by
  `IntegrityHolds`), so their number is all a page depends on. Token checksum and
  encoding are abstracted to "accepted or not".
- **TuiSession.** A graph is known by the revision it was read at. `loads`, `pages`
  and `runs` are commands that run or have answered; answers are applied in any
  order. `Update` is sequential, so each message is one action. The tick and the
  revision query that it starts are one step, since nothing lies between them but
  the query's own delay. `form` is the `m.form` held, with its serial and huh's
  state, which outlives the overlay; `CompleteForm` is the last key of a form and
  puts its number in `submits`, `ApplyFormSubmitted` handles the `formSubmittedMsg`
  any time later, by the checks of `submitForm` alone.

## 3. Runs

| Run | Shows | Bounds |
|---|---|---|
| `store_history` | integrity, agreement of Go checks and triggers, immutability, commits that keep their batch, no partial commit, refinement of `GraphHistory` | 2 nodes, 1 edge, 2 types, 2 contents, 3 revisions |
| `store_hierarchy` | no cycle or second parent, whatever is moved, repositioned or deleted, under a clock that stands still, runs on and runs out; Go checks and triggers agree | 3 nodes, 3 `CHILD` edges, 2 positions, 2 revisions, timestamps to 1 |
| `engine_cache` | exact answers; writers match against their transaction's graph | 2 engines, 3 threads, 2 revisions |
| `engine_cache_cancelling` | **violation**, finding 1 | as above, batches may undo themselves |
| `paging` | pages are one snapshot, disjoint, agree with the count; continuations are accepted; a history walk is exact in either order; identifiers increase; every listing ends | 3 entities, 3 revisions, limits 0, 1, 4, default 2, maximum 3, one swap; walks: 6 revisions, limits 1 to 3; identifiers: digits up to 1, 2, 1, 1, 1, 4 clock values |
| `tui_session` | no regress, stale is marked, what is looked at or awaited changes by the user's doing only, no hole in the timeline, an open form is open on a live selection, no form runs before its own last key, every commit reaches a live screen or an error is shown | `Views`: 1 commit, any number of loads, 3 user actions, 1 failure; `Forms`: 2 commits, page size 1, 3 page loads, 2 user actions, 1 failure |
| `tui_retry_historical` | **violation**, finding 2 | 1 revision, 3 user actions |
| `startup` | a project appears whole; init leaves a usable one; migrations are all or nothing; no sound layout is refused; a half-written marker has a writer; waits end at the deadline; every call returns | 2 initialisers, 1 lookup, 10 layouts, 3 schema versions, timeout 2, one signal, crash or failing operation |
| `cypher_front_end` | no keyword, operator or position that a node's grammar leaves open is ignored; no subtree is dropped and no "impossible" branch is taken; integer literals are exact; every statement is answered once, in order | documents of 3 lexical elements, loops unrolled twice, words of 4 bits, any nesting |
| `cypher_binder_panics` | **violation**, finding 3 | as above |
| `read_query` | the working set is closed under the ends of its edges and enough for the matcher; counts are exact; a breadth-first search finds all shortest trails; every query ends | 3 nodes and 3 edges in every arrangement with 17 queries, 19 values in every unordered pair with 57 queries, 16 label sets and values with 4 queries |
| `shortest_path_cycles` | **violation**, finding 4 | 3 nodes, 3 edges |

Why the bounds are enough. Two nodes, an edge and three revisions contain every
in-batch sequence on one entity (create, change, restore, delete, and each of
them on something older), an edge whose endpoint goes, and a history with a
revision on either side of the one being written. Three nodes are the smallest
graph with a cycle that is neither a self-loop nor a pair. Three entities with
limits 1 and 2 give pages that are full, exact, short and empty, and three
revisions put a commit before, inside and after a listing. The digits of an
identifier keep a whole byte between two partial ones, and all payloads are
reached. A superseded command needs two commands, and one commit makes their
answers differ; three user actions let a historical load, a return and a refresh
meet the poller's reload. The timeline needs an older page, a refresh and a trim
in one run, which page size 1 gives with three revisions. Under `Forms` graph
loads never answer: what counts there is that one has been asked for. Two
initialisers give a winner and a loser of the rename, three schema versions put a
failure between two migrations, and timeout 2 with backoffs 1 and 2 has a wait
that is cut short by the deadline. A loop of the grammar unrolled twice has a
first, a middle and a last element as far as the binder looks at neighbours;
4 bits hold the asymmetric ends of the integers. `Exact = 4` and `MaxInteger = 11`
leave integers that no float equals, a float beyond all integers, and (`Digits`) a
float among them that is printed as another number;
`PredicateTerms = 2` is exceeded by patterns with three labels, types or
properties; `MaxEntities = 5` and `MaxDepth = 3` are exceeded by some graphs and
by one query. Three edges on three nodes include self-loops, parallel edges,
pairs and triangles; the first edge starts at the first node, which loses nothing
but renamings.

The fields of a `Budget` (`MCTuiSession`), `MaxSwaps`, `MaxRevision`,
`MaxTime`, `MaxMillis`, `WalkRevisions`, `MaxTrouble` and `MaxSource` are the named
bounds; a TUI command beyond its budget merely never answers, which is a legal
behaviour. Symmetry is used in the two store runs only, over identifiers and
contents, which the specification compares but never orders; no liveness is
checked there. In `paging` a behaviour has one kind of client, since none reads
what another keeps.

Fairness. `GraphPaging` makes `Resolve` and `Scan` weakly fair: `allNodes` and
`allEdges` are synchronous loops that make the next call as long as there is a
cursor. `TuiSession!FairSpec` makes the graph load, the poll and the handling of
their messages weakly fair: a command's goroutine returns, Bubble Tea delivers its
message, and `pollDelayCmd` schedules the next tick first thing, whatever the
answer was. Nothing is assumed of users, other processes or the timeline.
`Startup!FairSpec` makes each process that is not killed weakly fair; a foreign
client may hold the lock for ever. `ReadQuery!FairSpec` makes `Next` weakly fair:
one goroutine runs a query from its start to its answer.

Deadlock is checked in every run except those of the Cypher front end and of
`ReadQuery`, which stop when `Parse` or the query has returned. (`Startup` has
a stuttering step for when every process has ended.)

The type invariants of `TemporalStore`, `EngineCache`, `GraphPaging`, `HistoryWalk`,
`TuiSession`, `Startup` and `CypherFrontEnd` document the state; no run spends a property on
them. Those of `TemporalStore`, `TuiSession` and `Startup` are proved instead.

## 4. Findings

1. `engine_cache_cancelling`. `Execute` caches the graph of a batch that netted to
   nothing under `base + 1`, a revision that was rolled back. If another process
   then commits `base + 1`, the cache check passes and the wrong graph is returned.
   The theorems about the cache therefore assume `~CancellingBatches`.
2. `tui_retry_historical`. Retrying from the operation-error overlay does not ask
   `requireLive`: the overlay of a mutation that fails after the user has opened a
   Timeline entry lets it write from a historical screen.
3. `cypher_binder_panics`. An index whose expression holds `..` anywhere in its
   text (`xs[ys[0..1][0]]`) is taken for a slice, and the range token that is not
   there is dereferenced; the panic leaves `Parse`.
4. `shortest_path_cycles`. An undirected `shortestPath` from a node to itself
   finds no cycle through three or more relationships: the search visits no node
   twice, and such a cycle visits its start twice.

Seen on the way, without a run of their own:

- A completed form is run by a message that checks the form held and its serial only
  (`actions.go:223`). An execution started earlier that finishes in between closes the
  overlay and keeps the form (`update.go:611`); the user opens a Timeline entry, and
  the message then writes from the historical screen. The model has these steps; it is
  a second way to violate `MutationsOnlyWhenLive`, whose run shows the shorter one.
- Lists are filed in the in-memory index by their JSON text. Equal lists can have
  different texts: `[-0.0]` and `[0]`, or an integer and the equal float above 2^53.
  When some node is filed under the text asked for, those under the other one are not
  found (`match.go:662`), although `match.go:652` leaves single numbers to the matcher
  "so representation differences cannot produce a false-negative lookup".
  `WorkingSetIsEnough` and `CountIsExact`, and the theorems about them, are about
  revisions without such lists (`LossyKeyStored`).
- `completeExistingProject` writes the marker in place (`project.go:234`), so a
  concurrent lookup can read an empty one, although `project.go:73` says that a
  staging directory keeps discovery from observing partial state. The model has
  it; `PartialMarkerHasWriter` says who may leave such a marker.
- A read-only query cancels a mutation under way, and the mutation's error is
  dropped with its old serial (`commands.go:104`); `docs/tui.md:109` promises that
  a failed guided mutation can be retried.
- `*3 /* .. */` is bound as `*..3`, because the range is recognised by its text
  (`binder_pattern.go:148`). `NoChoiceIgnored` excludes it (`CommentedRange`).
- `shortestPath((n)-[*1..]->(n))` with `n` unbound matches any target in the
  breadth-first search and only cycles in the generic matcher (`AsksForCycle`).
- A COMMIT under a cancelled context may report an error after it has taken
  effect (`write.go:197`); what the driver then reports is outside this code.

## 5. Proofs

Every theorem is about the specification that the runs check, for every value of
its constants that the named assumption admits. Bounds such as `MaxRevision` occur
as "some natural number".

| Module | Theorem | States |
|---|---|---|
| `TemporalStoreProofs` | `TypeCorrect`, `HistoryIsImmutable`, `PartialIsNeverCommitted` | `TypeOK`, `HistoryImmutable`, `PartialNeverCommitted` |
| | `IntegrityAlwaysHolds`, `NoTriggerAborts`, `CommitKeepsTheBatch`, `StoreIsGraphHistory` | `IntegrityHolds`, `TriggersNeverAbort`, `CommitKeepsBatch`, `ImplementsGraphHistory` |
| `EngineCacheProofs` | `AnswersExact`, `WritersSeeBase` | `AnswersAreExact`, `WritersSeeTheirBase` |
| `PagingProofs` | `PagesExact`, `PagesDisjoint`, `ContinuationsAccepted`, `CountsAgree` | `PagesAreOneSnapshot`, `NoEntityTwice`, `ContinuationAccepted`, `CountAgrees` |
| | `IdentifiersIncrease`, `WalksExact` | `IdsIncrease`, `WalkIsExact` |
| `StartupProofs` | `DeadlineHonoured`, `InitSucceedsWhole`, `AppearsWhole`, `MigratesWhole`, `PartialMarkers`, `SoundNeverRefused` | `RetryHonoursDeadline`, `InitLeavesUsableProject`, `ProjectAppearsWhole`, `MigrationAllOrNothing`, `PartialMarkerHasWriter`, `SoundLayoutNeverRefused` |
| `TuiSessionProofs` | `StaleMarked`, `TimelineWhole`, `LiveNeverRegresses`, `SelectionSurvives`, `OpenFormsLive`, `FormsRunCompleted` | `StaleIsMarked`, `TimelineHasNoHole`, `LiveViewNeverRegresses`, `SelectionIsTheUsers`, `OpenFormIsLive`, `OnlyCompletedFormsRun` |
| `CypherFrontEndProofs` | `StatementsAnswered`, `LiteralsExact` | `EveryStatementAnswered`, `LiteralIsExact` |
| `ReadQueryProofs` | `WorkingSetEnough`, `CountExact`, `ReadTypes` | `WorkingSetIsEnough`, `CountIsExact`, `TypeOK` |

**Version tables** (`VersionTableProofs`, no assumptions). One lemma per table
operation, for any identifiers and contents: what `INSERT`, closing, overwriting and
retiring rows at revision `rev` do to snapshots before `rev` (nothing), that rows stay
typed and never precede their identity, and that `TableSound` is kept: the versions of
an entity follow each other without gap or overlap, the first starts with the identity,
and only the last may be current. `TemporalStore` and `GraphPaging` both rest on them.

**Write path** (`TemporalStoreProofs`; assumptions `BoundsAssumption`,
`PositionAssumption`). `HistoryImmutable` is not inductive, since a commit replaces `db`
by `work`. The invariant `IInv` says that both are sound, that up to the base revision
they show the same graphs, and that the transaction's base is the newest sealed
revision. Soundness includes that no row precedes its identity: deleting an identity
that the batch created removes its rows, which is harmless only if they all start in
the batch. `PartialIsNeverCommitted` needs `Marked` (a partial transaction has its
failure recorded) besides.

**Integrity and refinement** (`TemporalStoreProofs`, same assumptions). `JInv`
strengthens `IInv` for the committed tables and for those of the running transaction.
Its parts are kept apart by what a failure leaves of them. `Shape` (contiguous
histories, no edge row older than the identities of its ends) is what the triggers rely
on, and holds also after a mutation that failed or stopped halfway: such a mutation
leaves an identity without a version, or a version closed without a successor.
`Graph` (every identity has a version, the ends of an edge live as long as it does, one
parent, no cycle in the current rows) holds while nothing has failed, which is when the
tables may be committed. A cycle is stated as a set of nodes each with a child in the
set, so that no path needs to be constructed: `AppendAcyclic` shows that the Go check
(the target does not reach the source) excludes it. The endpoint lemmas (`Spans*`) say
what updating, overwriting and deleting a node do to the lifetime its edges need;
deleting a node is the delicate case, because its current edges are retired first and
edges that ended in an earlier batch must still be spanned by the version that is now
closed. `NoTriggerAborts` is a part of the invariant, since what a refused statement
would leave is not known. At a commit what is current is what shows at the new revision
(`VisibleNow`), which turns the facts about current rows into those that
`validateDataIntegrity` checks at every revision. For the refinement a commit appends
`GraphAt(db', sealed')` to the history: it is well formed by `JInv`, differs from its
predecessor by `graphChanged`, leaves the earlier graphs alone by `HistoryIsImmutable`,
and brings no deleted entity back, because an entity without a current version gets
none (`INSERT` needs a fresh identity).

**Engine cache** (`EngineCacheProofs`; `EngineAssumption`, and `~CancellingBatches` as
a hypothesis of each theorem: finding 1 is the counterexample without it). `CInv` says
that whatever is cached, and whatever a reader is about to return or cache, is the graph
of the sealed revision it is labelled with, and that a writer's graph is the
transaction's image.

**Graph paging** (`PagingProofs`; `PagingAssumption`). `FirstNFact` characterises
`ORDER BY id LIMIT n` on finite sets of numbers: an initial segment, of size n or the
whole set. `PageFact` derives what a page adds. `PInv` adds to `PagesAreOneSnapshot`
and `NoEntityTwice` that the cursor names the first page's revision and predicate and
the largest key served (`CursorTracks`); commits keep it because the contents at a
sealed revision do not change. `AInv` adds what the two answers besides the pages need:
commit times increase, at most one version of an entity is visible at a revision, a
client that keeps its request resolves to the revision it is bound to or, by time, to a
later one (`RequestKept`), and a count is that of the bound snapshot (`CountTracks`).

**Identifiers and history walks** (`PagingProofs`; `DigitAssumption`,
`WalkAssumption`). `newUUIDv7` increments its payload at the last digit that is not at
its limit and clears those behind it; that the result is greater is shown for any number
and size of digits, as is the carry into the time when all digits are at their limit.
For the walk, `WalkInv` says that the cursor's boundary is sealed, that a walk without
one has read nothing, and what has been read on one side of it; the lemmas give the page
as a stretch of numbers in each order.

**Start** (`StartupProofs`; `StartupAssumption`, `LayoutAssumption`). The argument is
rely-guarantee. `Relies(p)` is what process `p` counts on at each `pc`: that the target
is there, that the schema is the latest and sound once its own migration or check went
through, that what it staged is whole, that `tx` is held exactly by a process inside the
migration. `Grows` is all any step may do to the directories: the target appears whole,
a version goes up to the latest of a sound database, a marker goes from absent to
partial to whole. `KeepsRelies` shows that `Grows` leaves alone what the others rely on,
so that each action is examined once, for its own process, and the number of processes
does not matter. `InTime(p)` bounds the sleeps. `PartialMarkers` assumes that no layout
starts with a half-written marker, `SoundNeverRefused` that the parent directory has no
project or one with its marker; both are conditions on what was on disk before, and all
layouts of the run satisfy them.

**TUI session** (`TuiSessionProofs`; `TuiAssumption`). `UInv` has one part per numbered
command. `LoadAwaited`: at most one load carries the latest number, it is for the target
last asked for, and if it is live its graph is no older than the screen. `FormIsLive`
is `OpenFormIsLive`. `FormAwaited`: a submit message carries the number of the form
held only once that form was completed, which is why the number check of `submitForm`
is enough against the messages of forms that were left. `RunAwaited` says the same of
executions: only the latest can end the one that is waited for, which is what
`SelectionSurvives` needs to tell a change of the user's own from an older one.
`TimelineStretch`: from the cursor up, the rows are one stretch of revisions that fits
the capacity (rows below it are selections that were kept when the timeline was
trimmed). `PageAwaited`: the awaited page continues the timeline at its cursor, or was
read when the store held no less than the timeline shows. The last part is where the
proof is: a refresh that trims and an older page that is under way exclude each other
only because the refresh takes a new number.

**Cypher front end** (`CypherFrontEndProofs`; `SourceAssumption`, `WordAssumption`).
`AnswerInv` says which segments have been cut off so far, each with its number and
whether it holds anything, that what is still to do follows what has been answered,
and that the numbers increase. Segments are characterised by the semicolons before a
place (`SegmentOf`), so nothing needs induction over the text. `LiteralsExact` is case
analysis on the sign and on the one magnitude, `Half`, that only a negative integer
has. The binder stays closed in both: what it makes of any other node decides only how
the walk goes on.

**Read queries** (`ReadQueryProofs`; `ReadAssumption`). The proof has two halves. The
first is about the matcher over part of a graph. `NodePlanSound` and `EdgePlanSound`:
the predicate pushed to the store admits whatever the matcher would accept, although
the store compares representations and cuts long lists. `Covers`: there are levels of
loaded nodes such that every admitted edge at a level is loaded and leads into the
next, and the admitted targets among them are known. `SameWalk` shows by induction on
the depth that over such levels the walks of the part are those of the whole graph;
`SamePattern`, `SameClauses` and `SameRows` carry this through patterns, `OPTIONAL`,
`WHERE` and `WITH`. They need `Fits`: a row binds a variable to null or to one of the
candidates the iterator recorded for it, and to nothing else, which is why a later
pattern may start from those candidates instead of from a scan. This is where the
fallback for a `WITH` between two `MATCH` clauses is needed: a name that was dropped and
used again would start from candidates of another scope. `IndexesExact`: the smallest
in-memory index entry, filtered, gives the nodes a look at every node gives, unless a
stored list has a key that an equal list need not have (`LossyKey`: it holds -0.0 or a
number beyond `Exact`); section 4 says what happens then. Of `ShortestDigits` the proof
uses only that floats up to `Exact` are shown as they are. The second half is the inductive invariant `Inv`: at a root, the patterns
before the cursor are covered; inside a pattern, also its relationships before the
cursor; inside an expansion, also its levels before the cursor's depth, with `seen`
holding the targets from the lower bound on. An expansion that runs out of nodes
early has empty levels from there on, and a frontier that is empty ends the pattern
early, since what follows cannot be reached. A plain count over one node pattern is
shown exact by a bijection: each matching node is found by exactly one of the
alternatives that the store counts (`PropertyPlanExact`), so none is counted twice.
`SearchOK` adds for `ReadTypes` that rows bind only nodes of the working set, so that a
search starts and goes on inside it. What a recursive function computes is obtained
without an induction principle: `LayersExist` constructs the layers up to n from a
least counterexample, and each use of it is a plain instance.

Only model-checked, and why:

- the liveness properties: fairness and `ENABLED` are out of the prover's reach;
- `NoChoiceIgnored` and `NothingDropped` of `CypherFrontEnd`: they are finite
  enumerations of the grammar's shapes, which TLC decides completely and which a proof
  would only repeat shape by shape;
- `ShortestPathsAreAllShortest`: that the paths reconstructed from the predecessors are
  all shortest trails is an argument about lengths of walks, for which the layers would
  have to be related to minimal distances; the run covers every graph of three edges on
  three nodes.

## 6. Not modelled

- Of the query engine: path variables, the row and path-expansion budgets, EXISTS,
  row order and LIMIT, lengths and properties computed at run time beyond a
  variable's property, WHERE beyond equality, aggregates other than `count`, the
  mutating clauses, and EXPLAIN.
- Of the front end: the lexer's automaton, ANTLR's prediction and error recovery,
  spans, messages, string decoding.
- Of the start: symlink and permission checks, the SQL of each migration as steps.
- The evaluator's expression language, value encodings and the derived index
  tables, size limits, calendar tables, result streaming, widgets, rendering, the
  command line and tools; the reasons are in `PROJECT.json`.
- SQLite is taken as atomic, isolated and durable, the file system's rename as
  atomic.

## 7. Plan

Modelled, in this order: write path, engine cache, graph paging, history paging,
TUI session, project and store start, Cypher front end, read queries, identifiers.
What is left of the code is text, tables and pure functions over values (section 6),
and `ScanChildEdges` with the batched reads, which page like the lists modelled.

Theorems to add: `ShortestPathsAreAllShortest` for every graph, with the exception
`LossyKeyStored` and validated patterns as hypotheses; the type invariant of
`EngineCache`.
