---------------------------- MODULE TemporalStore ---------------------------
(***************************************************************************)
(* Store.Write and its mutation surface WriteTx: one BEGIN IMMEDIATE       *)
(* transaction at a time, whose callback creates, updates and deletes      *)
(* nodes and edges and whose effects become at most one sealed revision.   *)
(*                                                                         *)
(*   db    what COMMIT has made durable: what every reader sees            *)
(*   work  the same tables as the write connection sees them               *)
(*   tx    the WriteTx: base and allocated revision and the sticky failure;*)
(*         for the properties only, whether a schema trigger aborted a     *)
(*         statement and whether a mutation stopped between two statements *)
(*                                                                         *)
(* SQLite serialises writers, in this process or another, so a single slot *)
(* stands for whichever Write holds the lock.  Losing the process before   *)
(* COMMIT and rolling back are the same step: SQLite discards work.        *)
(***************************************************************************)
EXTENDS StoreSchema

CONSTANTS MaxRevision,  \* math.MaxInt64 as a revision number
          MaxTime,      \* math.MaxInt64 as a committed_ns
          Clock         \* what the clock, or RevisionMeta.Time, can read

ASSUME BoundsAssumption ==
    MaxRevision \in Nat /\ MaxTime \in Nat /\ Clock \subseteq 0..MaxTime /\ Clock # {}

ASSUME PositionAssumption == NoPosition \in Positions

VARIABLES db, work, tx

vars == <<db, work, tx>>

NoTx == [active |-> FALSE, base |-> 0, revision |-> 0, failed |-> FALSE,
         aborted |-> FALSE, partial |-> FALSE]

TypeOK ==
    /\ db \in Database
    /\ work \in Database
    /\ tx \in [active : BOOLEAN, base : Nat, revision : Nat,
               failed : BOOLEAN, aborted : BOOLEAN, partial : BOOLEAN]

Init ==
    /\ db = EmptyDatabase
    /\ work = db
    /\ tx = NoTx

-----------------------------------------------------------------------------
\* The frame of a Write.

\* The lock is free and no unsealed revision is on disk; base is the newest
\* sealed revision.
Begin ==
    /\ ~tx.active
    /\ Len(db.times) = db.sealed
    /\ tx' = [NoTx EXCEPT !.active = TRUE, !.base = db.sealed]
    /\ work' = db
    /\ UNCHANGED db

\* The callback returned an error or panicked, its context was cancelled, the
\* commit failed, or the process died.
Rollback ==
    /\ tx.active
    /\ tx' = NoTx
    /\ work' = db
    /\ UNCHANGED db

\* recordMutationFailure: the first failure of a mutation fails the whole Write,
\* even if the callback goes on and returns nil.
Fail ==
    /\ tx' = [tx EXCEPT !.failed = TRUE]
    /\ UNCHANGED <<db, work>>

-----------------------------------------------------------------------------
\* ensureRevision.

\* The revision this batch has, or gets with its first effective mutation.
Rev == tx.base + 1

\* No revision number or no later timestamp is left.
AllocationFails(now) ==
    /\ tx.revision = 0
    /\ \/ tx.base >= MaxRevision
       \/ /\ work.times # <<>>
          /\ now <= work.times[Len(work.times)]
          /\ work.times[Len(work.times)] = MaxTime

\* Mutated: the clock's reading, also when the clock has not advanced.
CommitTimeUnadjusted(now) == now

\* The clock's reading, or one past the previous revision's time if the clock
\* has not advanced beyond it.
CommitTime(now) ==
    IF work.times # <<>> /\ now <= work.times[Len(work.times)]
    THEN work.times[Len(work.times)] + 1
    ELSE now

\* The tables once the batch has its revision row.
EnsureRevision(now) ==
    IF tx.revision # 0 THEN work
    ELSE [work EXCEPT !.times = Append(@, CommitTime(now))]

RevisionAdmitted(now) ==
    tx.revision = 0 => RevisionInsertAdmitted(work, Rev, CommitTime(now))

\* Mutated: the outcome of the latest mutation decides, not the first failure.
MutateForgivesFailure(now, admitted, result) ==
    /\ work' = IF RevisionAdmitted(now) /\ admitted THEN result ELSE EnsureRevision(now)
    /\ tx' = [tx EXCEPT !.revision = Rev,
                        !.failed  = ~(RevisionAdmitted(now) /\ admitted),
                        !.aborted = @ \/ ~(RevisionAdmitted(now) /\ admitted)]
    /\ UNCHANGED db

\* A mutation allocates the revision and runs its statements; one that a
\* trigger aborts leaves the revision allocated and the Write failed.
Mutate(now, admitted, result) ==
    /\ work' = IF RevisionAdmitted(now) /\ admitted THEN result ELSE EnsureRevision(now)
    /\ tx' = [tx EXCEPT !.revision = Rev,
                        !.failed  = @ \/ ~(RevisionAdmitted(now) /\ admitted),
                        !.aborted = @ \/ ~(RevisionAdmitted(now) /\ admitted)]
    /\ UNCHANGED db

-----------------------------------------------------------------------------
\* Nodes.

CreateNode(id, value, now) ==
    /\ tx.active
    /\ IF work.nodes[id] # Null \/ AllocationFails(now)
       THEN Fail
       ELSE LET d   == EnsureRevision(now)
                ids == [d.nodes EXCEPT ![id] = Rev]
                row == NewRow(id, Rev, value)
            IN  Mutate(now,
                       /\ IdentityInsertAdmitted(d, d.nodes, id, Rev)
                       /\ VersionInsertAdmitted(d, d.nodeVersions, ids, row),
                       [d EXCEPT !.nodes = ids, !.nodeVersions = @ \cup {row}])

\* Not found is a failure; setting what is already there is nothing at all.
UpdateNode(id, value, now) ==
    /\ tx.active
    /\ \/ CurrentRows(work.nodeVersions, id) = {} /\ Fail
       \/ \E cur \in CurrentRows(work.nodeVersions, id) :
             /\ cur.value # value
             /\ IF AllocationFails(now)
                THEN Fail
                ELSE LET d == EnsureRevision(now)
                     IN  Mutate(now,
                                ReplaceAdmitted(d, d.nodeVersions, d.nodes, cur, Rev),
                                [d EXCEPT !.nodeVersions =
                                    ReplaceVersion(@, cur, Rev, value)])

IncidentEdges(T, id) ==
    {v.id : v \in {w \in T : IsCurrent(w) /\ id \in {w.value.from, w.value.to}}}

\* Every current edge at the node is closed first, then the node.
DeleteNode(id, now) ==
    /\ tx.active
    /\ IF CurrentRows(work.nodeVersions, id) = {} \/ AllocationFails(now)
       THEN Fail
       ELSE LET d        == EnsureRevision(now)
                incident == IncidentEdges(d.edgeVersions, id)
                nodes    == RetireIdentities(d.nodeVersions, d.nodes, {id}, Rev)
                edgeRows == RetireVersions(d.edgeVersions, d.edges, incident, Rev)
            IN  Mutate(now,
                       /\ RetireAdmitted(d, d.edgeVersions, d.edges, incident, Rev)
                       /\ RetireAdmitted(d, d.nodeVersions, d.nodes, {id}, Rev)
                       /\ nodes[id] = Null => NodeUnreferenced(edgeRows, id),
                       [d EXCEPT !.nodes = nodes,
                                 !.nodeVersions = RetireVersions(@, d.nodes, {id}, Rev),
                                 !.edges = RetireIdentities(d.edgeVersions, @, incident, Rev),
                                 !.edgeVersions = edgeRows])

-----------------------------------------------------------------------------
\* Edges.

\* Mutated: the target endpoint is not looked up.
ValidateEdgeOneEnd(value, exclude) ==
    /\ value.type # CHILD => value.position = NoPosition
    /\ value.from \in CurrentIds(work.nodeVersions)
    /\ value.type = CHILD =>
           /\ \A v \in ChildEdges(work.edgeVersions, exclude) : v.value.to # value.to
           /\ ~ChildPathExists(work.edgeVersions, value.to, value.from, exclude)

\* Mutated: only a self-loop counts as a cycle.
ValidateEdgeSelfLoop(value, exclude) ==
    /\ value.type # CHILD => value.position = NoPosition
    /\ value.from \in CurrentIds(work.nodeVersions)
    /\ value.to \in CurrentIds(work.nodeVersions)
    /\ value.type = CHILD =>
           /\ \A v \in ChildEdges(work.edgeVersions, exclude) : v.value.to # value.to
           /\ value.from # value.to

\* The Go-side admission of an edge that replaces the edges exclude.
ValidateEdge(value, exclude) ==
    /\ value.type # CHILD => value.position = NoPosition
    /\ value.from \in CurrentIds(work.nodeVersions)
    /\ value.to \in CurrentIds(work.nodeVersions)
    /\ value.type = CHILD =>
           /\ \A v \in ChildEdges(work.edgeVersions, exclude) : v.value.to # value.to
           /\ ~ChildPathExists(work.edgeVersions, value.to, value.from, exclude)

CreateEdge(id, value, now) ==
    /\ tx.active
    /\ IF ~ValidateEdge(value, {}) \/ work.edges[id] # Null \/ AllocationFails(now)
       THEN Fail
       ELSE LET d   == EnsureRevision(now)
                ids == [d.edges EXCEPT ![id] = Rev]
                row == NewRow(id, Rev, value)
            IN  Mutate(now,
                       /\ IdentityInsertAdmitted(d, d.edges, id, Rev)
                       /\ VersionInsertAdmitted(d, d.edgeVersions, ids, row)
                       /\ EdgeGraphAdmitted(d, id, value),
                       [d EXCEPT !.edges = ids, !.edgeVersions = @ \cup {row}])

\* The new content is validated before it is compared with the old.
UpdateEdge(id, value, now) ==
    /\ tx.active
    /\ \/ CurrentRows(work.edgeVersions, id) = {} /\ Fail
       \/ \E cur \in CurrentRows(work.edgeVersions, id) :
             \/ ~ValidateEdge(value, {id}) /\ Fail
             \/ /\ ValidateEdge(value, {id})
                /\ cur.value # value
                /\ IF AllocationFails(now)
                   THEN Fail
                   ELSE LET d == EnsureRevision(now)
                        IN  Mutate(now,
                                   /\ ReplaceAdmitted(d, d.edgeVersions, d.edges, cur, Rev)
                                   /\ EdgeGraphAdmitted(d, id, value),
                                   [d EXCEPT !.edgeVersions =
                                       ReplaceVersion(@, cur, Rev, value)])

DeleteEdge(id, now) ==
    /\ tx.active
    /\ IF CurrentRows(work.edgeVersions, id) = {} \/ AllocationFails(now)
       THEN Fail
       ELSE LET d == EnsureRevision(now)
            IN  Mutate(now,
                       RetireAdmitted(d, d.edgeVersions, d.edges, {id}, Rev),
                       [d EXCEPT !.edges = RetireIdentities(d.edgeVersions, @, {id}, Rev),
                                 !.edgeVersions = RetireVersions(@, d.edges, {id}, Rev)])

-----------------------------------------------------------------------------
\* Failures that are not about the graph.

\* A mutation refuses its arguments (identifier, text, codec or metadata limits)
\* before it touches a table.
RejectInput ==
    /\ tx.active
    /\ Fail

\* A statement in the middle of a mutation fails (cancelled context, full disk):
\* the statements before it have run, and left the tables like result.
BreakOff(now, result) ==
    /\ tx.active
    /\ ~AllocationFails(now)
    /\ tx' = [tx EXCEPT !.revision = Rev, !.failed = TRUE, !.partial = TRUE]
    /\ work' = result
    /\ UNCHANGED db

\* CreateNode inserted the identity but not its first version, UpdateNode closed
\* the old version but did not insert the new one, or DeleteNode closed only some
\* of the incident edges.
BreakOffNode(id, now) ==
    LET d == EnsureRevision(now)
    IN  \/ /\ work.nodes[id] = Null
           /\ BreakOff(now, [d EXCEPT !.nodes = [@ EXCEPT ![id] = Rev]])
        \/ /\ \E v \in CurrentRows(work.nodeVersions, id) : v.valid_from # Rev
           /\ BreakOff(now, [d EXCEPT !.nodeVersions = CloseCurrent(@, {id}, Rev)])
        \/ /\ CurrentRows(work.nodeVersions, id) # {}
           /\ \E closed \in SUBSET IncidentEdges(d.edgeVersions, id) :
                 BreakOff(now, [d EXCEPT
                     !.edges = RetireIdentities(d.edgeVersions, @, closed, Rev),
                     !.edgeVersions = RetireVersions(@, d.edges, closed, Rev)])

\* CreateEdge and UpdateEdge stop between the same statements; what they were to
\* write has passed validateEdge.
BreakOffEdge(id, now) ==
    LET d == EnsureRevision(now)
    IN  \/ /\ work.edges[id] = Null
           /\ \E value \in EdgeValues : ValidateEdge(value, {})
           /\ BreakOff(now, [d EXCEPT !.edges = [@ EXCEPT ![id] = Rev]])
        \/ /\ \E cur \in CurrentRows(work.edgeVersions, id) :
                 /\ cur.valid_from # Rev
                 /\ \E value \in EdgeValues : cur.value # value /\ ValidateEdge(value, {id})
           /\ BreakOff(now, [d EXCEPT !.edgeVersions = CloseCurrent(@, {id}, Rev)])

-----------------------------------------------------------------------------
\* The end of a Write whose callback returned nil.

\* Compares only what the batch touched, at base and at the batch's revision.
GraphChanged ==
    \/ TableChanged(work.nodeVersions, tx.base, tx.revision)
    \/ TableChanged(work.edgeVersions, tx.base, tx.revision)

\* A mutation failed although the callback swallowed the error: roll back.
ReturnFailure ==
    /\ tx.active
    /\ tx.failed
    /\ tx' = NoTx
    /\ work' = db
    /\ UNCHANGED db

\* No revision was allocated, or the batch cancelled itself out: the savepoint
\* is rolled back and nothing is committed.
CommitNothing ==
    /\ tx.active
    /\ ~tx.failed
    /\ tx.revision = 0 \/ ~GraphChanged
    /\ tx' = NoTx
    /\ work' = db
    /\ UNCHANGED db

\* The revision is sealed and committed.
CommitRevision ==
    /\ tx.active
    /\ ~tx.failed
    /\ tx.revision # 0
    /\ GraphChanged
    /\ db' = IF SealAdmitted(work, tx.revision) THEN [work EXCEPT !.sealed = tx.revision] ELSE db
    /\ work' = db'
    /\ tx' = NoTx

-----------------------------------------------------------------------------
Mutation ==
    \E now \in Clock :
        \/ \E id \in NodeIds :
              \/ \E value \in NodeValues : CreateNode(id, value, now)
              \/ \E value \in NodeValues : UpdateNode(id, value, now)
              \/ DeleteNode(id, now)
              \/ BreakOffNode(id, now)
        \/ \E id \in EdgeIds :
              \/ \E value \in EdgeValues : CreateEdge(id, value, now)
              \/ \E value \in EdgeValues : UpdateEdge(id, value, now)
              \/ DeleteEdge(id, now)
              \/ BreakOffEdge(id, now)

Next ==
    \/ Begin
    \/ Mutation
    \/ RejectInput
    \/ Rollback
    \/ ReturnFailure
    \/ CommitNothing
    \/ CommitRevision

Spec == Init /\ [][Next]_vars

-----------------------------------------------------------------------------
\* Properties.

CurrentGraph(d) == GraphAt(d, MaxRow(d))

\* A database that only Write has written always passes its own integrity
\* check, whatever sequence of batches, failures and crashes produced it.
IntegrityHolds == DataIntegrity(db)

\* The Go checks admit nothing that a trigger, CHECK or unique index of the
\* schema then refuses, neither in a mutation nor when the revision is sealed:
\* the two layers of validation agree.
TriggersNeverAbort ==
    /\ ~tx.aborted
    /\ (tx.active /\ ~tx.failed /\ tx.revision # 0 /\ GraphChanged)
          => SealAdmitted(work, tx.revision)

\* The graph a reader sees at a sealed revision never changes again.
HistoryImmutable ==
    [][\A r \in 0..db.sealed : GraphAt(db', r) = GraphAt(db, r)]_vars

\* When a Write succeeds the newest revision shows exactly the graph its
\* callback saw last, whether or not it got a revision of its own: comparing
\* only the touched identities loses no change.
CommitKeepsBatch ==
    [][CommitNothing \/ CommitRevision => CurrentGraph(db') = CurrentGraph(work)]_vars

\* A mutation that stopped between two of its statements is never committed,
\* also when the callback hides the error and goes on mutating.
PartialNeverCommitted ==
    [][tx.partial => db' = db]_vars

\* The store implements an append-only history of well-formed graphs in which
\* each revision changes something and no deleted entity returns.
History == [r \in 1..db.sealed |-> GraphAt(db, r)]

Abstract == INSTANCE GraphHistory WITH history <- History

ImplementsGraphHistory == Abstract!Spec
=============================================================================
