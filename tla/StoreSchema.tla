----------------------------- MODULE StoreSchema ----------------------------
(***************************************************************************)
(* The SQLite schema of a Sheets database (user_version 6): its tables as  *)
(* one record and the triggers, CHECKs and unique indexes that guard every *)
(* statement, as predicates over that record.                              *)
(*                                                                         *)
(*   times[r]        revisions.committed_ns of revision r                  *)
(*   sealed          how many of those revisions are sealed                *)
(*   nodes, edges    identity tables: id -> created_revision, Null if none *)
(*   nodeVersions, edgeVersions   the version tables                       *)
(*                                                                         *)
(* The derived label and property index tables, which the schema's AFTER   *)
(* triggers keep, are not part of this module.                             *)
(***************************************************************************)
EXTENDS VersionTable, Sequences

CONSTANTS NodeIds, EdgeIds,
          NodeValues,      \* what labels, properties and body can hold
          Types,           \* relationship types in use
          Positions,       \* values of an edge's position, NoPosition among them
          NoPosition,      \* position IS NULL
          EdgeProperties   \* what an edge's properties can hold

CHILD == "CHILD"

EdgeValues == [from : NodeIds, type : Types, to : NodeIds,
               position : Positions, properties : EdgeProperties]

Database ==
    [times        : Seq(Nat),
     sealed       : Nat,
     nodes        : [NodeIds -> Nat],
     nodeVersions : SUBSET VersionRow(NodeIds, NodeValues),
     edges        : [EdgeIds -> Nat],
     edgeVersions : SUBSET VersionRow(EdgeIds, EdgeValues)]

EmptyDatabase ==
    [times        |-> <<>>,
     sealed       |-> 0,
     nodes        |-> [n \in NodeIds |-> Null],
     nodeVersions |-> {},
     edges        |-> [e \in EdgeIds |-> Null],
     edgeVersions |-> {}]

-----------------------------------------------------------------------------
\* Graphs.

\* The graph a snapshot of revision r of database d shows.
GraphAt(d, r) == [nodes |-> ContentsAt(d.nodeVersions, r),
                  edges |-> ContentsAt(d.edgeVersions, r)]

\* The current CHILD edges except the one being replaced.
ChildEdges(T, exclude) ==
    {v \in T : IsCurrent(v) /\ v.value.type = CHILD /\ v.id \notin exclude}

\* Mutated: only the empty path and single edges.
ChildPathOneStep(T, start, goal, exclude) ==
    \/ start = goal
    \/ \E v \in ChildEdges(T, exclude) : v.value.from = start /\ v.value.to = goal

\* There is a path of those edges, possibly empty, from start to goal: goal is
\* in every set of nodes that holds start and is closed under the edges.
ChildPathExists(T, start, goal, exclude) ==
    \A S \in SUBSET NodeIds :
        (/\ start \in S
         /\ \A v \in ChildEdges(T, exclude) : v.value.from \in S => v.value.to \in S)
        => goal \in S

-----------------------------------------------------------------------------
\* Triggers.  MAX(revision) is the number of rows because revisions are dense.

MaxRow(d) == Len(d.times)

\* The revision exists and is not sealed: only then may rows carry it.
IsActive(d, rev) == rev = MaxRow(d) /\ rev > d.sealed

\* revisions_validate_insert and one_unsealed_revision
RevisionInsertAdmitted(d, rev, ns) ==
    /\ rev = MaxRow(d) + 1
    /\ \A r \in DOMAIN d.times : d.times[r] < ns
    /\ MaxRow(d) = d.sealed

\* nodes_validate_insert, edges_validate_insert and the primary key
IdentityInsertAdmitted(d, created, id, rev) ==
    /\ IsActive(d, rev)
    /\ created[id] = Null

\* node_versions_validate_insert; the unique index on current versions is
\* implied by its second case
VersionInsertAdmitted(d, T, created, row) ==
    /\ IsActive(d, row.valid_from)
    /\ \/ /\ \A v \in T : v.id # row.id
          /\ row.valid_from = created[row.id]
       \/ /\ \E v \in T : v.id = row.id /\ v.valid_to = row.valid_from
          /\ CurrentRows(T, row.id) = {}

\* node_versions_validate_update: closing a current version, CHECK valid_to >
\* valid_from included
VersionCloseAdmitted(d, T, ids, rev) ==
    \A v \in T : v.id \in ids /\ IsCurrent(v) => IsActive(d, rev) /\ rev > v.valid_from

\* node_versions_validate_update: rewriting the content of a version in place
VersionOverwriteAdmitted(d, T, id, rev) ==
    \A v \in T : v.id = id /\ v.valid_from = rev => IsActive(d, rev) /\ IsCurrent(v)

\* nodes_validate_delete / node_versions_validate_delete for what deleting ids drops
RetireAdmitted(d, T, created, ids, rev) ==
    LET dropped == RowsDropped(T, created, ids, rev)
    IN  /\ \A v \in dropped : IsActive(d, v.valid_from)
        /\ VersionCloseAdmitted(d, T \ dropped, ids, rev)

\* edge_versions_validate_insert and edge_versions_validate_update_graph: the
\* endpoints are current nodes and the CHILD edges stay acyclic; the unique
\* index one_current_child_parent; CHECK (type = 'CHILD' OR position IS NULL)
EdgeGraphAdmitted(d, id, value) ==
    /\ value.type # CHILD => value.position = NoPosition
    /\ {value.from, value.to} \subseteq CurrentIds(d.nodeVersions)
    /\ value.type = CHILD =>
           /\ ~ChildPathExists(d.edgeVersions, value.to, value.from, {id})
           /\ \A v \in ChildEdges(d.edgeVersions, {id}) : v.value.to # value.to

\* REFERENCES nodes(id): an identity goes only when no edge row names it
NodeUnreferenced(T, id) == \A v \in T : id \notin {v.value.from, v.value.to}

\* The statements of one ReplaceVersion, in order.
ReplaceAdmitted(d, T, created, cur, rev) ==
    IF cur.valid_from = rev
    THEN VersionOverwriteAdmitted(d, T, cur.id, rev)
    ELSE /\ VersionCloseAdmitted(d, T, {cur.id}, rev)
         /\ VersionInsertAdmitted(d, CloseCurrent(T, {cur.id}, rev), created,
                                  NewRow(cur.id, rev, cur.value))

\* revisions_validate_update: what sealing revision rev requires
SealAdmitted(d, rev) ==
    /\ IsActive(d, rev)
    /\ \A v \in d.nodeVersions :
          v.valid_to = rev /\ CurrentRows(d.nodeVersions, v.id) = {} =>
              \A e \in d.edgeVersions :
                  IsCurrent(e) => v.id \notin {e.value.from, e.value.to}
    /\ \A e \in d.edgeVersions :
          e.valid_from = rev /\ IsCurrent(e) =>
              {e.value.from, e.value.to} \subseteq CurrentIds(d.nodeVersions)
    /\ \/ TableChanged(d.nodeVersions, rev - 1, rev)
       \/ TableChanged(d.edgeVersions, rev - 1, rev)

-----------------------------------------------------------------------------
\* validateDataIntegrity: the checks that opening a database for migration and
\* `sheets check` run over the stored rows.

RevisionHistoryValid(d) ==
    /\ d.sealed = Len(d.times)
    /\ \A r \in 2..Len(d.times) : d.times[r - 1] < d.times[r]

\* Every identity has versions; the first starts with the identity and each
\* later one starts where the one before it ends.
EntityHistoryValid(T, created) ==
    /\ \A id \in DOMAIN created : created[id] # Null => \E v \in T : v.id = id
    /\ \A v \in T :
          LET earlier == {w \in T : w.id = v.id /\ w.valid_from < v.valid_from}
          IN  \/ earlier = {} /\ v.valid_from = created[v.id]
              \/ \E p \in earlier : /\ \A w \in earlier : w.valid_from <= p.valid_from
                                    /\ p.valid_to = v.valid_from

\* Both endpoints exist when an edge version starts, and until it ends.
EndpointLifetimeValid(d) ==
    \A e \in d.edgeVersions : \A n \in {e.value.from, e.value.to} :
        /\ \E v \in d.nodeVersions : v.id = n /\ VisibleAt(v, e.valid_from)
        /\ IF IsCurrent(e)
           THEN CurrentRows(d.nodeVersions, n) # {}
           ELSE \E v \in d.nodeVersions :
                   /\ v.id = n
                   /\ v.valid_from < e.valid_to
                   /\ IsCurrent(v) \/ v.valid_to >= e.valid_to

\* No two CHILD edges into a node overlap in time.
ParentUniqueValid(d) ==
    \A e, f \in d.edgeVersions :
        (/\ e.id # f.id
         /\ e.value.type = CHILD /\ f.value.type = CHILD
         /\ e.value.to = f.value.to)
        => \/ ~IsCurrent(f) /\ f.valid_to <= e.valid_from
           \/ ~IsCurrent(e) /\ e.valid_to <= f.valid_from

\* No path of CHILD versions that share a revision returns to its start.
ChildAcyclicValid(d) ==
    \A r \in DOMAIN d.times : \A S \in SUBSET NodeIds :
        (\A n \in S : \E e \in d.edgeVersions :
            /\ VisibleAt(e, r) /\ e.value.type = CHILD
            /\ e.value.from = n /\ e.value.to \in S)
        => S = {}

DataIntegrity(d) ==
    /\ RevisionHistoryValid(d)
    /\ EntityHistoryValid(d.nodeVersions, d.nodes)
    /\ EntityHistoryValid(d.edgeVersions, d.edges)
    /\ EndpointLifetimeValid(d)
    /\ ParentUniqueValid(d)
    /\ ChildAcyclicValid(d)
=============================================================================
