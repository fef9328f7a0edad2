------------------------- MODULE TemporalStoreProofs ------------------------
(***************************************************************************)
(* For every set of identifiers, contents and clock readings: the store is *)
(* type correct and its history is immutable; and, in the second part, it  *)
(* passes its own integrity check and is a history of well-formed graphs.  *)
(*                                                                         *)
(* HistoryImmutable says that a commit does not change what readers see at *)
(* older revisions, so the invariant relates the tables of the running     *)
(* transaction to the committed ones: up to the base revision both show    *)
(* the same graphs.  A statement keeps that because it only touches rows   *)
(* that start at the batch's revision or ends rows there; for the rows     *)
(* that go with a deleted identity this needs that no row is older than    *)
(* its identity.                                                           *)
(***************************************************************************)
EXTENDS TemporalStore, VersionTableProofs

\* The tables are typed and no row precedes its identity.
Sound(d) ==
    /\ d \in Database
    /\ RowsFollowIdentity(d.nodeVersions, d.nodes)
    /\ RowsFollowIdentity(d.edgeVersions, d.edges)

\* Up to d's newest sealed revision, w shows what d shows.
Agrees(w, d) ==
    /\ SameBefore(w.nodeVersions, d.nodeVersions, d.sealed + 1)
    /\ SameBefore(w.edgeVersions, d.edgeVersions, d.sealed + 1)

TxType == [active : BOOLEAN, base : Nat, revision : Nat, failed : BOOLEAN,
           aborted : BOOLEAN, partial : BOOLEAN]

IInv ==
    /\ Sound(db)
    /\ Sound(work)
    /\ Agrees(work, db)
    /\ tx \in TxType
    /\ tx.active => tx.base = db.sealed

\* The part of a step that leaves only the running transaction changed.
LEMMA WorkStep ==
    ASSUME IInv, db' = db, Sound(work'), Agrees(work', db),
           tx' \in TxType, tx'.active => tx'.base = tx.base, tx.active
    PROVE  IInv'
  BY DEF IInv

\* A table agrees with itself.
LEMMA SameRefl == ASSUME NEW T, NEW rev PROVE SameBefore(T, T, rev)
  BY DEF SameBefore

\* A failed mutation changes the sticky failure and nothing else.
LEMMA FailStep == ASSUME IInv, tx.active, Fail PROVE IInv'
<1>1. tx' \in TxType /\ tx'.base = tx.base
  BY DEF IInv, Fail, TxType
<1> QED BY <1>1 DEF IInv, Fail

\* ensureRevision adds a revision row and touches no other table.
LEMMA EnsureFact ==
    ASSUME IInv, NEW now \in Clock
    PROVE  LET d == EnsureRevision(now)
           IN  /\ d \in Database
               /\ d.sealed = work.sealed
               /\ d.nodes = work.nodes /\ d.nodeVersions = work.nodeVersions
               /\ d.edges = work.edges /\ d.edgeVersions = work.edgeVersions
<1>1. now \in Nat
  BY BoundsAssumption
<1>2. work \in Database
  BY DEF IInv, Sound
<1>3. CommitTime(now) \in Nat
  <2>1. work.times \in Seq(Nat)
    BY <1>2 DEF Database
  <2>2. work.times # <<>> => work.times[Len(work.times)] \in Nat
    BY <2>1
  <2> QED BY <1>1, <2>2 DEF CommitTime
<1>4. Append(work.times, CommitTime(now)) \in Seq(Nat)
  BY <1>2, <1>3 DEF Database
<1> QED BY <1>2, <1>4 DEF EnsureRevision, Database

\* A mutation whose result, if admitted, is sound and agrees with db.
LEMMA MutateTx ==
    ASSUME IInv, tx.active, NEW now \in Clock, db' = db,
           tx'.active = tx.active, tx'.base = tx.base, tx' \in TxType,
           \/ work' = EnsureRevision(now)
           \/ Sound(work') /\ Agrees(work', db)
    PROVE  IInv'
<1>1. CASE work' = EnsureRevision(now)
  <2>1. Sound(work')
    BY <1>1, EnsureFact DEF IInv, Sound
  <2>2. Agrees(work', db)
    BY <1>1, EnsureFact DEF IInv, Agrees
  <2> QED BY <2>1, <2>2, WorkStep
<1> QED BY <1>1, WorkStep

\* What Mutate does to the transaction record.
LEMMA MutateFrame ==
    ASSUME IInv, tx.active, NEW now \in Clock,
           NEW STATE admitted, NEW STATE result, Mutate(now, admitted, result)
    PROVE  /\ db' = db
           /\ tx' \in TxType /\ tx'.active = tx.active /\ tx'.base = tx.base
           /\ work' = EnsureRevision(now) \/ (admitted /\ work' = result)
<1>1. tx \in TxType /\ Rev \in Nat
  BY DEF IInv, TxType, Rev
<1>2. /\ db' = db
      /\ work' = EnsureRevision(now) \/ (admitted /\ work' = result)
  BY DEF Mutate
<1>3. (tx.failed \/ ~(RevisionAdmitted(now) /\ admitted)) \in BOOLEAN
  OBVIOUS
<1>4. (tx.aborted \/ ~(RevisionAdmitted(now) /\ admitted)) \in BOOLEAN
  OBVIOUS
<1>5. tx' \in TxType /\ tx'.active = tx.active /\ tx'.base = tx.base
  BY <1>1, <1>3, <1>4 DEF Mutate, TxType
<1> QED BY <1>2, <1>5

\* Tables that differ from the transaction's only in ways older snapshots
\* cannot see may replace them.
LEMMA TablesFact ==
    ASSUME IInv, tx.active, NEW STATE u, u \in Database,
           RowsFollowIdentity(u.nodeVersions, u.nodes),
           RowsFollowIdentity(u.edgeVersions, u.edges),
           SameBefore(u.nodeVersions, work.nodeVersions, Rev),
           SameBefore(u.edgeVersions, work.edgeVersions, Rev)
    PROVE  Sound(u) /\ Agrees(u, db)
<1>1. Rev = db.sealed + 1
  BY DEF IInv, Rev
<1> QED BY <1>1 DEF IInv, Sound, Agrees, SameBefore

\* What every mutation may assume of the transaction's tables.
LEMMA WorkFact ==
    ASSUME IInv
    PROVE  /\ Rev \in Nat /\ Rev # Null
           /\ work.nodes \in [NodeIds -> Nat] /\ work.edges \in [EdgeIds -> Nat]
           /\ work.nodeVersions \in SUBSET VersionRow(NodeIds, NodeValues)
           /\ work.edgeVersions \in SUBSET VersionRow(EdgeIds, EdgeValues)
           /\ RowsFollowIdentity(work.nodeVersions, work.nodes)
           /\ RowsFollowIdentity(work.edgeVersions, work.edges)
  BY DEF IInv, Rev, TxType, Sound, Database, Null

\* CreateNode inserts an identity and its first version; because the identity is
\* new, no older row can belong to it.
LEMMA CreateNodeStep ==
    ASSUME IInv, NEW id \in NodeIds, NEW value \in NodeValues, NEW now \in Clock,
           CreateNode(id, value, now)
    PROVE  IInv'
<1> DEFINE d == EnsureRevision(now)
           ids == [d.nodes EXCEPT ![id] = Rev]
           row == NewRow(id, Rev, value)
           rows == d.nodeVersions \cup {row}
           new == [d EXCEPT !.nodes = ids, !.nodeVersions = rows]
           ok == /\ IdentityInsertAdmitted(d, d.nodes, id, Rev)
                 /\ VersionInsertAdmitted(d, d.nodeVersions, ids, row)
<1>1. tx.active
  BY DEF CreateNode
<1>2. CASE Fail
  BY <1>1, <1>2, FailStep
<1>3. CASE work.nodes[id] = Null /\ Mutate(now, ok, new)
  <2>1. /\ db' = db /\ tx' \in TxType /\ tx'.active = tx.active /\ tx'.base = tx.base
        /\ work' = d \/ (ok /\ work' = new)
    BY <1>1, <1>3, MutateFrame
  <2>2. /\ Rev \in Nat /\ Rev # Null
        /\ work.nodes \in [NodeIds -> Nat]
        /\ work.nodeVersions \in SUBSET VersionRow(NodeIds, NodeValues)
        /\ RowsFollowIdentity(work.nodeVersions, work.nodes)
        /\ RowsFollowIdentity(work.edgeVersions, work.edges)
    BY WorkFact
  <2>3. /\ d \in Database
        /\ d.nodes = work.nodes /\ d.nodeVersions = work.nodeVersions
        /\ d.edges = work.edges /\ d.edgeVersions = work.edgeVersions
    BY EnsureFact
  <2>4. /\ rows \in SUBSET VersionRow(NodeIds, NodeValues)
        /\ SameBefore(rows, work.nodeVersions, Rev)
    <3> HIDE DEF d
    <3>1. \A T \in SUBSET VersionRow(NodeIds, NodeValues), rev \in Nat :
             /\ T \cup {NewRow(id, rev, value)} \in SUBSET VersionRow(NodeIds, NodeValues)
             /\ SameBefore(T \cup {NewRow(id, rev, value)}, T, rev)
      BY InsertFact
    <3> QED BY <2>2, <2>3, <3>1
  <2>5. RowsFollowIdentity(rows, ids)
    <3>1. \A v \in work.nodeVersions : v.id # id /\ v.id \in NodeIds
      BY <1>3, <2>2 DEF RowsFollowIdentity, VersionRow
    <3>2. row.id = id /\ row.valid_from = Rev
      BY DEF NewRow
    <3>3. ids[id] = Rev /\ \A v \in work.nodeVersions : ids[v.id] = work.nodes[v.id]
      BY <2>2, <2>3, <3>1
    <3> HIDE DEF ids, row, d
    <3> QED BY <2>2, <2>3, <3>2, <3>3 DEF RowsFollowIdentity
  <2>6. ids \in [NodeIds -> Nat]
    BY <2>2, <2>3
  <2> HIDE DEF d, ids, rows
  <2>7. /\ new \in Database
        /\ new.nodes = ids /\ new.nodeVersions = rows
        /\ new.edges = work.edges /\ new.edgeVersions = work.edgeVersions
    BY <2>3, <2>4, <2>6 DEF Database
  <2>8. Sound(new) /\ Agrees(new, db)
    BY <1>1, <2>2, <2>4, <2>5, <2>7, TablesFact, SameRefl
  <2> QED BY <1>1, <2>1, <2>8, MutateTx DEF d
<1> QED BY <1>2, <1>3 DEF CreateNode

\* CreateEdge, likewise.
LEMMA CreateEdgeStep ==
    ASSUME IInv, NEW id \in EdgeIds, NEW value \in EdgeValues, NEW now \in Clock,
           CreateEdge(id, value, now)
    PROVE  IInv'
<1> DEFINE d == EnsureRevision(now)
           ids == [d.edges EXCEPT ![id] = Rev]
           row == NewRow(id, Rev, value)
           rows == d.edgeVersions \cup {row}
           new == [d EXCEPT !.edges = ids, !.edgeVersions = rows]
           ok == /\ IdentityInsertAdmitted(d, d.edges, id, Rev)
                 /\ VersionInsertAdmitted(d, d.edgeVersions, ids, row)
                 /\ EdgeGraphAdmitted(d, id, value)
<1>1. tx.active
  BY DEF CreateEdge
<1>2. CASE Fail
  BY <1>1, <1>2, FailStep
<1>3. CASE work.edges[id] = Null /\ Mutate(now, ok, new)
  <2>1. /\ db' = db /\ tx' \in TxType /\ tx'.active = tx.active /\ tx'.base = tx.base
        /\ work' = d \/ (ok /\ work' = new)
    BY <1>1, <1>3, MutateFrame
  <2>2. /\ Rev \in Nat /\ Rev # Null
        /\ work.edges \in [EdgeIds -> Nat]
        /\ work.edgeVersions \in SUBSET VersionRow(EdgeIds, EdgeValues)
        /\ RowsFollowIdentity(work.edgeVersions, work.edges)
        /\ RowsFollowIdentity(work.nodeVersions, work.nodes)
    BY WorkFact
  <2>3. /\ d \in Database
        /\ d.edges = work.edges /\ d.edgeVersions = work.edgeVersions
        /\ d.nodes = work.nodes /\ d.nodeVersions = work.nodeVersions
    BY EnsureFact
  <2>4. /\ rows \in SUBSET VersionRow(EdgeIds, EdgeValues)
        /\ SameBefore(rows, work.edgeVersions, Rev)
    <3> HIDE DEF d
    <3>1. \A T \in SUBSET VersionRow(EdgeIds, EdgeValues), rev \in Nat :
             /\ T \cup {NewRow(id, rev, value)} \in SUBSET VersionRow(EdgeIds, EdgeValues)
             /\ SameBefore(T \cup {NewRow(id, rev, value)}, T, rev)
      BY InsertFact
    <3> QED BY <2>2, <2>3, <3>1
  <2>5. RowsFollowIdentity(rows, ids)
    <3>1. \A v \in work.edgeVersions : v.id # id /\ v.id \in EdgeIds
      BY <1>3, <2>2 DEF RowsFollowIdentity, VersionRow
    <3>2. row.id = id /\ row.valid_from = Rev
      BY DEF NewRow
    <3>3. ids[id] = Rev /\ \A v \in work.edgeVersions : ids[v.id] = work.edges[v.id]
      BY <2>2, <2>3, <3>1
    <3> HIDE DEF ids, row, d
    <3> QED BY <2>2, <2>3, <3>2, <3>3 DEF RowsFollowIdentity
  <2>6. ids \in [EdgeIds -> Nat]
    BY <2>2, <2>3
  <2> HIDE DEF d, ids, rows
  <2>7. /\ new \in Database
        /\ new.edges = ids /\ new.edgeVersions = rows
        /\ new.nodes = work.nodes /\ new.nodeVersions = work.nodeVersions
    BY <2>3, <2>4, <2>6 DEF Database
  <2>8. Sound(new) /\ Agrees(new, db)
    BY <1>1, <2>2, <2>4, <2>5, <2>7, TablesFact, SameRefl
  <2> QED BY <1>1, <2>1, <2>8, MutateTx DEF d
<1> QED BY <1>2, <1>3 DEF CreateEdge

\* UpdateNode edits the batch's own version or closes an older one, which the
\* trigger only lets it do at a later revision.
LEMMA UpdateNodeStep ==
    ASSUME IInv, NEW id \in NodeIds, NEW value \in NodeValues, NEW now \in Clock,
           UpdateNode(id, value, now)
    PROVE  IInv'
<1>1. tx.active
  BY DEF UpdateNode
<1>2. CASE Fail
  BY <1>1, <1>2, FailStep
<1>3. ASSUME NEW cur \in CurrentRows(work.nodeVersions, id),
             LET d == EnsureRevision(now)
             IN  Mutate(now,
                        ReplaceAdmitted(d, d.nodeVersions, d.nodes, cur, Rev),
                        [d EXCEPT !.nodeVersions = ReplaceVersion(@, cur, Rev, value)])
      PROVE  IInv'
  <2> DEFINE d == EnsureRevision(now)
             rows == ReplaceVersion(work.nodeVersions, cur, Rev, value)
             new == [d EXCEPT !.nodeVersions = rows]
             ok == ReplaceAdmitted(d, d.nodeVersions, d.nodes, cur, Rev)
  <2>1. /\ d \in Database
        /\ d.nodes = work.nodes /\ d.nodeVersions = work.nodeVersions
        /\ d.edges = work.edges /\ d.edgeVersions = work.edgeVersions
    BY EnsureFact
  <2>2. /\ db' = db /\ tx' \in TxType /\ tx'.active = tx.active /\ tx'.base = tx.base
        /\ work' = d \/ (ok /\ work' = [d EXCEPT !.nodeVersions = ReplaceVersion(@, cur, Rev, value)])
    BY <1>1, <1>3, MutateFrame
  <2> HIDE DEF d
  <2>3. work' = d \/ (ok /\ work' = new)
    BY <2>1, <2>2
  <2>4. /\ Rev \in Nat
        /\ work.nodes \in [NodeIds -> Nat]
        /\ work.nodeVersions \in SUBSET VersionRow(NodeIds, NodeValues)
        /\ RowsFollowIdentity(work.nodeVersions, work.nodes)
        /\ RowsFollowIdentity(work.edgeVersions, work.edges)
    BY WorkFact
  <2>5. CASE ok /\ work' = new
    <3>1. cur \in work.nodeVersions /\ IsCurrent(cur)
      BY DEF CurrentRows
    <3>2. cur.valid_from <= Rev
      <4>1. CASE cur.valid_from = Rev
        BY <2>4, <4>1
      <4>2. CASE cur.valid_from # Rev
        <5>1. VersionCloseAdmitted(d, work.nodeVersions, {cur.id}, Rev)
          BY <2>1, <2>5, <4>2 DEF ReplaceAdmitted
        <5>2. cur.valid_from \in Nat
          BY <2>4, <3>1 DEF VersionRow
        <5> QED BY <2>4, <3>1, <5>1, <5>2 DEF VersionCloseAdmitted
      <4> QED BY <4>1, <4>2
    <3>3. /\ rows \in SUBSET VersionRow(NodeIds, NodeValues)
          /\ SameBefore(rows, work.nodeVersions, Rev)
          /\ RowsFollowIdentity(rows, work.nodes)
      BY <2>4, <3>1, <3>2, ReplaceFact
    <3> HIDE DEF rows
    <3>4. /\ new \in Database /\ new.nodeVersions = rows
          /\ new.nodes = work.nodes /\ new.edges = work.edges
          /\ new.edgeVersions = work.edgeVersions
      BY <2>1, <3>3 DEF Database
    <3>5. Sound(new) /\ Agrees(new, db)
      BY <1>1, <2>4, <3>3, <3>4, TablesFact, SameRefl
    <3> QED BY <1>1, <2>2, <2>5, <3>5, MutateTx
  <2> QED BY <1>1, <2>2, <2>3, <2>5, MutateTx DEF d
<1> QED BY <1>2, <1>3 DEF UpdateNode

\* UpdateEdge, likewise.
LEMMA UpdateEdgeStep ==
    ASSUME IInv, NEW id \in EdgeIds, NEW value \in EdgeValues, NEW now \in Clock,
           UpdateEdge(id, value, now)
    PROVE  IInv'
<1>1. tx.active
  BY DEF UpdateEdge
<1>2. CASE Fail
  BY <1>1, <1>2, FailStep
<1>3. ASSUME NEW cur \in CurrentRows(work.edgeVersions, id),
             LET d == EnsureRevision(now)
             IN  Mutate(now,
                        /\ ReplaceAdmitted(d, d.edgeVersions, d.edges, cur, Rev)
                        /\ EdgeGraphAdmitted(d, id, value),
                        [d EXCEPT !.edgeVersions = ReplaceVersion(@, cur, Rev, value)])
      PROVE  IInv'
  <2> DEFINE d == EnsureRevision(now)
             rows == ReplaceVersion(work.edgeVersions, cur, Rev, value)
             new == [d EXCEPT !.edgeVersions = rows]
             ok == ReplaceAdmitted(d, d.edgeVersions, d.edges, cur, Rev)
  <2>1. /\ d \in Database
        /\ d.nodes = work.nodes /\ d.nodeVersions = work.nodeVersions
        /\ d.edges = work.edges /\ d.edgeVersions = work.edgeVersions
    BY EnsureFact
  <2>2. /\ db' = db /\ tx' \in TxType /\ tx'.active = tx.active /\ tx'.base = tx.base
        /\ work' = d \/ (ok /\ work' = [d EXCEPT !.edgeVersions = ReplaceVersion(@, cur, Rev, value)])
    BY <1>1, <1>3, MutateFrame
  <2> HIDE DEF d
  <2>3. work' = d \/ (ok /\ work' = new)
    BY <2>1, <2>2
  <2>4. /\ Rev \in Nat
        /\ work.edges \in [EdgeIds -> Nat]
        /\ work.edgeVersions \in SUBSET VersionRow(EdgeIds, EdgeValues)
        /\ RowsFollowIdentity(work.nodeVersions, work.nodes)
        /\ RowsFollowIdentity(work.edgeVersions, work.edges)
    BY WorkFact
  <2>5. CASE ok /\ work' = new
    <3>1. cur \in work.edgeVersions /\ IsCurrent(cur)
      BY DEF CurrentRows
    <3>2. cur.valid_from <= Rev
      <4>1. CASE cur.valid_from = Rev
        BY <2>4, <4>1
      <4>2. CASE cur.valid_from # Rev
        <5>1. VersionCloseAdmitted(d, work.edgeVersions, {cur.id}, Rev)
          BY <2>1, <2>5, <4>2 DEF ReplaceAdmitted
        <5>2. cur.valid_from \in Nat
          BY <2>4, <3>1 DEF VersionRow
        <5> QED BY <2>4, <3>1, <5>1, <5>2 DEF VersionCloseAdmitted
      <4> QED BY <4>1, <4>2
    <3>3. /\ rows \in SUBSET VersionRow(EdgeIds, EdgeValues)
          /\ SameBefore(rows, work.edgeVersions, Rev)
          /\ RowsFollowIdentity(rows, work.edges)
      BY <2>4, <3>1, <3>2, ReplaceFact
    <3> HIDE DEF rows
    <3>4. /\ new \in Database /\ new.edgeVersions = rows
          /\ new.edges = work.edges /\ new.nodes = work.nodes
          /\ new.nodeVersions = work.nodeVersions
      BY <2>1, <3>3 DEF Database
    <3>5. Sound(new) /\ Agrees(new, db)
      BY <1>1, <2>4, <3>3, <3>4, TablesFact, SameRefl
    <3> QED BY <1>1, <2>2, <2>5, <3>5, MutateTx
  <2> QED BY <1>1, <2>2, <2>3, <2>5, MutateTx DEF d
<1> QED BY <1>2, <1>3 DEF UpdateEdge

\* What deleting nodes and edges in the transaction's tables leaves behind.
LEMMA RetireTables ==
    ASSUME IInv, tx.active, NEW now \in Clock, NEW ns, NEW es, NEW STATE u,
           u = [EnsureRevision(now) EXCEPT
                   !.nodes = RetireIdentities(work.nodeVersions, work.nodes, ns, Rev),
                   !.nodeVersions = RetireVersions(work.nodeVersions, work.nodes, ns, Rev),
                   !.edges = RetireIdentities(work.edgeVersions, work.edges, es, Rev),
                   !.edgeVersions = RetireVersions(work.edgeVersions, work.edges, es, Rev)]
    PROVE  Sound(u) /\ Agrees(u, db)
<1> DEFINE n == RetireIdentities(work.nodeVersions, work.nodes, ns, Rev)
           nv == RetireVersions(work.nodeVersions, work.nodes, ns, Rev)
           e == RetireIdentities(work.edgeVersions, work.edges, es, Rev)
           ev == RetireVersions(work.edgeVersions, work.edges, es, Rev)
<1>1. /\ Rev \in Nat
      /\ work.nodes \in [NodeIds -> Nat] /\ work.edges \in [EdgeIds -> Nat]
      /\ work.nodeVersions \in SUBSET VersionRow(NodeIds, NodeValues)
      /\ work.edgeVersions \in SUBSET VersionRow(EdgeIds, EdgeValues)
      /\ RowsFollowIdentity(work.nodeVersions, work.nodes)
      /\ RowsFollowIdentity(work.edgeVersions, work.edges)
  BY WorkFact
<1>2. /\ nv \in SUBSET VersionRow(NodeIds, NodeValues) /\ n \in [NodeIds -> Nat]
      /\ SameBefore(nv, work.nodeVersions, Rev) /\ RowsFollowIdentity(nv, n)
  BY <1>1, RetireFact
<1>3. /\ ev \in SUBSET VersionRow(EdgeIds, EdgeValues) /\ e \in [EdgeIds -> Nat]
      /\ SameBefore(ev, work.edgeVersions, Rev) /\ RowsFollowIdentity(ev, e)
  BY <1>1, RetireFact
<1>4. EnsureRevision(now) \in Database
  BY EnsureFact
<1> HIDE DEF n, nv, e, ev
<1>5. u = [EnsureRevision(now) EXCEPT !.nodes = n, !.nodeVersions = nv, !.edges = e, !.edgeVersions = ev]
  BY DEF n, nv, e, ev
<1>6. /\ u \in Database
      /\ u.nodes = n /\ u.nodeVersions = nv /\ u.edges = e /\ u.edgeVersions = ev
  BY <1>2, <1>3, <1>4, <1>5 DEF Database
<1> QED BY <1>2, <1>3, <1>6, TablesFact

\* Deleting nothing from a table leaves it as it is.
LEMMA RetireNothing ==
    ASSUME NEW Ids, NEW T, NEW created \in [Ids -> Nat], NEW rev
    PROVE  /\ RetireVersions(T, created, {}, rev) = T
           /\ RetireIdentities(T, created, {}, rev) = created
<1>1. T \ RowsDropped(T, created, {}, rev) = T
  BY DEF RowsDropped
<1>2. CloseCurrent(T, {}, rev) = T
  BY DEF CloseCurrent
<1>3. RetireIdentities(T, created, {}, rev) = created
  BY DEF RetireIdentities
<1> QED BY <1>1, <1>2, <1>3 DEF RetireVersions

\* Deleting edges only.
LEMMA EdgesRetired ==
    ASSUME IInv, tx.active, NEW now \in Clock, NEW es
    PROVE  LET d == EnsureRevision(now)
               new == [d EXCEPT !.edges = RetireIdentities(d.edgeVersions, @, es, Rev),
                                !.edgeVersions = RetireVersions(@, d.edges, es, Rev)]
           IN  Sound(new) /\ Agrees(new, db)
<1> DEFINE d == EnsureRevision(now)
           new == [d EXCEPT !.edges = RetireIdentities(d.edgeVersions, @, es, Rev),
                            !.edgeVersions = RetireVersions(@, d.edges, es, Rev)]
<1>1. /\ d \in Database
      /\ d.nodes = work.nodes /\ d.nodeVersions = work.nodeVersions
      /\ d.edges = work.edges /\ d.edgeVersions = work.edgeVersions
  BY EnsureFact
<1>2. /\ RetireVersions(work.nodeVersions, work.nodes, {}, Rev) = work.nodeVersions
      /\ RetireIdentities(work.nodeVersions, work.nodes, {}, Rev) = work.nodes
  BY WorkFact, RetireNothing
<1> HIDE DEF d
<1>3. new = [d EXCEPT
                !.nodes = RetireIdentities(work.nodeVersions, work.nodes, {}, Rev),
                !.nodeVersions = RetireVersions(work.nodeVersions, work.nodes, {}, Rev),
                !.edges = RetireIdentities(work.edgeVersions, work.edges, es, Rev),
                !.edgeVersions = RetireVersions(work.edgeVersions, work.edges, es, Rev)]
  BY <1>1, <1>2 DEF Database
<1> HIDE DEF new
<1>4. Sound(new) /\ Agrees(new, db)
  BY <1>3, RetireTables DEF d
<1> QED BY <1>4 DEF d, new

\* DeleteNode retires the node and its incident edges together.
LEMMA DeleteNodeStep ==
    ASSUME IInv, NEW id \in NodeIds, NEW now \in Clock, DeleteNode(id, now)
    PROVE  IInv'
<1> DEFINE d == EnsureRevision(now)
           incident == IncidentEdges(d.edgeVersions, id)
           nodes == RetireIdentities(d.nodeVersions, d.nodes, {id}, Rev)
           edgeRows == RetireVersions(d.edgeVersions, d.edges, incident, Rev)
           ok == /\ RetireAdmitted(d, d.edgeVersions, d.edges, incident, Rev)
                 /\ RetireAdmitted(d, d.nodeVersions, d.nodes, {id}, Rev)
                 /\ nodes[id] = Null => NodeUnreferenced(edgeRows, id)
           new == [d EXCEPT !.nodes = nodes,
                            !.nodeVersions = RetireVersions(@, d.nodes, {id}, Rev),
                            !.edges = RetireIdentities(d.edgeVersions, @, incident, Rev),
                            !.edgeVersions = edgeRows]
<1>1. tx.active
  BY DEF DeleteNode
<1>2. CASE Fail
  BY <1>1, <1>2, FailStep
<1>3. CASE Mutate(now, ok, new)
  <2>1. /\ db' = db /\ tx' \in TxType /\ tx'.active = tx.active /\ tx'.base = tx.base
        /\ work' = d \/ work' = new
    BY <1>1, <1>3, MutateFrame
  <2>2. /\ d \in Database
        /\ d.nodes = work.nodes /\ d.nodeVersions = work.nodeVersions
        /\ d.edges = work.edges /\ d.edgeVersions = work.edgeVersions
    BY EnsureFact
  <2> HIDE DEF d, incident
  <2>3. new = [d EXCEPT
                  !.nodes = RetireIdentities(work.nodeVersions, work.nodes, {id}, Rev),
                  !.nodeVersions = RetireVersions(work.nodeVersions, work.nodes, {id}, Rev),
                  !.edges = RetireIdentities(work.edgeVersions, work.edges, incident, Rev),
                  !.edgeVersions = RetireVersions(work.edgeVersions, work.edges, incident, Rev)]
    BY <2>2
  <2> HIDE DEF new
  <2>4. Sound(new) /\ Agrees(new, db)
    BY <1>1, <2>3, RetireTables DEF d
  <2> QED BY <1>1, <2>1, <2>4, MutateTx DEF d
<1> QED BY <1>2, <1>3 DEF DeleteNode

\* DeleteEdge retires one edge.
LEMMA DeleteEdgeStep ==
    ASSUME IInv, NEW id \in EdgeIds, NEW now \in Clock, DeleteEdge(id, now)
    PROVE  IInv'
<1> DEFINE d == EnsureRevision(now)
           ok == RetireAdmitted(d, d.edgeVersions, d.edges, {id}, Rev)
           new == [d EXCEPT !.edges = RetireIdentities(d.edgeVersions, @, {id}, Rev),
                            !.edgeVersions = RetireVersions(@, d.edges, {id}, Rev)]
<1>1. tx.active
  BY DEF DeleteEdge
<1>2. CASE Fail
  BY <1>1, <1>2, FailStep
<1>3. CASE Mutate(now, ok, new)
  <2>1. /\ db' = db /\ tx' \in TxType /\ tx'.active = tx.active /\ tx'.base = tx.base
        /\ work' = d \/ work' = new
    BY <1>1, <1>3, MutateFrame
  <2>2. Sound(new) /\ Agrees(new, db)
    BY <1>1, EdgesRetired
  <2> QED BY <1>1, <2>1, <2>2, MutateTx
<1> QED BY <1>2, <1>3 DEF DeleteEdge

\* A mutation that breaks off leaves the transaction open, and the tables that it
\* leaves must be sound.
LEMMA BrokenOff ==
    ASSUME IInv, NEW now \in Clock, NEW result, BreakOff(now, result)
    PROVE  /\ tx.active /\ db' = db /\ work' = result
           /\ Sound(result) /\ Agrees(result, db) => IInv'
<1>1. tx.active /\ db' = db /\ work' = result
  BY DEF BreakOff
<1>2. tx' \in TxType /\ tx'.active = tx.active /\ tx'.base = tx.base
  <2>1. tx \in TxType /\ Rev \in Nat
    BY WorkFact DEF IInv
  <2> QED BY <2>1 DEF BreakOff, TxType
<1> QED BY <1>1, <1>2, MutateTx

\* A broken-off insert has added an identity that has no version.
LEMMA LoneIdentity ==
    ASSUME NEW Ids, NEW Values, NEW T \in SUBSET VersionRow(Ids, Values),
           NEW created \in [Ids -> Nat], NEW id \in Ids, NEW rev \in Nat,
           RowsFollowIdentity(T, created), created[id] = Null
    PROVE  /\ [created EXCEPT ![id] = rev] \in [Ids -> Nat]
           /\ RowsFollowIdentity(T, [created EXCEPT ![id] = rev])
<1> DEFINE ids == [created EXCEPT ![id] = rev]
<1>1. \A i \in Ids : created[i] # Null => ids[i] = created[i]
  OBVIOUS
<1>2. \A v \in T : v.id \in Ids /\ created[v.id] # Null
  BY DEF RowsFollowIdentity, VersionRow
<1>3. ids \in [Ids -> Nat]
  OBVIOUS
<1> HIDE DEF ids
<1>4. RowsFollowIdentity(T, ids)
  BY <1>1, <1>2 DEF RowsFollowIdentity
<1> QED BY <1>3, <1>4 DEF ids

\* A broken-off update has closed the current version.
LEMMA LoneClose ==
    ASSUME NEW Ids, NEW Values, NEW T \in SUBSET VersionRow(Ids, Values),
           NEW created, NEW id, NEW rev \in Nat, RowsFollowIdentity(T, created)
    PROVE  /\ CloseCurrent(T, {id}, rev) \in SUBSET VersionRow(Ids, Values)
           /\ SameBefore(CloseCurrent(T, {id}, rev), T, rev)
           /\ RowsFollowIdentity(CloseCurrent(T, {id}, rev), created)
<1>1. /\ CloseCurrent(T, {id}, rev) \in SUBSET VersionRow(Ids, Values)
      /\ SameBefore(CloseCurrent(T, {id}, rev), T, rev)
      /\ \A v \in CloseCurrent(T, {id}, rev) :
            \E w \in T : v.id = w.id /\ v.valid_from = w.valid_from
  BY CloseFact
<1> QED BY <1>1 DEF RowsFollowIdentity

\* A mutation of a node that breaks off between two statements has inserted an
\* identity that has no version yet or closed rows.
LEMMA BreakOffNodeStep ==
    ASSUME IInv, NEW id \in NodeIds, NEW now \in Clock, BreakOffNode(id, now)
    PROVE  IInv'
<1> DEFINE d == EnsureRevision(now)
           ids == [d.nodes EXCEPT ![id] = Rev]
           rows == CloseCurrent(d.nodeVersions, {id}, Rev)
<1>1. /\ d \in Database
      /\ d.nodes = work.nodes /\ d.nodeVersions = work.nodeVersions
      /\ d.edges = work.edges /\ d.edgeVersions = work.edgeVersions
  BY EnsureFact
<1>2. /\ Rev \in Nat /\ work.nodes \in [NodeIds -> Nat]
      /\ work.nodeVersions \in SUBSET VersionRow(NodeIds, NodeValues)
      /\ RowsFollowIdentity(work.nodeVersions, work.nodes)
      /\ RowsFollowIdentity(work.edgeVersions, work.edges)
  BY WorkFact
<1>3. CASE work.nodes[id] = Null /\ BreakOff(now, [d EXCEPT !.nodes = ids])
  <2> DEFINE new == [d EXCEPT !.nodes = ids]
  <2>1. ids \in [NodeIds -> Nat] /\ RowsFollowIdentity(work.nodeVersions, ids)
    BY <1>1, <1>2, <1>3, LoneIdentity
  <2> HIDE DEF d, ids
  <2>2. /\ new \in Database /\ new.nodes = ids
        /\ new.nodeVersions = work.nodeVersions /\ new.edges = work.edges
        /\ new.edgeVersions = work.edgeVersions
    BY <1>1, <2>1 DEF Database
  <2>3. tx.active
    BY <1>3, BrokenOff
  <2>4. Sound(new) /\ Agrees(new, db)
    BY <1>2, <2>1, <2>2, <2>3, TablesFact, SameRefl
  <2> QED BY <1>3, <2>4, BrokenOff
<1>4. CASE BreakOff(now, [d EXCEPT !.nodeVersions = rows])
  <2> DEFINE new == [d EXCEPT !.nodeVersions = rows]
  <2>1. /\ rows \in SUBSET VersionRow(NodeIds, NodeValues)
        /\ SameBefore(rows, work.nodeVersions, Rev)
        /\ RowsFollowIdentity(rows, work.nodes)
    BY <1>1, <1>2, LoneClose
  <2> HIDE DEF d, rows
  <2>2. /\ new \in Database /\ new.nodeVersions = rows
        /\ new.nodes = work.nodes /\ new.edges = work.edges
        /\ new.edgeVersions = work.edgeVersions
    BY <1>1, <2>1 DEF Database
  <2>3. tx.active
    BY <1>4, BrokenOff
  <2>4. Sound(new) /\ Agrees(new, db)
    BY <1>2, <2>1, <2>2, <2>3, TablesFact, SameRefl
  <2> QED BY <1>4, <2>4, BrokenOff
<1>5. ASSUME NEW es,
             BreakOff(now,
                 [d EXCEPT !.edges = RetireIdentities(d.edgeVersions, @, es, Rev),
                           !.edgeVersions = RetireVersions(@, d.edges, es, Rev)])
      PROVE  IInv'
  <2> DEFINE new == [d EXCEPT !.edges = RetireIdentities(d.edgeVersions, @, es, Rev),
                              !.edgeVersions = RetireVersions(@, d.edges, es, Rev)]
  <2>1. tx.active
    BY <1>5, BrokenOff
  <2>2. Sound(new) /\ Agrees(new, db)
    BY <2>1, EdgesRetired
  <2> HIDE DEF d
  <2> QED BY <1>5, <2>2, BrokenOff
<1> QED BY <1>3, <1>4, <1>5 DEF BreakOffNode

\* ... and so has one of an edge.
LEMMA BreakOffEdgeStep ==
    ASSUME IInv, NEW id \in EdgeIds, NEW now \in Clock, BreakOffEdge(id, now)
    PROVE  IInv'
<1> DEFINE d == EnsureRevision(now)
           ids == [d.edges EXCEPT ![id] = Rev]
           rows == CloseCurrent(d.edgeVersions, {id}, Rev)
<1>1. /\ d \in Database
      /\ d.nodes = work.nodes /\ d.nodeVersions = work.nodeVersions
      /\ d.edges = work.edges /\ d.edgeVersions = work.edgeVersions
  BY EnsureFact
<1>2. /\ Rev \in Nat /\ work.edges \in [EdgeIds -> Nat]
      /\ work.edgeVersions \in SUBSET VersionRow(EdgeIds, EdgeValues)
      /\ RowsFollowIdentity(work.nodeVersions, work.nodes)
      /\ RowsFollowIdentity(work.edgeVersions, work.edges)
  BY WorkFact
<1>3. CASE work.edges[id] = Null /\ BreakOff(now, [d EXCEPT !.edges = ids])
  <2> DEFINE new == [d EXCEPT !.edges = ids]
  <2>1. ids \in [EdgeIds -> Nat] /\ RowsFollowIdentity(work.edgeVersions, ids)
    BY <1>1, <1>2, <1>3, LoneIdentity
  <2> HIDE DEF d, ids
  <2>2. /\ new \in Database /\ new.edges = ids
        /\ new.nodeVersions = work.nodeVersions /\ new.nodes = work.nodes
        /\ new.edgeVersions = work.edgeVersions
    BY <1>1, <2>1 DEF Database
  <2>3. tx.active
    BY <1>3, BrokenOff
  <2>4. Sound(new) /\ Agrees(new, db)
    BY <1>2, <2>1, <2>2, <2>3, TablesFact, SameRefl
  <2> QED BY <1>3, <2>4, BrokenOff
<1>4. CASE BreakOff(now, [d EXCEPT !.edgeVersions = rows])
  <2> DEFINE new == [d EXCEPT !.edgeVersions = rows]
  <2>1. /\ rows \in SUBSET VersionRow(EdgeIds, EdgeValues)
        /\ SameBefore(rows, work.edgeVersions, Rev)
        /\ RowsFollowIdentity(rows, work.edges)
    BY <1>1, <1>2, LoneClose
  <2> HIDE DEF d, rows
  <2>2. /\ new \in Database /\ new.edgeVersions = rows
        /\ new.nodes = work.nodes /\ new.edges = work.edges
        /\ new.nodeVersions = work.nodeVersions
    BY <1>1, <2>1 DEF Database
  <2>3. tx.active
    BY <1>4, BrokenOff
  <2>4. Sound(new) /\ Agrees(new, db)
    BY <1>2, <2>1, <2>2, <2>3, TablesFact, SameRefl
  <2> QED BY <1>4, <2>4, BrokenOff
<1> QED BY <1>3, <1>4 DEF BreakOffEdge

\* A step that makes the transaction's tables those of the database again.
LEMMA ResetStep ==
    ASSUME IInv, db' = db, work' = db, tx' \in TxType,
           tx'.active => tx'.base = db.sealed
    PROVE  IInv'
<1>1. Agrees(db, db)
  BY SameRefl DEF Agrees
<1> QED BY <1>1 DEF IInv

\* Begin starts from the database and from its newest sealed revision.
LEMMA BeginStep == ASSUME IInv, Begin PROVE IInv'
<1>1. db.sealed \in Nat
  BY DEF IInv, Sound, Database
<1>2. tx' \in TxType /\ tx'.base = db.sealed
  BY <1>1 DEF Begin, NoTx, TxType
<1> QED BY <1>2, ResetStep DEF Begin

\* Rollback, a swallowed failure and an ineffective batch end alike.
LEMMA DiscardStep == ASSUME IInv, Rollback \/ ReturnFailure \/ CommitNothing PROVE IInv'
<1>1. NoTx \in TxType /\ ~NoTx.active
  BY DEF NoTx, TxType
<1> QED BY <1>1, ResetStep DEF Rollback, ReturnFailure, CommitNothing

\* The commit publishes the transaction's tables with one more sealed revision.
LEMMA CommitStep ==
    ASSUME IInv, CommitRevision
    PROVE  /\ IInv'
           /\ db' = db \/ db' = [work EXCEPT !.sealed = tx.revision]
<1>1. db' = db \/ db' = [work EXCEPT !.sealed = tx.revision]
  BY DEF CommitRevision
<1>2. Sound(db')
  <2>1. CASE db' = db
    BY <2>1 DEF IInv
  <2>2. CASE db' = [work EXCEPT !.sealed = tx.revision]
    BY <2>2 DEF IInv, Sound, Database, TxType
  <2> QED BY <1>1, <2>1, <2>2
<1>3. Agrees(db', db')
  BY SameRefl DEF Agrees
<1>4. NoTx \in TxType /\ ~NoTx.active
  BY DEF NoTx, TxType
<1>5. work' = db' /\ tx' = NoTx
  BY DEF CommitRevision
<1> QED BY <1>1, <1>2, <1>3, <1>4, <1>5 DEF IInv

\* A database starts out empty.
LEMMA InitStep == ASSUME Init PROVE IInv
<1>1. db = EmptyDatabase /\ work = db /\ tx = NoTx
  BY DEF Init
<1>2. Sound(EmptyDatabase)
  BY DEF Sound, EmptyDatabase, Database, RowsFollowIdentity, Null
<1>3. Agrees(db, db)
  BY SameRefl DEF Agrees
<1>4. NoTx \in TxType /\ ~NoTx.active
  BY DEF NoTx, TxType
<1> QED BY <1>1, <1>2, <1>3, <1>4 DEF IInv

\* No mutation touches what is committed.
LEMMA MutationKeepsDb == ASSUME Mutation PROVE db' = db
<1>1. Fail => db' = db
  BY DEF Fail
<1>2. \A now, admitted, result : Mutate(now, admitted, result) => db' = db
  BY DEF Mutate
<1>3. \A id, value, now : CreateNode(id, value, now) => db' = db
  BY <1>1, <1>2 DEF CreateNode
<1>4. \A id, value, now : UpdateNode(id, value, now) => db' = db
  BY <1>1, <1>2 DEF UpdateNode
<1>5. \A id, now : DeleteNode(id, now) => db' = db
  BY <1>1, <1>2 DEF DeleteNode
<1>6. \A id, value, now : CreateEdge(id, value, now) => db' = db
  BY <1>1, <1>2 DEF CreateEdge
<1>7. \A id, value, now : UpdateEdge(id, value, now) => db' = db
  BY <1>1, <1>2 DEF UpdateEdge
<1>8. \A id, now : DeleteEdge(id, now) => db' = db
  BY <1>1, <1>2 DEF DeleteEdge
<1>9. \A id, now : BreakOffNode(id, now) \/ BreakOffEdge(id, now) => db' = db
  BY DEF BreakOffNode, BreakOffEdge, BreakOff
<1> QED BY <1>3, <1>4, <1>5, <1>6, <1>7, <1>8, <1>9 DEF Mutation

\* Every step keeps the invariant, and if it changes db at all it is a commit.
LEMMA NextStep ==
    ASSUME IInv, [Next]_vars
    PROVE  /\ IInv'
           /\ db' = db \/ db' = [work EXCEPT !.sealed = tx.revision]
<1>1. CASE UNCHANGED vars
  BY <1>1 DEF vars, IInv, Sound, Agrees
<1>2. CASE Begin
  BY <1>2, BeginStep DEF Begin
<1>3. CASE Mutation
  <2>1. db' = db
    BY <1>3, MutationKeepsDb
  <2>2. IInv'
    BY <1>3, CreateNodeStep, UpdateNodeStep, DeleteNodeStep, CreateEdgeStep,
       UpdateEdgeStep, DeleteEdgeStep, BreakOffNodeStep, BreakOffEdgeStep DEF Mutation
  <2> QED BY <2>1, <2>2
<1>4. CASE RejectInput
  BY <1>4, FailStep DEF RejectInput, Fail
<1>5. CASE Rollback \/ ReturnFailure \/ CommitNothing
  BY <1>5, DiscardStep DEF Rollback, ReturnFailure, CommitNothing
<1>6. CASE CommitRevision
  BY <1>6, CommitStep
<1> QED BY <1>1, <1>2, <1>3, <1>4, <1>5, <1>6 DEF Next

\* The strengthened invariant holds of every behaviour of Store.Write.
THEOREM Invariance == Spec => []IInv
<1>1. Init => IInv
  BY InitStep
<1>2. IInv /\ [Next]_vars => IInv'
  BY NextStep
<1> QED BY <1>1, <1>2, PTL DEF Spec

\* Store.Write keeps its tables and its transaction record typed.
THEOREM TypeCorrect == Spec => []TypeOK
<1>1. IInv => TypeOK
  BY DEF IInv, Sound, TxType, TypeOK
<1> QED BY <1>1, Invariance, PTL

\* A step of Store.Write changes the graph of no sealed revision.
THEOREM HistoryIsImmutable == Spec => HistoryImmutable
<1>1. ASSUME IInv, [Next]_vars
      PROVE  [\A r \in 0..db.sealed : GraphAt(db', r) = GraphAt(db, r)]_vars
  <2>1. CASE db' = db
    BY <2>1
  <2>2. CASE db' = [work EXCEPT !.sealed = tx.revision]
    <3>1. work \in Database /\ db.sealed \in Nat
      BY <1>1 DEF IInv, Sound, Database
    <3>2. db'.nodeVersions = work.nodeVersions /\ db'.edgeVersions = work.edgeVersions
      BY <2>2, <3>1 DEF Database
    <3>3. ASSUME NEW r \in 0..db.sealed
          PROVE  GraphAt(db', r) = GraphAt(db, r)
      <4>1. r \in Nat /\ r < db.sealed + 1
        BY <3>1
      <4>2. /\ ContentsAt(work.nodeVersions, r) = ContentsAt(db.nodeVersions, r)
            /\ ContentsAt(work.edgeVersions, r) = ContentsAt(db.edgeVersions, r)
        BY <1>1, <4>1 DEF IInv, Agrees, SameBefore
      <4> QED BY <3>2, <4>2 DEF GraphAt
    <3> QED BY <3>3
  <2> QED BY <1>1, <2>1, <2>2, NextStep
<1> QED BY <1>1, Invariance, PTL DEF Spec, HistoryImmutable

\* A mutation that stopped halfway has failed the Write, and no later mutation
\* takes that back.
Marked == tx.partial => tx.failed

\* Every step keeps the mark.
LEMMA MarkedStep == ASSUME tx \in TxType, Marked, [Next]_vars PROVE Marked'
<1>1. Fail => Marked'
  BY DEF Fail, Marked, TxType
<1>2. \A now, admitted, result : Mutate(now, admitted, result) => Marked'
  BY DEF Mutate, Marked, TxType
<1>3. \A id, value, now : CreateNode(id, value, now) => Marked'
  BY <1>1, <1>2 DEF CreateNode
<1>4. \A id, value, now : UpdateNode(id, value, now) => Marked'
  BY <1>1, <1>2 DEF UpdateNode
<1>5. \A id, now : DeleteNode(id, now) => Marked'
  BY <1>1, <1>2 DEF DeleteNode
<1>6. \A id, value, now : CreateEdge(id, value, now) => Marked'
  BY <1>1, <1>2 DEF CreateEdge
<1>7. \A id, value, now : UpdateEdge(id, value, now) => Marked'
  BY <1>1, <1>2 DEF UpdateEdge
<1>8. \A id, now : DeleteEdge(id, now) => Marked'
  BY <1>1, <1>2 DEF DeleteEdge
<1>9. \A id, now : BreakOffNode(id, now) \/ BreakOffEdge(id, now) => Marked'
  <2>1. \A now, result : BreakOff(now, result) => Marked'
    BY DEF BreakOff, Marked, TxType
  <2> QED BY <2>1 DEF BreakOffNode, BreakOffEdge
<1>10. CASE Mutation
  BY <1>3, <1>4, <1>5, <1>6, <1>7, <1>8, <1>9, <1>10 DEF Mutation
<1>11. CASE RejectInput
  BY <1>1, <1>11 DEF RejectInput
<1>12. CASE tx' = NoTx
  BY <1>12 DEF NoTx, Marked
<1>13. CASE Begin
  BY <1>13 DEF Begin, NoTx, Marked
<1>14. CASE UNCHANGED vars
  BY <1>14 DEF vars, Marked
<1> QED BY <1>10, <1>11, <1>12, <1>13, <1>14
        DEF Next, Rollback, ReturnFailure, CommitNothing, CommitRevision

\* What a mutation left half done is never committed.
THEOREM PartialIsNeverCommitted == Spec => PartialNeverCommitted
<1>1. Init => Marked
  BY DEF Init, NoTx, Marked
<1>2. IInv /\ Marked /\ [Next]_vars => Marked'
  BY MarkedStep DEF IInv
<1>3. Marked /\ [Next]_vars => [tx.partial => db' = db]_vars
  BY MutationKeepsDb DEF Marked, Next, vars, Begin, RejectInput, Fail, Rollback,
     ReturnFailure, CommitNothing, CommitRevision
<1> QED BY <1>1, <1>2, <1>3, Invariance, PTL DEF Spec, PartialNeverCommitted

-----------------------------------------------------------------------------
(***************************************************************************)
(* Integrity and refinement. A database that only Store.Write has written  *)
(* passes its own integrity check, no trigger refuses what the Go code     *)
(* admitted, a successful Write leaves exactly the graph its callback saw, *)
(* and the store is an append-only history of well-formed graphs.          *)
(*                                                                         *)
(* The invariant is about the tables of the running transaction.  What the *)
(* triggers rely on holds of them also after a mutation that failed or     *)
(* stopped halfway; the graph they show is only well formed as long as     *)
(* nothing has failed, which is when they may be committed.                *)
(***************************************************************************)

\* The revisions of d were committed in the order of their numbers.
TimesIncrease(d) == \A q, r \in DOMAIN d.times : q < r => d.times[q] < d.times[r]

\* An edge row names nodes that are not younger than itself.
Refs(nodes, E) ==
    \A e \in E : \A n \in {e.value.from, e.value.to} :
        nodes[n] # Null /\ nodes[n] <= e.valid_from

\* Node n exists when the edge version e starts, and until it ends.
Spans(T, n, e) ==
    /\ \E v \in T : v.id = n /\ VisibleAt(v, e.valid_from)
    /\ IF IsCurrent(e)
       THEN CurrentRows(T, n) # {}
       ELSE \E v \in T : /\ v.id = n /\ v.valid_from < e.valid_to
                         /\ IsCurrent(v) \/ v.valid_to >= e.valid_to

\* EndpointLifetimeValid, of two tables.
EndsSpan(T, E) == \A e \in E : \A n \in {e.value.from, e.value.to} : Spans(T, n, e)

\* ParentUniqueValid, of a table.
Parents(E) ==
    \A e, f \in E :
        (/\ e.id # f.id
         /\ e.value.type = CHILD /\ f.value.type = CHILD
         /\ e.value.to = f.value.to)
        => \/ ~IsCurrent(f) /\ f.valid_to <= e.valid_from
           \/ ~IsCurrent(e) /\ e.valid_to <= f.valid_from

\* No set of nodes each of which has a CHILD in the set, in the current rows ...
AcyclicNow(E) ==
    \A S \in SUBSET NodeIds :
        (\A n \in S : \E e \in E :
            IsCurrent(e) /\ e.value.type = CHILD /\ e.value.from = n /\ e.value.to \in S)
        => S = {}

\* ... and in what a snapshot shows.
Acyclic(contents) ==
    \A S \in SUBSET NodeIds :
        (\A n \in S : \E p \in contents :
            p[2].type = CHILD /\ p[2].from = n /\ p[2].to \in S)
        => S = {}

\* What the triggers rely on, of node rows N and edge rows E at revision rev.
Shape(N, nodes, E, edges, rev) ==
    /\ TableSound(N, nodes, rev)
    /\ TableSound(E, edges, rev)
    /\ Refs(nodes, E)

\* What makes the current rows a graph.
Graph(N, nodes, E, edges) ==
    /\ EveryIdentityHasRow(N, nodes)
    /\ EveryIdentityHasRow(E, edges)
    /\ EndsSpan(N, E)
    /\ Parents(E)
    /\ AcyclicNow(E)

TablesSound(d, rev) == Shape(d.nodeVersions, d.nodes, d.edgeVersions, d.edges, rev)
GraphSound(d) == Graph(d.nodeVersions, d.nodes, d.edgeVersions, d.edges)

\* What holds of the committed database.
DbSound ==
    /\ Len(db.times) = db.sealed
    /\ TimesIncrease(db)
    /\ TablesSound(db, db.sealed)
    /\ GraphSound(db)
    /\ \A r \in 1..db.sealed : Acyclic(ContentsAt(db.edgeVersions, r))

\* What holds of the tables of the running transaction.
WorkSound ==
    tx.active =>
        /\ tx.revision = 0 => work = db
        /\ tx.revision # 0 =>
              /\ tx.revision = Rev
              /\ Len(work.times) = Rev
              /\ TimesIncrease(work)
              /\ work.sealed = db.sealed
        /\ TablesSound(work, Rev)
        /\ ~tx.failed => GraphSound(work)

JInv == IInv /\ DbSound /\ WorkSound /\ ~tx.aborted

-----------------------------------------------------------------------------
(* Endpoints *)

NodeRow == VersionRow(NodeIds, NodeValues)
EdgeRow == VersionRow(EdgeIds, EdgeValues)

\* More node versions span no less.
LEMMA SpansMore ==
    ASSUME NEW T, NEW U, T \subseteq U, NEW n, NEW e, Spans(T, n, e)
    PROVE  Spans(U, n, e)
BY DEF Spans, CurrentRows

\* Content does not matter.
LEMMA SpansOverwrite ==
    ASSUME NEW T \in SUBSET NodeRow, NEW id, NEW rev \in Nat, NEW value \in NodeValues,
           NEW n, NEW e, Spans(T, n, e)
    PROVE  Spans(OverwriteAt(T, id, rev, value), n, e)
<1> DEFINE new(v) == OverwrittenRow(v, id, rev, value)
           U == OverwriteAt(T, id, rev, value)
<1>1. \A v \in T : /\ new(v).id = v.id /\ new(v).valid_from = v.valid_from
                   /\ new(v).valid_to = v.valid_to
  BY OverwrittenRowFact DEF NodeRow
<1>2. \A v \in T : new(v) \in U
  BY OverwriteImage
<1> HIDE DEF new, U
<1>3. \E v \in U : v.id = n /\ VisibleAt(v, e.valid_from)
  BY <1>1, <1>2 DEF Spans, VisibleAt, IsCurrent
<1>4. CASE IsCurrent(e)
  <2>1. PICK v \in T : v.id = n /\ IsCurrent(v)
    BY <1>4 DEF Spans, CurrentRows
  <2>2. new(v) \in CurrentRows(U, n)
    BY <1>1, <1>2, <2>1 DEF CurrentRows, IsCurrent
  <2> QED BY <1>3, <1>4, <2>2 DEF Spans, U
<1>5. CASE ~IsCurrent(e)
  <2>1. PICK v \in T : /\ v.id = n /\ v.valid_from < e.valid_to
                       /\ IsCurrent(v) \/ v.valid_to >= e.valid_to
    BY <1>5 DEF Spans
  <2>2. /\ new(v).id = n /\ new(v).valid_from < e.valid_to
        /\ IsCurrent(new(v)) \/ new(v).valid_to >= e.valid_to
    BY <1>1, <2>1 DEF IsCurrent
  <2> QED BY <1>2, <1>3, <1>5, <2>2 DEF Spans, U
<1> QED BY <1>4, <1>5

\* A node whose version is closed and succeeded at once spans what it did.
LEMMA SpansReplace ==
    ASSUME NEW T \in SUBSET NodeRow, NEW id, NEW rev \in Nat \ {Null}, NEW value \in NodeValues,
           NEW n, NEW e \in EdgeRow, e.valid_from <= rev, e.valid_to <= rev, Spans(T, n, e)
    PROVE  Spans(CloseCurrent(T, {id}, rev) \cup {NewRow(id, rev, value)}, n, e)
<1> DEFINE new(v) == ClosedRow(v, {id}, rev)
           row == NewRow(id, rev, value)
           U == CloseCurrent(T, {id}, rev) \cup {row}
<1>1. \A v \in T : /\ v.valid_from \in Nat /\ v.valid_to \in Nat
                   /\ new(v).id = v.id /\ new(v).valid_from = v.valid_from
                   /\ new(v).valid_to = IF v.id = id /\ IsCurrent(v) THEN rev ELSE v.valid_to
  BY ClosedRowFact DEF NodeRow, VersionRow
<1>2. row \in U /\ \A v \in T : new(v) \in U
  BY CloseImage
<1>3. row.id = id /\ row.valid_from = rev /\ row.valid_to = Null
  BY DEF NewRow
<1>4. e.valid_from \in Nat /\ e.valid_to \in Nat
  BY DEF EdgeRow, VersionRow
<1> HIDE DEF new, row, U
<1>5. \E v \in U : v.id = n /\ VisibleAt(v, e.valid_from)
  <2>1. PICK v \in T : v.id = n /\ VisibleAt(v, e.valid_from)
    BY DEF Spans
  <2>2. CASE v.id = id /\ IsCurrent(v) /\ e.valid_from = rev
    BY <1>2, <1>3, <2>1, <2>2 DEF VisibleAt, IsCurrent
  <2>3. CASE ~(v.id = id /\ IsCurrent(v) /\ e.valid_from = rev)
    <3>1. VisibleAt(new(v), e.valid_from)
      BY <1>1, <1>4, <2>1, <2>3 DEF VisibleAt, IsCurrent
    <3> QED BY <1>1, <1>2, <2>1, <3>1
  <2> QED BY <2>2, <2>3
<1>6. CASE IsCurrent(e)
  <2>1. PICK v \in T : v.id = n /\ IsCurrent(v)
    BY <1>6 DEF Spans, CurrentRows
  <2>2. new(v) \in CurrentRows(U, n) \/ row \in CurrentRows(U, n)
    BY <1>1, <1>2, <1>3, <2>1 DEF CurrentRows, IsCurrent
  <2> QED BY <1>5, <1>6, <2>2 DEF Spans, U, row
<1>7. CASE ~IsCurrent(e)
  <2>1. PICK v \in T : /\ v.id = n /\ v.valid_from < e.valid_to
                       /\ IsCurrent(v) \/ v.valid_to >= e.valid_to
    BY <1>7 DEF Spans
  <2>2. /\ new(v).id = n /\ new(v).valid_from < e.valid_to
        /\ IsCurrent(new(v)) \/ new(v).valid_to >= e.valid_to
    BY <1>1, <1>4, <2>1 DEF IsCurrent
  <2> QED BY <1>2, <1>5, <1>7, <2>2 DEF Spans, U, row
<1> QED BY <1>6, <1>7

\* A node that is deleted spans what it did, except for current edges.
LEMMA SpansRetire ==
    ASSUME NEW T \in SUBSET NodeRow, NEW created \in [NodeIds -> Nat],
           NEW rev \in Nat \ {Null}, TableSound(T, created, rev), NEW id,
           NEW n, NEW e \in EdgeRow, Spans(T, n, e), n = id => ~IsCurrent(e),
           IsCurrent(e) \/ (e.valid_from < e.valid_to /\ e.valid_to <= rev)
    PROVE  Spans(RetireVersions(T, created, {id}, rev), n, e)
<1> DEFINE D == RowsDropped(T, created, {id}, rev)
           new(v) == ClosedRow(v, {id}, rev)
           U == RetireVersions(T, created, {id}, rev)
<1>0. \A v \in T : v.valid_from \in Nat /\ v.valid_to \in Nat
  BY DEF NodeRow, VersionRow
<1>1. \A v \in T : /\ new(v).id = v.id /\ new(v).valid_from = v.valid_from
                   /\ new(v).valid_to = IF v.id = id /\ IsCurrent(v) THEN rev ELSE v.valid_to
  BY ClosedRowFact DEF NodeRow
<1>2. \A v \in T : v \notin D => new(v) \in U
  BY RetireImage
<1>3. \A v \in D : v.id = id /\ v.valid_from = rev
  BY DroppedRow DEF NodeRow
<1>4. e.valid_from \in Nat /\ e.valid_to \in Nat
  BY DEF EdgeRow, VersionRow
<1> HIDE DEF new, U, D
<1>5. CASE n # id
  <2>1. \A v \in T : v.id = n => v \notin D /\ new(v) \in U /\ new(v).valid_to = v.valid_to
                                 /\ new(v).valid_from = v.valid_from /\ new(v).id = v.id
    BY <1>1, <1>2, <1>3, <1>5
  <2>2. \E v \in U : v.id = n /\ VisibleAt(v, e.valid_from)
    BY <2>1 DEF Spans, VisibleAt, IsCurrent
  <2>3. CASE IsCurrent(e)
    <3>1. PICK v \in T : v.id = n /\ IsCurrent(v)
      BY <2>3 DEF Spans, CurrentRows
    <3>2. new(v) \in CurrentRows(U, n)
      BY <2>1, <3>1 DEF CurrentRows, IsCurrent
    <3> QED BY <2>2, <2>3, <3>2 DEF Spans, U
  <2>4. CASE ~IsCurrent(e)
    <3>1. PICK v \in T : /\ v.id = n /\ v.valid_from < e.valid_to
                         /\ IsCurrent(v) \/ v.valid_to >= e.valid_to
      BY <2>4 DEF Spans
    <3>2. /\ new(v) \in U /\ new(v).id = n /\ new(v).valid_from < e.valid_to
          /\ IsCurrent(new(v)) \/ new(v).valid_to >= e.valid_to
      BY <2>1, <3>1 DEF IsCurrent
    <3> QED BY <2>2, <2>4, <3>2 DEF Spans, U
  <2> QED BY <2>3, <2>4
<1>6. CASE n = id
  <2>0. ~IsCurrent(e) /\ e.valid_from < e.valid_to /\ e.valid_to <= rev
    BY <1>6
  <2>1. \E v \in U : v.id = n /\ VisibleAt(v, e.valid_from)
    <3>1. PICK v \in T : v.id = n /\ VisibleAt(v, e.valid_from)
      BY DEF Spans
    <3>2. v \notin D
      BY <1>0, <1>3, <1>4, <2>0, <3>1 DEF VisibleAt
    <3>3. VisibleAt(new(v), e.valid_from)
      BY <1>0, <1>1, <1>4, <2>0, <3>1 DEF VisibleAt, IsCurrent
    <3> QED BY <1>1, <1>2, <3>1, <3>2, <3>3
  <2>2. \E v \in U : /\ v.id = n /\ v.valid_from < e.valid_to
                     /\ IsCurrent(v) \/ v.valid_to >= e.valid_to
    <3>1. PICK v \in T : /\ v.id = n /\ v.valid_from < e.valid_to
                         /\ IsCurrent(v) \/ v.valid_to >= e.valid_to
      BY <2>0 DEF Spans
    <3>2. v \notin D
      BY <1>0, <1>3, <1>4, <2>0, <3>1
    <3>3. /\ new(v).id = n /\ new(v).valid_from < e.valid_to
          /\ IsCurrent(new(v)) \/ new(v).valid_to >= e.valid_to
      BY <1>0, <1>1, <1>4, <2>0, <3>1 DEF IsCurrent
    <3> QED BY <1>2, <3>2, <3>3
  <2> QED BY <2>0, <2>1, <2>2 DEF Spans, U
<1> QED BY <1>5, <1>6

\* An edge version that starts now starts between nodes that are there.
LEMMA SpansNew ==
    ASSUME NEW T \in SUBSET NodeRow, NEW created, NEW rev \in Nat, TableSound(T, created, rev),
           NEW n \in CurrentIds(T), NEW e, e.valid_from = rev, IsCurrent(e)
    PROVE  Spans(T, n, e)
<1>1. PICK v \in T : v.id = n /\ IsCurrent(v)
  BY DEF CurrentIds
<1>2. VisibleAt(v, rev)
  BY <1>1 DEF VisibleAt, TableSound
<1>3. v \in CurrentRows(T, n)
  BY <1>1 DEF CurrentRows
<1> QED BY <1>1, <1>2, <1>3 DEF Spans

\* An edge version that ends now ends while its nodes are there: a node that the
\* batch changed has an older version, which ended with the batch.
LEMMA SpansClosed ==
    ASSUME NEW T \in SUBSET NodeRow, NEW created, NEW rev \in Nat \ {Null},
           TableSound(T, created, rev),
           NEW n, NEW e, IsCurrent(e), Spans(T, n, e), created[n] <= e.valid_from,
           e.valid_from \in Nat, created[n] \in Nat, e.valid_from < rev,
           NEW f, f.valid_from = e.valid_from, f.valid_to = rev
    PROVE  Spans(T, n, f)
<1>1. PICK v \in T : v.id = n /\ IsCurrent(v)
  BY DEF Spans, CurrentRows
<1>2. v.valid_from \in Nat /\ v.valid_from <= rev
  BY DEF TableSound, NodeRow, VersionRow
<1>3. \E w \in T : w.id = n /\ w.valid_from < rev /\ (IsCurrent(w) \/ w.valid_to >= rev)
  <2>1. CASE v.valid_from < rev
    BY <1>1, <2>1
  <2>2. CASE v.valid_from = rev
    <3>1. PICK p \in T : p.id = n /\ p.valid_to = rev /\ p.valid_from < rev
      BY <1>1, <2>2 DEF TableSound
    <3> QED BY <3>1
  <2> QED BY <1>2, <2>1, <2>2
<1>4. ~IsCurrent(f) /\ \E w \in T : w.id = n /\ VisibleAt(w, f.valid_from)
  BY DEF Spans, IsCurrent
<1> QED BY <1>3, <1>4 DEF Spans

-----------------------------------------------------------------------------
(* Edges *)

EdgesSound(T, nodes, E) == Refs(nodes, E) /\ EndsSpan(T, E) /\ Parents(E) /\ AcyclicNow(E)

\* Dropping rows disturbs nothing.
LEMMA DropEdges ==
    ASSUME NEW T, NEW nodes, NEW E, EdgesSound(T, nodes, E), NEW D
    PROVE  EdgesSound(T, nodes, E \ D)
<1>1. Refs(nodes, E \ D) /\ EndsSpan(T, E \ D) /\ Parents(E \ D)
  BY DEF EdgesSound, Refs, EndsSpan, Parents
<1>2. AcyclicNow(E \ D)
  <2> SUFFICES ASSUME NEW S \in SUBSET NodeIds,
                      \A n \in S : \E e \in E \ D :
                         IsCurrent(e) /\ e.value.type = CHILD
                         /\ e.value.from = n /\ e.value.to \in S
               PROVE  S = {}
    BY DEF AcyclicNow
  <2>1. \A n \in S : \E e \in E : IsCurrent(e) /\ e.value.type = CHILD
                                  /\ e.value.from = n /\ e.value.to \in S
    OBVIOUS
  <2> QED BY <2>1 DEF EdgesSound, AcyclicNow
<1> QED BY <1>1, <1>2 DEF EdgesSound

\* Nor does closing rows that earlier batches wrote.
LEMMA CloseRefs ==
    ASSUME NEW nodes, NEW E \in SUBSET EdgeRow, Refs(nodes, E), NEW ids, NEW rev \in Nat
    PROVE  Refs(nodes, CloseCurrent(E, ids, rev))
<1>1. \A e \in E : /\ ClosedRow(e, ids, rev).valid_from = e.valid_from
                   /\ ClosedRow(e, ids, rev).value = e.value
  BY ClosedRowFact DEF EdgeRow
<1> QED BY <1>1, CloseImage DEF Refs

\* An edge table stays sound when current rows of earlier batches are closed.
LEMMA CloseEdges ==
    ASSUME NEW T \in SUBSET NodeRow, NEW nodes \in [NodeIds -> Nat], NEW rev \in Nat \ {Null},
           TableSound(T, nodes, rev), NEW E \in SUBSET EdgeRow, EdgesSound(T, nodes, E), NEW ids,
           \A e \in E : e.id \in ids /\ IsCurrent(e) => e.valid_from < rev
    PROVE  EdgesSound(T, nodes, CloseCurrent(E, ids, rev))
<1> DEFINE new(e) == ClosedRow(e, ids, rev)
           U == CloseCurrent(E, ids, rev)
<1>1. \A e \in E : /\ new(e).id = e.id /\ new(e).valid_from = e.valid_from
                   /\ new(e).value = e.value
                   /\ new(e).valid_to = IF e.id \in ids /\ IsCurrent(e) THEN rev ELSE e.valid_to
  BY ClosedRowFact DEF EdgeRow
<1>2. U = {new(e) : e \in E}
  BY CloseImage
<1>3. \A e \in E : e.valid_from \in Nat /\ e.value.from \in NodeIds /\ e.value.to \in NodeIds
  BY DEF EdgeRow, VersionRow, EdgeValues
<1>4. Refs(nodes, U)
  BY CloseRefs DEF EdgesSound
<1> HIDE DEF new, U
<1>5. EndsSpan(T, U)
  <2> SUFFICES ASSUME NEW e \in E, NEW n \in {e.value.from, e.value.to}
               PROVE  Spans(T, n, new(e))
    BY <1>1, <1>2 DEF EndsSpan
  <2>1. Spans(T, n, e) /\ nodes[n] <= e.valid_from /\ nodes[n] \in Nat
    BY <1>3 DEF EdgesSound, EndsSpan, Refs
  <2>2. CASE e.id \in ids /\ IsCurrent(e)
    <3>1. e.valid_from < rev /\ new(e).valid_to = rev /\ new(e).valid_from = e.valid_from
      BY <1>1, <2>2
    <3> QED BY <1>3, <2>1, <2>2, <3>1, SpansClosed
  <2>3. CASE ~(e.id \in ids /\ IsCurrent(e))
    <3>1. new(e).valid_from = e.valid_from /\ new(e).valid_to = e.valid_to
      BY <1>1, <2>3
    <3> QED BY <2>1, <3>1 DEF Spans, IsCurrent
  <2> QED BY <2>2, <2>3
<1>6. Parents(U)
  <2> SUFFICES ASSUME NEW e \in E, NEW f \in E, e.id # f.id,
                      e.value.type = CHILD, f.value.type = CHILD, e.value.to = f.value.to
               PROVE  \/ ~IsCurrent(new(f)) /\ new(f).valid_to <= new(e).valid_from
                      \/ ~IsCurrent(new(e)) /\ new(e).valid_to <= new(f).valid_from
    BY <1>1, <1>2 DEF Parents
  <2>1. \/ ~IsCurrent(f) /\ f.valid_to <= e.valid_from
        \/ ~IsCurrent(e) /\ e.valid_to <= f.valid_from
    BY DEF EdgesSound, Parents
  <2> QED BY <1>1, <2>1 DEF IsCurrent
<1>7. AcyclicNow(U)
  <2>1. \A e \in E : IsCurrent(new(e)) => IsCurrent(e)
    BY <1>1 DEF IsCurrent
  <2> SUFFICES ASSUME NEW S \in SUBSET NodeIds,
                      \A n \in S : \E u \in U : IsCurrent(u) /\ u.value.type = CHILD
                                                /\ u.value.from = n /\ u.value.to \in S
               PROVE  S = {}
    BY DEF AcyclicNow
  <2>2. \A n \in S : \E e \in E : IsCurrent(e) /\ e.value.type = CHILD
                                  /\ e.value.from = n /\ e.value.to \in S
    BY <1>1, <1>2, <2>1
  <2> QED BY <2>2 DEF EdgesSound, AcyclicNow
<1> QED BY <1>4, <1>5, <1>6, <1>7 DEF EdgesSound, U

\* What ValidateEdge makes sure of before an edge gets the content value, apart from
\* the position.
Admissible(T, E, id, value) ==
    /\ value.from \in CurrentIds(T) /\ value.to \in CurrentIds(T)
    /\ value.type = CHILD =>
           /\ \A v \in ChildEdges(E, {id}) : v.value.to # value.to
           /\ ~ChildPathExists(E, value.to, value.from, {id})

\* An edge along which no path leads back closes no cycle.
LEMMA AppendAcyclic ==
    ASSUME NEW E, AcyclicNow(E), NEW id, CurrentRows(E, id) = {}, NEW row,
           row.value.type = CHILD => ~ChildPathExists(E, row.value.to, row.value.from, {id})
    PROVE  AcyclicNow(E \cup {row})
<1> SUFFICES ASSUME NEW S \in SUBSET NodeIds,
                    \A n \in S : \E u \in E \cup {row} :
                       IsCurrent(u) /\ u.value.type = CHILD /\ u.value.from = n /\ u.value.to \in S
             PROVE  S = {}
  BY DEF AcyclicNow
<1> DEFINE Within(R) ==
              \A n \in R : \E e \in E :
                 IsCurrent(e) /\ e.value.type = CHILD /\ e.value.from = n /\ e.value.to \in R
<1>1. \A R \in SUBSET NodeIds : Within(R) => R = {}
  BY DEF AcyclicNow
<1>2. CASE row.value.type # CHILD
  <2>1. Within(S)
    BY <1>2
  <2> QED BY <1>1, <2>1
<1>3. CASE row.value.type = CHILD
  <2>1. PICK P \in SUBSET NodeIds :
          /\ row.value.to \in P /\ row.value.from \notin P
          /\ \A v \in ChildEdges(E, {id}) : v.value.from \in P => v.value.to \in P
    BY <1>3 DEF ChildPathExists
  <2>2. \A e \in E : IsCurrent(e) /\ e.value.type = CHILD => e \in ChildEdges(E, {id})
    BY DEF ChildEdges, CurrentRows
  <2>3. Within(S \cap P)
    <3> SUFFICES ASSUME NEW n \in S \cap P
                 PROVE  \E e \in E : IsCurrent(e) /\ e.value.type = CHILD
                                     /\ e.value.from = n /\ e.value.to \in S \cap P
      OBVIOUS
    <3>1. PICK u \in E \cup {row} : /\ IsCurrent(u) /\ u.value.type = CHILD
                                    /\ u.value.from = n /\ u.value.to \in S
      OBVIOUS
    <3>2. u \in E
      BY <2>1, <3>1
    <3>3. u.value.to \in P
      BY <2>1, <2>2, <3>1, <3>2
    <3> QED BY <3>1, <3>2, <3>3
  <2>4. S \cap P = {}
    BY <1>1, <2>3
  <2>5. Within(S)
    <3> SUFFICES ASSUME NEW n \in S
                 PROVE  \E e \in E : IsCurrent(e) /\ e.value.type = CHILD
                                     /\ e.value.from = n /\ e.value.to \in S
      OBVIOUS
    <3>1. PICK u \in E \cup {row} : /\ IsCurrent(u) /\ u.value.type = CHILD
                                    /\ u.value.from = n /\ u.value.to \in S
      OBVIOUS
    <3>2. u \in E
      BY <2>1, <2>4, <3>1
    <3> QED BY <3>1, <3>2
  <2> QED BY <1>1, <2>5
<1> QED BY <1>2, <1>3

\* A new version of an edge that has no current one.
LEMMA AppendEdge ==
    ASSUME NEW T \in SUBSET NodeRow, NEW nodes \in [NodeIds -> Nat], NEW rev \in Nat,
           TableSound(T, nodes, rev), NEW E \in SUBSET EdgeRow, EdgesSound(T, nodes, E),
           \A e \in E : IsCurrent(e) \/ e.valid_to <= rev,
           NEW id, CurrentRows(E, id) = {}, NEW value, Admissible(T, E, id, value)
    PROVE  EdgesSound(T, nodes, E \cup {NewRow(id, rev, value)})
<1> DEFINE row == NewRow(id, rev, value)
<1>1. row.id = id /\ row.valid_from = rev /\ row.valid_to = Null /\ row.value = value
  BY DEF NewRow
<1> HIDE DEF row
<1>2. \A n \in {value.from, value.to} :
         n \in CurrentIds(T) /\ nodes[n] # Null /\ nodes[n] <= rev
  <2>1. \A n \in CurrentIds(T) : nodes[n] # Null /\ nodes[n] <= rev
    BY DEF CurrentIds, TableSound, RowsFollowIdentity, NodeRow, VersionRow
  <2> QED BY <2>1 DEF Admissible
<1>3. Refs(nodes, E \cup {row})
  BY <1>1, <1>2 DEF EdgesSound, Refs
<1>4. EndsSpan(T, E \cup {row})
  <2>1. \A n \in {value.from, value.to} : Spans(T, n, row)
    BY <1>1, <1>2, SpansNew DEF IsCurrent
  <2> QED BY <1>1, <2>1 DEF EdgesSound, EndsSpan
<1>5. Parents(E \cup {row})
  <2>1. ASSUME NEW f \in E, f.id # id, value.type = CHILD, f.value.type = CHILD,
               f.value.to = value.to
        PROVE  ~IsCurrent(f) /\ f.valid_to <= rev
    <3>1. f \notin ChildEdges(E, {id})
      BY <2>1 DEF Admissible
    <3> QED BY <2>1, <3>1 DEF ChildEdges
  <2> SUFFICES ASSUME NEW e \in E \cup {row}, NEW f \in E \cup {row}, e.id # f.id,
                      e.value.type = CHILD, f.value.type = CHILD, e.value.to = f.value.to
               PROVE  \/ ~IsCurrent(f) /\ f.valid_to <= e.valid_from
                      \/ ~IsCurrent(e) /\ e.valid_to <= f.valid_from
    BY DEF Parents
  <2>2. CASE e \in E /\ f \in E
    BY <2>2 DEF EdgesSound, Parents
  <2>3. CASE e = row /\ f \in E
    BY <1>1, <2>1, <2>3
  <2>4. CASE f = row /\ e \in E
    BY <1>1, <2>1, <2>4
  <2> QED BY <2>2, <2>3, <2>4
<1>6. AcyclicNow(E \cup {row})
  BY <1>1, AppendAcyclic DEF EdgesSound, Admissible
<1> QED BY <1>3, <1>4, <1>5, <1>6 DEF EdgesSound, row

\* An edge that gets the batch's revision refers to nodes the batch can see.
LEMMA AppendRefs ==
    ASSUME NEW T \in SUBSET NodeRow, NEW nodes \in [NodeIds -> Nat], NEW rev \in Nat,
           TableSound(T, nodes, rev), NEW E, Refs(nodes, E), NEW id, NEW value,
           value.from \in CurrentIds(T), value.to \in CurrentIds(T)
    PROVE  Refs(nodes, E \cup {NewRow(id, rev, value)})
<1> DEFINE row == NewRow(id, rev, value)
<1>1. row.valid_from = rev /\ row.value = value
  BY DEF NewRow
<1> HIDE DEF row
<1>2. \A n \in CurrentIds(T) : nodes[n] # Null /\ nodes[n] <= rev
  BY DEF CurrentIds, TableSound, RowsFollowIdentity, NodeRow, VersionRow
<1> QED BY <1>1, <1>2 DEF Refs, row

\* Overwriting the batch's own row is dropping it and inserting another.
LEMMA OverwriteIsSwap ==
    ASSUME NEW T \in SUBSET EdgeRow, NEW created, NEW rev \in Nat, TableSound(T, created, rev),
           NEW cur \in T, IsCurrent(cur), cur.valid_from = rev, NEW value
    PROVE  OverwriteAt(T, cur.id, rev, value) = (T \ {cur}) \cup {NewRow(cur.id, rev, value)}
<1>1. \A v \in T : v.id = cur.id /\ v.valid_from = rev <=> v = cur
  BY DEF TableSound
<1>2. OverwrittenRow(cur, cur.id, rev, value) = NewRow(cur.id, rev, value)
  BY DEF OverwrittenRow, NewRow, EdgeRow, VersionRow, IsCurrent, Null
<1>3. \A v \in T : v # cur => OverwrittenRow(v, cur.id, rev, value) = v
  BY <1>1 DEF OverwrittenRow
<1>4. OverwriteAt(T, cur.id, rev, value) = {OverwrittenRow(v, cur.id, rev, value) : v \in T}
  BY OverwriteImage
<1> QED BY <1>2, <1>3, <1>4

-----------------------------------------------------------------------------
(* The statements of each mutation, on the four tables *)

Typed(N, nodes, E, edges) ==
    /\ N \in SUBSET NodeRow /\ nodes \in [NodeIds -> Nat]
    /\ E \in SUBSET EdgeRow /\ edges \in [EdgeIds -> Nat]

\* CreateNode: no edge can name a node that had no identity.
LEMMA CreateNodeTables ==
    ASSUME NEW N, NEW nodes, NEW E, NEW edges, NEW rev \in Nat \ {Null},
           Typed(N, nodes, E, edges), Shape(N, nodes, E, edges, rev),
           NEW id \in NodeIds, nodes[id] = Null, NEW value \in NodeValues
    PROVE  LET row == NewRow(id, rev, value)
               ids == [nodes EXCEPT ![id] = rev]
           IN  /\ Shape(N \cup {row}, ids, E, edges, rev)
               /\ Graph(N, nodes, E, edges) => Graph(N \cup {row}, ids, E, edges)
<1> DEFINE row == NewRow(id, rev, value)
           ids == [nodes EXCEPT ![id] = rev]
<1>1. N \in SUBSET NodeRow /\ nodes \in [NodeIds -> Nat] /\ E \in SUBSET EdgeRow
  BY DEF Typed
<1>2. TableSound(N, nodes, rev) /\ TableSound(E, edges, rev) /\ Refs(nodes, E)
  BY DEF Shape
<1>3. TableSound(N \cup {row}, ids, rev)
  BY <1>1, <1>2, InsertSound DEF NodeRow
<1>4. Refs(ids, E)
  <2>1. \A e \in E : e.value.from \in NodeIds /\ e.value.to \in NodeIds
    BY <1>1 DEF EdgeRow, VersionRow, EdgeValues
  <2>2. \A n \in NodeIds : nodes[n] # Null => ids[n] = nodes[n]
    BY <1>1
  <2> HIDE DEF ids
  <2> QED BY <1>2, <2>1, <2>2 DEF Refs
<1>5. ASSUME Graph(N, nodes, E, edges)
      PROVE  Graph(N \cup {row}, ids, E, edges)
  <2>1. EveryIdentityHasRow(N \cup {row}, ids)
    <3>1. row.id = id /\ DOMAIN ids = NodeIds /\ DOMAIN nodes = NodeIds
      BY <1>1 DEF NewRow
    <3>2. \A i \in NodeIds : i # id => ids[i] = nodes[i]
      BY <1>1
    <3> HIDE DEF ids, row
    <3> QED BY <1>5, <3>1, <3>2 DEF Graph, EveryIdentityHasRow
  <2>2. EndsSpan(N \cup {row}, E)
    <3> HIDE DEF row
    <3>1. \A n, e : Spans(N, n, e) => Spans(N \cup {row}, n, e)
      BY SpansMore
    <3> QED BY <1>5, <3>1 DEF Graph, EndsSpan
  <2> HIDE DEF row, ids
  <2> QED BY <1>5, <2>1, <2>2 DEF Graph
<1> HIDE DEF row, ids
<1>6. Shape(N \cup {row}, ids, E, edges, rev)
  BY <1>2, <1>3, <1>4 DEF Shape
<1> QED BY <1>5, <1>6 DEF row, ids

\* No update loses an entity.
LEMMA ReplaceKeepsIds ==
    ASSUME NEW Ids, NEW Values, NEW T \in SUBSET VersionRow(Ids, Values),
           NEW cur \in T, NEW rev \in Nat, NEW value \in Values, NEW created,
           EveryIdentityHasRow(T, created)
    PROVE  EveryIdentityHasRow(ReplaceVersion(T, cur, rev, value), created)
<1> DEFINE U == ReplaceVersion(T, cur, rev, value)
<1>1. \A v \in T : \E u \in U : u.id = v.id
  <2>1. CASE cur.valid_from = rev
    <3>1. U = {OverwrittenRow(v, cur.id, rev, value) : v \in T}
      BY <2>1, OverwriteImage DEF ReplaceVersion
    <3>2. \A v \in T : OverwrittenRow(v, cur.id, rev, value).id = v.id
      BY OverwrittenRowFact
    <3> QED BY <3>1, <3>2
  <2>2. CASE cur.valid_from # rev
    <3>1. {ClosedRow(v, {cur.id}, rev) : v \in T} \subseteq U
      BY <2>2, CloseImage DEF ReplaceVersion
    <3>2. \A v \in T : ClosedRow(v, {cur.id}, rev).id = v.id
      BY ClosedRowFact
    <3> HIDE DEF U
    <3> QED BY <3>1, <3>2
  <2> QED BY <2>1, <2>2
<1> HIDE DEF U
<1>2. EveryIdentityHasRow(U, created)
  BY <1>1 DEF EveryIdentityHasRow
<1> QED BY <1>2 DEF U

\* UpdateNode.
LEMMA UpdateNodeTables ==
    ASSUME NEW N, NEW nodes, NEW E, NEW edges, NEW rev \in Nat \ {Null},
           Typed(N, nodes, E, edges), Shape(N, nodes, E, edges, rev),
           NEW cur \in N, IsCurrent(cur), NEW value \in NodeValues
    PROVE  /\ Shape(ReplaceVersion(N, cur, rev, value), nodes, E, edges, rev)
           /\ Graph(N, nodes, E, edges) =>
                 Graph(ReplaceVersion(N, cur, rev, value), nodes, E, edges)
<1> DEFINE U == ReplaceVersion(N, cur, rev, value)
<1>1. N \in SUBSET NodeRow /\ nodes \in [NodeIds -> Nat] /\ E \in SUBSET EdgeRow
  BY DEF Typed
<1>2. TableSound(N, nodes, rev) /\ TableSound(E, edges, rev) /\ Refs(nodes, E)
  BY DEF Shape
<1>3. TableSound(U, nodes, rev)
  BY <1>1, <1>2, ReplaceSound DEF NodeRow
<1>4. ASSUME Graph(N, nodes, E, edges)
      PROVE  Graph(U, nodes, E, edges)
  <2>1. EveryIdentityHasRow(U, nodes)
    BY <1>1, <1>4, ReplaceKeepsIds DEF Graph, NodeRow
  <2>2. EndsSpan(U, E)
    <3> SUFFICES ASSUME NEW e \in E, NEW n \in {e.value.from, e.value.to}
                 PROVE  Spans(U, n, e)
      BY DEF EndsSpan
    <3>1. Spans(N, n, e)
      BY <1>4 DEF Graph, EndsSpan
    <3>2. CASE cur.valid_from = rev
      BY <1>1, <3>1, <3>2, SpansOverwrite DEF ReplaceVersion
    <3>3. CASE cur.valid_from # rev
      <4>1. e \in EdgeRow /\ e.valid_from <= rev /\ e.valid_to <= rev
        BY <1>1, <1>2 DEF TableSound, IsCurrent, Null
      <4>2. Spans(CloseCurrent(N, {cur.id}, rev) \cup {NewRow(cur.id, rev, value)}, n, e)
        BY <1>1, <3>1, <4>1, SpansReplace
      <4> QED BY <3>3, <4>2 DEF ReplaceVersion
    <3> QED BY <3>2, <3>3
  <2> HIDE DEF U
  <2> QED BY <1>4, <2>1, <2>2 DEF Graph
<1> HIDE DEF U
<1>5. Shape(U, nodes, E, edges, rev)
  BY <1>2, <1>3 DEF Shape
<1> QED BY <1>4, <1>5 DEF U

\* Deleting edges, in all three cases of closeEdge.
LEMMA RetireEdgesTables ==
    ASSUME NEW N, NEW nodes, NEW E, NEW edges, NEW rev \in Nat \ {Null},
           Typed(N, nodes, E, edges), Shape(N, nodes, E, edges, rev), NEW ids
    PROVE  LET F == RetireVersions(E, edges, ids, rev)
               left == RetireIdentities(E, edges, ids, rev)
           IN  /\ Shape(N, nodes, F, left, rev)
               /\ Graph(N, nodes, E, edges) => Graph(N, nodes, F, left)
<1> DEFINE F == RetireVersions(E, edges, ids, rev)
           left == RetireIdentities(E, edges, ids, rev)
           kept == E \ RowsDropped(E, edges, ids, rev)
<1>1. /\ N \in SUBSET NodeRow /\ nodes \in [NodeIds -> Nat]
      /\ E \in SUBSET EdgeRow /\ edges \in [EdgeIds -> Nat]
  BY DEF Typed
<1>2. TableSound(N, nodes, rev) /\ TableSound(E, edges, rev) /\ Refs(nodes, E)
  BY DEF Shape
<1>3. TableSound(F, left, rev)
  BY <1>1, <1>2, RetireSound DEF EdgeRow
<1>4. F = CloseCurrent(kept, ids, rev) /\ kept \in SUBSET EdgeRow
  BY <1>1 DEF RetireVersions
<1>5. \A e \in kept : e.id \in ids /\ IsCurrent(e) => e.valid_from < rev
  BY <1>1, <1>2, KeptRow DEF EdgeRow
<1>6. Refs(nodes, F)
  <2>1. Refs(nodes, kept)
    BY <1>2 DEF Refs
  <2> HIDE DEF kept, F
  <2> QED BY <1>4, <2>1, CloseRefs
<1>7. ASSUME Graph(N, nodes, E, edges)
      PROVE  Graph(N, nodes, F, left)
  <2>1. EveryIdentityHasRow(F, left)
    BY <1>1, <1>2, <1>7, RetireLeavesRows DEF Graph, EdgeRow
  <2>2. EdgesSound(N, nodes, kept)
    <3>1. EdgesSound(N, nodes, E)
      BY <1>2, <1>7 DEF Graph, EdgesSound
    <3> QED BY <3>1, DropEdges
  <2> HIDE DEF kept, F, left
  <2>3. EdgesSound(N, nodes, F)
    BY <1>1, <1>2, <1>4, <1>5, <2>2, CloseEdges
  <2> QED BY <1>7, <2>1, <2>3 DEF Graph, EdgesSound
<1> HIDE DEF F, left
<1>8. Shape(N, nodes, F, left, rev)
  BY <1>2, <1>3, <1>6 DEF Shape
<1> QED BY <1>7, <1>8 DEF F, left

\* Once its incident edges are deleted no current edge is left at a node.
LEMMA IncidentRetired ==
    ASSUME NEW E \in SUBSET EdgeRow, NEW edges, NEW rev \in Nat \ {Null}, NEW id,
           NEW f \in RetireVersions(E, edges, IncidentEdges(E, id), rev), IsCurrent(f)
    PROVE  id \notin {f.value.from, f.value.to}
<1> DEFINE ids == IncidentEdges(E, id)
<1>1. PICK e \in E : f = ClosedRow(e, ids, rev)
  BY RetireImage
<1>2. /\ f.value = e.value
      /\ f.valid_to = IF e.id \in ids /\ IsCurrent(e) THEN rev ELSE e.valid_to
  BY <1>1, ClosedRowFact DEF EdgeRow
<1>3. IsCurrent(e) /\ e.id \notin ids
  BY <1>2 DEF IsCurrent
<1> QED BY <1>2, <1>3 DEF IncidentEdges

\* An identity that the batch created, and that goes with its node, is named by
\* edges of the batch only, which have gone with it.
LEMMA IdentityUnreferenced ==
    ASSUME NEW N, NEW nodes, NEW E, NEW edges, NEW rev \in Nat \ {Null},
           Typed(N, nodes, E, edges), Shape(N, nodes, E, edges, rev),
           NEW id \in NodeIds, nodes[id] = rev,
           NEW f \in RetireVersions(E, edges, IncidentEdges(E, id), rev)
    PROVE  id \notin {f.value.from, f.value.to}
<1> DEFINE ids == IncidentEdges(E, id)
<1>1. E \in SUBSET EdgeRow /\ TableSound(E, edges, rev) /\ Refs(nodes, E)
  BY DEF Typed, Shape
<1>2. PICK e \in E : f = ClosedRow(e, ids, rev) /\ e \notin RowsDropped(E, edges, ids, rev)
  BY RetireImage
<1>3. f.value = e.value
  BY <1>1, <1>2, ClosedRowFact DEF EdgeRow
<1>4. ASSUME id \in {e.value.from, e.value.to} PROVE FALSE
  <2>1. e.valid_from \in Nat /\ e.valid_to \in Nat
    BY <1>1 DEF EdgeRow, VersionRow
  <2>2. e.valid_from = rev /\ IsCurrent(e)
    BY <1>1, <1>4, <2>1 DEF TableSound, Refs
  <2>3. e.id \in ids
    BY <1>4, <2>2 DEF IncidentEdges
  <2>4. InBatch(E, e.id, rev)
    BY <2>2 DEF InBatch, CurrentRows
  <2> QED BY <1>2, <2>2, <2>3, <2>4 DEF RowsDropped
<1> QED BY <1>3, <1>4

\* Deleting a node that no current edge is at.
LEMMA RetireNodeTables ==
    ASSUME NEW N, NEW nodes, NEW E, NEW edges, NEW rev \in Nat \ {Null},
           Typed(N, nodes, E, edges), Shape(N, nodes, E, edges, rev),
           NEW id \in NodeIds,
           \A e \in E : IsCurrent(e) => id \notin {e.value.from, e.value.to},
           nodes[id] = rev => \A e \in E : id \notin {e.value.from, e.value.to}
    PROVE  LET M == RetireVersions(N, nodes, {id}, rev)
               left == RetireIdentities(N, nodes, {id}, rev)
           IN  /\ Shape(M, left, E, edges, rev)
               /\ Graph(N, nodes, E, edges) => Graph(M, left, E, edges)
<1> DEFINE M == RetireVersions(N, nodes, {id}, rev)
           left == RetireIdentities(N, nodes, {id}, rev)
<1>1. /\ N \in SUBSET NodeRow /\ nodes \in [NodeIds -> Nat]
      /\ E \in SUBSET EdgeRow /\ edges \in [EdgeIds -> Nat]
  BY DEF Typed
<1>2. TableSound(N, nodes, rev) /\ TableSound(E, edges, rev) /\ Refs(nodes, E)
  BY DEF Shape
<1>3. TableSound(M, left, rev)
  BY <1>1, <1>2, RetireSound DEF NodeRow
<1>4. Refs(left, E)
  <2>1. \A n \in NodeIds : left[n] = nodes[n] \/ (n = id /\ nodes[id] = rev)
    BY <1>1 DEF RetireIdentities
  <2>2. \A e \in E : e.value.from \in NodeIds /\ e.value.to \in NodeIds
    BY <1>1 DEF EdgeRow, VersionRow, EdgeValues
  <2> HIDE DEF left
  <2> QED BY <1>2, <2>1, <2>2 DEF Refs
<1>5. ASSUME Graph(N, nodes, E, edges)
      PROVE  Graph(M, left, E, edges)
  <2>1. EveryIdentityHasRow(M, left)
    BY <1>1, <1>2, <1>5, RetireLeavesRows DEF Graph, NodeRow
  <2>2. EndsSpan(M, E)
    <3> SUFFICES ASSUME NEW e \in E, NEW n \in {e.value.from, e.value.to}
                 PROVE  Spans(M, n, e)
      BY DEF EndsSpan
    <3>1. Spans(N, n, e)
      BY <1>5 DEF Graph, EndsSpan
    <3>2. IsCurrent(e) \/ (e.valid_from < e.valid_to /\ e.valid_to <= rev)
      BY <1>2 DEF TableSound
    <3>3. n = id => ~IsCurrent(e)
      OBVIOUS
    <3> QED BY <1>1, <1>2, <3>1, <3>2, <3>3, SpansRetire
  <2> HIDE DEF M, left
  <2> QED BY <1>5, <2>1, <2>2 DEF Graph
<1> HIDE DEF M, left
<1>6. Shape(M, left, E, edges, rev)
  BY <1>2, <1>3, <1>4 DEF Shape
<1> QED BY <1>5, <1>6 DEF M, left

\* DeleteNode: the incident edges, then the node.
LEMMA DeleteNodeTables ==
    ASSUME NEW N, NEW nodes, NEW E, NEW edges, NEW rev \in Nat \ {Null},
           Typed(N, nodes, E, edges), Shape(N, nodes, E, edges, rev),
           NEW id \in NodeIds
    PROVE  LET ids == IncidentEdges(E, id)
               F == RetireVersions(E, edges, ids, rev)
               es == RetireIdentities(E, edges, ids, rev)
               M == RetireVersions(N, nodes, {id}, rev)
               ns == RetireIdentities(N, nodes, {id}, rev)
           IN  /\ Shape(M, ns, F, es, rev)
               /\ Graph(N, nodes, E, edges) => Graph(M, ns, F, es)
<1> DEFINE ids == IncidentEdges(E, id)
           F == RetireVersions(E, edges, ids, rev)
           es == RetireIdentities(E, edges, ids, rev)
           M == RetireVersions(N, nodes, {id}, rev)
           ns == RetireIdentities(N, nodes, {id}, rev)
<1>1. /\ N \in SUBSET NodeRow /\ nodes \in [NodeIds -> Nat]
      /\ E \in SUBSET EdgeRow /\ edges \in [EdgeIds -> Nat] /\ RowsFollowIdentity(E, edges)
  BY DEF Typed, Shape, TableSound
<1>2. /\ Shape(N, nodes, F, es, rev)
      /\ Graph(N, nodes, E, edges) => Graph(N, nodes, F, es)
  BY RetireEdgesTables
<1>3. Typed(N, nodes, F, es)
  <2>1. F \in SUBSET EdgeRow /\ es \in [EdgeIds -> Nat]
    BY <1>1, RetireFact DEF EdgeRow
  <2> HIDE DEF F, es
  <2> QED BY <1>1, <2>1 DEF Typed
<1>4. \A f \in F : IsCurrent(f) => id \notin {f.value.from, f.value.to}
  BY <1>1, IncidentRetired
<1>5. nodes[id] = rev => \A f \in F : id \notin {f.value.from, f.value.to}
  BY IdentityUnreferenced
<1> HIDE DEF F, es
<1>6. /\ Shape(M, ns, F, es, rev)
      /\ Graph(N, nodes, F, es) => Graph(M, ns, F, es)
  BY <1>2, <1>3, <1>4, <1>5, RetireNodeTables
<1> HIDE DEF M, ns
<1>7. /\ Shape(M, ns, F, es, rev)
      /\ Graph(N, nodes, E, edges) => Graph(M, ns, F, es)
  BY <1>2, <1>6
<1> QED BY <1>7 DEF F, es, M, ns

\* A version appended to tables from which the entity's current version has gone.
LEMMA AppendEdgeTables ==
    ASSUME NEW N \in SUBSET NodeRow, NEW nodes \in [NodeIds -> Nat], NEW rev \in Nat \ {Null},
           TableSound(N, nodes, rev), NEW E \in SUBSET EdgeRow, NEW F \in SUBSET EdgeRow,
           NEW id, NEW value, Admissible(N, E, id, value),
           ChildEdges(F, {id}) = ChildEdges(E, {id}), CurrentRows(F, id) = {},
           \A f \in F : IsCurrent(f) \/ f.valid_to <= rev, Refs(nodes, F)
    PROVE  /\ Refs(nodes, F \cup {NewRow(id, rev, value)})
           /\ EdgesSound(N, nodes, F) => EdgesSound(N, nodes, F \cup {NewRow(id, rev, value)})
<1>1. Admissible(N, F, id, value)
  BY DEF Admissible, ChildPathExists
<1>2. Refs(nodes, F \cup {NewRow(id, rev, value)})
  BY <1>1, AppendRefs DEF Admissible
<1>3. ASSUME EdgesSound(N, nodes, F)
      PROVE  EdgesSound(N, nodes, F \cup {NewRow(id, rev, value)})
  BY <1>1, <1>3, AppendEdge
<1> QED BY <1>2, <1>3

\* CreateEdge: the edge is new, so that excluding it excludes nothing.
LEMMA CreateEdgeTables ==
    ASSUME NEW N, NEW nodes, NEW E, NEW edges, NEW rev \in Nat \ {Null},
           Typed(N, nodes, E, edges), Shape(N, nodes, E, edges, rev),
           NEW id \in EdgeIds, edges[id] = Null, NEW value \in EdgeValues,
           Admissible(N, E, id, value)
    PROVE  LET row == NewRow(id, rev, value)
               ids == [edges EXCEPT ![id] = rev]
           IN  /\ Shape(N, nodes, E \cup {row}, ids, rev)
               /\ Graph(N, nodes, E, edges) => Graph(N, nodes, E \cup {row}, ids)
<1> DEFINE row == NewRow(id, rev, value)
           ids == [edges EXCEPT ![id] = rev]
<1>1. /\ N \in SUBSET NodeRow /\ nodes \in [NodeIds -> Nat]
      /\ E \in SUBSET EdgeRow /\ edges \in [EdgeIds -> Nat]
  BY DEF Typed
<1>2. TableSound(N, nodes, rev) /\ TableSound(E, edges, rev) /\ Refs(nodes, E)
  BY DEF Shape
<1>3. TableSound(E \cup {row}, ids, rev)
  BY <1>1, <1>2, InsertSound DEF EdgeRow
<1>4. CurrentRows(E, id) = {}
  BY <1>2 DEF CurrentRows, TableSound, RowsFollowIdentity
<1>5. \A e \in E : IsCurrent(e) \/ e.valid_to <= rev
  BY <1>2 DEF TableSound
<1>6. /\ Refs(nodes, E \cup {row})
      /\ EdgesSound(N, nodes, E) => EdgesSound(N, nodes, E \cup {row})
  BY <1>1, <1>2, <1>4, <1>5, AppendEdgeTables
<1>7. ASSUME Graph(N, nodes, E, edges)
      PROVE  Graph(N, nodes, E \cup {row}, ids)
  <2>1. EveryIdentityHasRow(E \cup {row}, ids)
    <3>1. row.id = id /\ DOMAIN ids = EdgeIds /\ DOMAIN edges = EdgeIds
      BY <1>1 DEF NewRow
    <3>2. \A i \in EdgeIds : i # id => ids[i] = edges[i]
      BY <1>1
    <3> HIDE DEF ids, row
    <3> QED BY <1>7, <3>1, <3>2 DEF Graph, EveryIdentityHasRow
  <2> HIDE DEF row, ids
  <2>2. EdgesSound(N, nodes, E \cup {row})
    BY <1>2, <1>6, <1>7 DEF Graph, EdgesSound
  <2> QED BY <1>7, <2>1, <2>2 DEF Graph, EdgesSound
<1> HIDE DEF row, ids
<1>8. Shape(N, nodes, E \cup {row}, ids, rev)
  BY <1>2, <1>3, <1>6 DEF Shape
<1> QED BY <1>7, <1>8 DEF row, ids

\* UpdateEdge: the new content is checked against all current edges but its own.
LEMMA UpdateEdgeTables ==
    ASSUME NEW N, NEW nodes, NEW E, NEW edges, NEW rev \in Nat \ {Null},
           Typed(N, nodes, E, edges), Shape(N, nodes, E, edges, rev),
           NEW cur \in E, IsCurrent(cur), NEW value \in EdgeValues,
           Admissible(N, E, cur.id, value)
    PROVE  LET F == ReplaceVersion(E, cur, rev, value)
           IN  /\ Shape(N, nodes, F, edges, rev)
               /\ Graph(N, nodes, E, edges) => Graph(N, nodes, F, edges)
<1> DEFINE row == NewRow(cur.id, rev, value)
           id == cur.id
           F == ReplaceVersion(E, cur, rev, value)
<1>1. /\ N \in SUBSET NodeRow /\ nodes \in [NodeIds -> Nat]
      /\ E \in SUBSET EdgeRow /\ edges \in [EdgeIds -> Nat]
  BY DEF Typed
<1>2. TableSound(N, nodes, rev) /\ TableSound(E, edges, rev) /\ Refs(nodes, E)
  BY DEF Shape
<1>3. TableSound(F, edges, rev)
  BY <1>1, <1>2, ReplaceSound DEF EdgeRow
<1>4. \A e \in E : e.id = id /\ e # cur => ~IsCurrent(e)
  <2>1. ASSUME NEW e \in E, e.id = id, e # cur PROVE ~IsCurrent(e)
    BY <1>1, <1>2, <2>1, LastRow DEF EdgeRow
  <2> QED BY <2>1
<1>5. \A e \in E : IsCurrent(e) \/ e.valid_to <= rev
  BY <1>2 DEF TableSound
<1>6. /\ Refs(nodes, F)
      /\ EdgesSound(N, nodes, E) => EdgesSound(N, nodes, F)
  <2>1. CASE cur.valid_from = rev
    <3> DEFINE G == E \ {cur}
    <3>1. F = G \cup {row}
      <4>1. OverwriteAt(E, cur.id, rev, value) = (E \ {cur}) \cup {NewRow(cur.id, rev, value)}
        BY <1>1, <1>2, <2>1, OverwriteIsSwap
      <4> QED BY <2>1, <4>1 DEF ReplaceVersion
    <3>2. CurrentRows(G, id) = {} /\ ChildEdges(G, {id}) = ChildEdges(E, {id})
      BY <1>4 DEF CurrentRows, ChildEdges
    <3>3. Refs(nodes, G) /\ (EdgesSound(N, nodes, E) => EdgesSound(N, nodes, G))
      BY <1>2, DropEdges DEF Refs
    <3>4. G \in SUBSET EdgeRow /\ \A f \in G : IsCurrent(f) \/ f.valid_to <= rev
      BY <1>1, <1>5
    <3> HIDE DEF G, F
    <3>5. /\ Refs(nodes, G \cup {row})
          /\ EdgesSound(N, nodes, G) => EdgesSound(N, nodes, G \cup {row})
      BY <1>1, <1>2, <3>2, <3>3, <3>4, AppendEdgeTables
    <3> QED BY <3>1, <3>3, <3>5
  <2>2. CASE cur.valid_from # rev
    <3> DEFINE G == CloseCurrent(E, {id}, rev)
    <3>1. F = G \cup {row}
      BY <2>2 DEF ReplaceVersion
    <3>2. \A e \in E : /\ ClosedRow(e, {id}, rev).id = e.id
                       /\ ClosedRow(e, {id}, rev).valid_to =
                             IF e.id \in {id} /\ IsCurrent(e) THEN rev ELSE e.valid_to
                       /\ e.id # id => ClosedRow(e, {id}, rev) = e
      <4> SUFFICES ASSUME NEW e \in E
                   PROVE  /\ ClosedRow(e, {id}, rev).id = e.id
                          /\ ClosedRow(e, {id}, rev).valid_to =
                                IF e.id \in {id} /\ IsCurrent(e) THEN rev ELSE e.valid_to
                          /\ e.id # id => ClosedRow(e, {id}, rev) = e
        OBVIOUS
      <4>1. e.id # id => ClosedRow(e, {id}, rev) = e
        BY DEF ClosedRow
      <4> HIDE DEF id
      <4>2. /\ ClosedRow(e, {id}, rev).id = e.id
            /\ ClosedRow(e, {id}, rev).valid_to =
                  IF e.id \in {id} /\ IsCurrent(e) THEN rev ELSE e.valid_to
        BY <1>1, ClosedRowFact DEF EdgeRow
      <4> QED BY <4>1, <4>2
    <3>3. G = {ClosedRow(e, {id}, rev) : e \in E}
      BY CloseImage
    <3>4. G \in SUBSET EdgeRow
      BY <1>1, CloseFact DEF EdgeRow
    <3>5. cur.valid_from < rev
      BY <1>1, <1>2, <2>2 DEF TableSound, EdgeRow, VersionRow
    <3>6. \A e \in E : e.id \in {id} /\ IsCurrent(e) => e.valid_from < rev
      BY <1>4, <3>5
    <3>7. Refs(nodes, G) /\ (EdgesSound(N, nodes, E) => EdgesSound(N, nodes, G))
      <4>1. Refs(nodes, G)
        BY <1>1, <1>2, CloseRefs
      <4>2. ASSUME EdgesSound(N, nodes, E) PROVE EdgesSound(N, nodes, G)
        BY <1>1, <1>2, <3>6, <4>2, CloseEdges
      <4> QED BY <4>1, <4>2
    <3> HIDE DEF G, F, id
    <3>8. CurrentRows(G, id) = {}
      <4>1. \A e \in E : ClosedRow(e, {id}, rev).id = id => ~IsCurrent(ClosedRow(e, {id}, rev))
        BY <3>2 DEF IsCurrent
      <4> QED BY <3>3, <4>1 DEF CurrentRows
    <3>9. \A f \in G : IsCurrent(f) \/ f.valid_to <= rev
      BY <1>5, <3>2, <3>3 DEF IsCurrent
    <3>10. ChildEdges(G, {id}) = ChildEdges(E, {id})
      <4>1. \A x : (x \in G /\ x.id # id) <=> (x \in E /\ x.id # id)
        BY <3>2, <3>3
      <4> QED BY <4>1 DEF ChildEdges
    <3>11. Admissible(N, E, id, value)
      BY DEF id
    <3>12. /\ Refs(nodes, G \cup {NewRow(id, rev, value)})
           /\ EdgesSound(N, nodes, G) => EdgesSound(N, nodes, G \cup {NewRow(id, rev, value)})
      BY <1>1, <1>2, <3>4, <3>7, <3>8, <3>9, <3>10, <3>11, AppendEdgeTables
    <3>13. F = G \cup {NewRow(id, rev, value)}
      BY <3>1 DEF id
    <3> QED BY <3>7, <3>12, <3>13
  <2> QED BY <2>1, <2>2
<1>7. ASSUME Graph(N, nodes, E, edges)
      PROVE  Graph(N, nodes, F, edges)
  <2>1. EveryIdentityHasRow(F, edges)
    BY <1>1, <1>7, ReplaceKeepsIds DEF Graph, EdgeRow
  <2> HIDE DEF F
  <2>2. EdgesSound(N, nodes, F)
    BY <1>2, <1>6, <1>7 DEF Graph, EdgesSound
  <2> QED BY <1>7, <2>1, <2>2 DEF Graph, EdgesSound
<1> HIDE DEF F
<1>8. Shape(N, nodes, F, edges, rev)
  BY <1>2, <1>3, <1>6 DEF Shape
<1> QED BY <1>7, <1>8 DEF F

\* What a mutation that breaks off leaves: an identity without a version ...
LEMMA LoneIdentityTables ==
    ASSUME NEW N, NEW nodes, NEW E, NEW edges, NEW rev \in Nat \ {Null},
           Typed(N, nodes, E, edges), Shape(N, nodes, E, edges, rev),
           NEW id \in NodeIds, nodes[id] = Null
    PROVE  Shape(N, [nodes EXCEPT ![id] = rev], E, edges, rev)
<1> DEFINE ids == [nodes EXCEPT ![id] = rev]
<1>1. N \in SUBSET NodeRow /\ nodes \in [NodeIds -> Nat] /\ E \in SUBSET EdgeRow
  BY DEF Typed
<1>2. TableSound(N, nodes, rev) /\ TableSound(E, edges, rev) /\ Refs(nodes, E)
  BY DEF Shape
<1>3. \A n \in NodeIds : nodes[n] # Null => ids[n] = nodes[n]
  BY <1>1
<1>4. \A v \in N : v.id \in NodeIds /\ nodes[v.id] # Null
  BY <1>1, <1>2 DEF TableSound, RowsFollowIdentity, NodeRow, VersionRow
<1>5. \A e \in E : e.value.from \in NodeIds /\ e.value.to \in NodeIds
  BY <1>1 DEF EdgeRow, VersionRow, EdgeValues
<1> HIDE DEF ids
<1>6. TableSound(N, ids, rev)
  BY <1>2, <1>3, <1>4 DEF TableSound, RowsFollowIdentity
<1>7. Refs(ids, E)
  BY <1>2, <1>3, <1>5 DEF Refs
<1> QED BY <1>2, <1>6, <1>7 DEF Shape, ids

\* ... or a node whose last version is closed.
LEMMA LoneCloseTables ==
    ASSUME NEW N, NEW nodes, NEW E, NEW edges, NEW rev \in Nat \ {Null},
           Typed(N, nodes, E, edges), Shape(N, nodes, E, edges, rev),
           NEW id, NEW cur \in CurrentRows(N, id), cur.valid_from # rev
    PROVE  Shape(CloseCurrent(N, {id}, rev), nodes, E, edges, rev)
<1>1. N \in SUBSET NodeRow /\ nodes \in [NodeIds -> Nat]
  BY DEF Typed
<1>2. TableSound(N, nodes, rev) /\ TableSound(E, edges, rev) /\ Refs(nodes, E)
  BY DEF Shape
<1>3. cur \in N /\ cur.id = id /\ IsCurrent(cur) /\ cur.valid_from < rev
  BY <1>1, <1>2 DEF CurrentRows, TableSound, NodeRow, VersionRow
<1>4. \A v \in N : v.id \in {id} /\ IsCurrent(v) => v.valid_from < rev
  <2>1. ASSUME NEW v \in N, v.id = id, IsCurrent(v) PROVE v = cur
    BY <1>1, <1>2, <1>3, <2>1, LastRow DEF NodeRow
  <2> QED BY <1>3, <2>1
<1>5. TableSound(CloseCurrent(N, {id}, rev), nodes, rev)
  BY <1>1, <1>2, <1>4, CloseSound DEF NodeRow
<1> QED BY <1>2, <1>5 DEF Shape

\* The same of an edge: no row names the identity of an edge ...
LEMMA LoneEdgeIdentityTables ==
    ASSUME NEW N, NEW nodes, NEW E, NEW edges, NEW rev \in Nat \ {Null},
           Typed(N, nodes, E, edges), Shape(N, nodes, E, edges, rev),
           NEW id \in EdgeIds, edges[id] = Null
    PROVE  Shape(N, nodes, E, [edges EXCEPT ![id] = rev], rev)
<1> DEFINE ids == [edges EXCEPT ![id] = rev]
<1>1. E \in SUBSET EdgeRow /\ edges \in [EdgeIds -> Nat]
  BY DEF Typed
<1>2. TableSound(N, nodes, rev) /\ TableSound(E, edges, rev) /\ Refs(nodes, E)
  BY DEF Shape
<1>3. \A n \in EdgeIds : edges[n] # Null => ids[n] = edges[n]
  BY <1>1
<1>4. \A v \in E : v.id \in EdgeIds /\ edges[v.id] # Null
  BY <1>1, <1>2 DEF TableSound, RowsFollowIdentity, EdgeRow, VersionRow
<1> HIDE DEF ids
<1>5. TableSound(E, ids, rev)
  BY <1>2, <1>3, <1>4 DEF TableSound, RowsFollowIdentity
<1> QED BY <1>2, <1>5 DEF Shape, ids

\* ... and a closed version still names the nodes it named.
LEMMA LoneEdgeCloseTables ==
    ASSUME NEW N, NEW nodes, NEW E, NEW edges, NEW rev \in Nat \ {Null},
           Typed(N, nodes, E, edges), Shape(N, nodes, E, edges, rev),
           NEW id, NEW cur \in CurrentRows(E, id), cur.valid_from # rev
    PROVE  Shape(N, nodes, CloseCurrent(E, {id}, rev), edges, rev)
<1>1. E \in SUBSET EdgeRow /\ edges \in [EdgeIds -> Nat]
  BY DEF Typed
<1>2. TableSound(N, nodes, rev) /\ TableSound(E, edges, rev) /\ Refs(nodes, E)
  BY DEF Shape
<1>3. cur \in E /\ cur.id = id /\ IsCurrent(cur) /\ cur.valid_from < rev
  BY <1>1, <1>2 DEF CurrentRows, TableSound, EdgeRow, VersionRow
<1>4. \A v \in E : v.id \in {id} /\ IsCurrent(v) => v.valid_from < rev
  <2>1. ASSUME NEW v \in E, v.id = id, IsCurrent(v) PROVE v = cur
    BY <1>1, <1>2, <1>3, <2>1, LastRow DEF EdgeRow
  <2> QED BY <1>3, <2>1
<1>5. TableSound(CloseCurrent(E, {id}, rev), edges, rev)
  BY <1>1, <1>2, <1>4, CloseSound DEF EdgeRow
<1>6. Refs(nodes, CloseCurrent(E, {id}, rev))
  BY <1>1, <1>2, CloseRefs
<1> QED BY <1>2, <1>5, <1>6 DEF Shape

-----------------------------------------------------------------------------
(* What the schema asks of the statements *)

\* An update of the current version of an entity passes the triggers.
LEMMA ReplaceIsAdmitted ==
    ASSUME NEW Ids, NEW Values, NEW T \in SUBSET VersionRow(Ids, Values),
           NEW created, NEW rev \in Nat \ {Null}, TableSound(T, created, rev),
           NEW cur \in T, IsCurrent(cur), NEW d, IsActive(d, rev)
    PROVE  ReplaceAdmitted(d, T, created, cur, rev)
<1>1. \A v \in T : v.id = cur.id => v = cur \/ (v.valid_from < cur.valid_from /\ ~IsCurrent(v))
  BY LastRow
<1>2. \A v \in T : v.valid_from \in Nat /\ v.valid_from <= rev
  BY DEF TableSound, VersionRow
<1>3. CASE cur.valid_from = rev
  <2>1. \A v \in T : v.id = cur.id /\ v.valid_from = rev => IsCurrent(v)
    BY <1>1, <1>2, <1>3
  <2> QED BY <1>3, <2>1 DEF ReplaceAdmitted, VersionOverwriteAdmitted
<1>4. CASE cur.valid_from # rev
  <2> DEFINE U == CloseCurrent(T, {cur.id}, rev)
             row == NewRow(cur.id, rev, cur.value)
  <2>1. \A v \in T : v.id = cur.id => v.valid_from < rev
    BY <1>1, <1>2, <1>4
  <2>2. VersionCloseAdmitted(d, T, {cur.id}, rev)
    BY <1>2, <2>1 DEF VersionCloseAdmitted
  <2>3. \A v \in T : /\ ClosedRow(v, {cur.id}, rev).id = v.id
                     /\ ClosedRow(v, {cur.id}, rev).valid_to =
                           IF v.id \in {cur.id} /\ IsCurrent(v) THEN rev ELSE v.valid_to
    BY ClosedRowFact
  <2>4. U = {ClosedRow(v, {cur.id}, rev) : v \in T}
    BY CloseImage
  <2>5. row.id = cur.id /\ row.valid_from = rev
    BY DEF NewRow
  <2> HIDE DEF U, row
  <2>6. \E v \in U : v.id = cur.id /\ v.valid_to = rev
    BY <2>3, <2>4
  <2>7. CurrentRows(U, cur.id) = {}
    <3>1. \A v \in T : ClosedRow(v, {cur.id}, rev).id = cur.id
                          => ~IsCurrent(ClosedRow(v, {cur.id}, rev))
      BY <2>3 DEF IsCurrent
    <3> QED BY <2>4, <3>1 DEF CurrentRows
  <2>8. VersionInsertAdmitted(d, U, created, row)
    BY <2>5, <2>6, <2>7 DEF VersionInsertAdmitted
  <2> QED BY <1>4, <2>2, <2>8 DEF ReplaceAdmitted, U, row
<1> QED BY <1>3, <1>4

\* So does a deletion ...
LEMMA RetireIsAdmitted ==
    ASSUME NEW Ids, NEW Values, NEW T \in SUBSET VersionRow(Ids, Values),
           NEW created \in [Ids -> Nat], NEW rev \in Nat \ {Null}, TableSound(T, created, rev),
           NEW ids, NEW d, IsActive(d, rev)
    PROVE  RetireAdmitted(d, T, created, ids, rev)
<1> DEFINE D == RowsDropped(T, created, ids, rev)
<1>1. \A v \in D : v.valid_from = rev
  BY DroppedRow
<1>2. \A v \in T \ D : v.id \in ids /\ IsCurrent(v) => v.valid_from < rev
  BY KeptRow
<1>3. \A v \in T : v.valid_from \in Nat
  BY DEF VersionRow
<1>4. VersionCloseAdmitted(d, T \ D, ids, rev)
  BY <1>2, <1>3 DEF VersionCloseAdmitted
<1> HIDE DEF D
<1>5. \A v \in D : IsActive(d, v.valid_from)
  BY <1>1
<1> QED BY <1>4, <1>5 DEF RetireAdmitted, D

\* ... and a new entity with its first version.
LEMMA InsertIsAdmitted ==
    ASSUME NEW Ids, NEW T, NEW created \in [Ids -> Nat], NEW rev \in Nat \ {Null},
           TableSound(T, created, rev), NEW id \in Ids, created[id] = Null, NEW value,
           NEW d, IsActive(d, rev)
    PROVE  /\ IdentityInsertAdmitted(d, created, id, rev)
           /\ VersionInsertAdmitted(d, T, [created EXCEPT ![id] = rev], NewRow(id, rev, value))
<1> DEFINE row == NewRow(id, rev, value)
           ids == [created EXCEPT ![id] = rev]
<1>1. row.id = id /\ row.valid_from = rev /\ ids[id] = rev
  BY DEF NewRow
<1>2. \A v \in T : v.id # id
  BY DEF TableSound, RowsFollowIdentity
<1> HIDE DEF row, ids
<1>3. VersionInsertAdmitted(d, T, ids, row)
  BY <1>1, <1>2 DEF VersionInsertAdmitted
<1> QED BY <1>3 DEF IdentityInsertAdmitted, row, ids

-----------------------------------------------------------------------------
(* The steps *)

\* What a mutation finds.
LEMMA JFacts ==
    ASSUME JInv, tx.active
    PROVE  /\ Rev \in Nat \ {Null} /\ Rev = db.sealed + 1 /\ db.sealed \in Nat
           /\ Typed(work.nodeVersions, work.nodes, work.edgeVersions, work.edges)
           /\ Shape(work.nodeVersions, work.nodes, work.edgeVersions, work.edges, Rev)
           /\ ~tx.failed =>
                 Graph(work.nodeVersions, work.nodes, work.edgeVersions, work.edges)
<1>1. IInv /\ WorkSound
  BY DEF JInv
<1>2. Rev = db.sealed + 1 /\ db.sealed \in Nat
  BY <1>1 DEF IInv, Rev, Sound, Database
<1>3. Typed(work.nodeVersions, work.nodes, work.edgeVersions, work.edges)
  BY <1>1, WorkFact DEF Typed, NodeRow, EdgeRow
<1> QED BY <1>1, <1>2, <1>3 DEF WorkSound, TablesSound, GraphSound, Null

\* The revision row a mutation inserts passes its trigger, and makes the batch's
\* revision the active one.
LEMMA EnsureActive ==
    ASSUME JInv, tx.active, NEW now \in Clock
    PROVE  /\ RevisionAdmitted(now)
           /\ Len(EnsureRevision(now).times) = Rev
           /\ TimesIncrease(EnsureRevision(now))
           /\ EnsureRevision(now).sealed = db.sealed
           /\ IsActive(EnsureRevision(now), Rev)
<1> DEFINE d == EnsureRevision(now)
<1>1. Rev \in Nat \ {Null} /\ Rev = db.sealed + 1 /\ db.sealed \in Nat
  BY JFacts
<1>2. /\ RevisionAdmitted(now) /\ Len(d.times) = Rev /\ TimesIncrease(d)
      /\ d.sealed = db.sealed
  <2>1. CASE tx.revision # 0
    <3>1. d = work
      BY <2>1 DEF EnsureRevision
    <3> QED BY <2>1, <3>1 DEF JInv, WorkSound, RevisionAdmitted
  <2>2. CASE tx.revision = 0
    <3> DEFINE ts == db.times
               ns == CommitTime(now)
    <3>1. work = db /\ work \in Database
      BY <2>2 DEF JInv, WorkSound, IInv, Sound
    <3>2. ts \in Seq(Nat) /\ Len(ts) = db.sealed /\ now \in Nat
      BY <3>1, BoundsAssumption DEF Database, JInv, DbSound
    <3>3. \A q, r \in DOMAIN ts : q < r => ts[q] < ts[r]
      BY DEF JInv, DbSound, TimesIncrease
    <3>4. ns \in Nat /\ \A r \in DOMAIN ts : ts[r] < ns
      <4>1. CASE ts = <<>>
        BY <3>1, <3>2, <4>1 DEF CommitTime
      <4>2. CASE ts # <<>>
        <5>1. Len(ts) \in DOMAIN ts /\ ts[Len(ts)] \in Nat
          BY <3>2, <4>2
        <5>2. \A r \in DOMAIN ts : ts[r] <= ts[Len(ts)] /\ ts[r] \in Nat
          BY <3>2, <3>3, <5>1
        <5>3. ns \in Nat /\ ts[Len(ts)] < ns
          BY <3>1, <3>2, <4>2, <5>1 DEF CommitTime
        <5> QED BY <5>1, <5>2, <5>3
      <4> QED BY <4>1, <4>2
    <3>5. d.times = Append(ts, ns) /\ d.sealed = db.sealed
      BY <2>2, <3>1 DEF EnsureRevision, Database
    <3>6. RevisionAdmitted(now)
      BY <1>1, <3>1, <3>2, <3>4 DEF RevisionAdmitted, RevisionInsertAdmitted, MaxRow
    <3> HIDE DEF ts, ns, d
    <3>7. Len(d.times) = Rev
      BY <1>1, <3>2, <3>4, <3>5
    <3>8. TimesIncrease(d)
      <4> SUFFICES ASSUME NEW q \in DOMAIN d.times, NEW r \in DOMAIN d.times, q < r
                   PROVE  d.times[q] < d.times[r]
        BY DEF TimesIncrease
      <4>1. q \in 1..(Len(ts) + 1) /\ r \in 1..(Len(ts) + 1)
        BY <3>2, <3>4, <3>5
      <4>2. q \in DOMAIN ts /\ d.times[q] = ts[q]
        BY <3>2, <3>4, <3>5, <4>1
      <4>3. CASE r = Len(ts) + 1
        BY <3>2, <3>4, <3>5, <4>2, <4>3
      <4>4. CASE r # Len(ts) + 1
        <5>1. r \in DOMAIN ts /\ d.times[r] = ts[r]
          BY <3>2, <3>4, <3>5, <4>1, <4>4
        <5> QED BY <3>3, <4>2, <5>1
      <4> QED BY <4>3, <4>4
    <3> QED BY <3>5, <3>6, <3>7, <3>8
  <2> QED BY <2>1, <2>2
<1>3. IsActive(d, Rev)
  BY <1>1, <1>2 DEF IsActive, MaxRow
<1> QED BY <1>2, <1>3

\* A mutation that the triggers admit, and whose result is sound.
LEMMA MutateKeeps ==
    ASSUME JInv, IInv', tx.active, NEW now \in Clock, NEW STATE admitted, NEW STATE result,
           Mutate(now, admitted, result), admitted,
           result.times = EnsureRevision(now).times, result.sealed = EnsureRevision(now).sealed,
           Shape(result.nodeVersions, result.nodes, result.edgeVersions, result.edges, Rev),
           ~tx.failed =>
              Graph(result.nodeVersions, result.nodes, result.edgeVersions, result.edges)
    PROVE  JInv'
<1>1. /\ RevisionAdmitted(now) /\ Len(EnsureRevision(now).times) = Rev
      /\ TimesIncrease(EnsureRevision(now)) /\ EnsureRevision(now).sealed = db.sealed
  BY EnsureActive
<1>2. work' = result /\ db' = db
  BY <1>1 DEF Mutate
<1>3. tx \in TxType /\ Rev \in Nat
  BY JFacts DEF JInv, IInv
<1>4. /\ tx'.active = tx.active /\ tx'.base = tx.base /\ tx'.revision = Rev
      /\ tx'.failed = tx.failed /\ tx'.aborted = tx.aborted
  <2>1. /\ (tx.failed \/ ~(RevisionAdmitted(now) /\ admitted)) = tx.failed
        /\ (tx.aborted \/ ~(RevisionAdmitted(now) /\ admitted)) = tx.aborted
    BY <1>1, <1>3 DEF TxType
  <2> QED BY <1>3, <2>1 DEF Mutate, TxType
<1>5. Rev' = Rev
  BY <1>4 DEF Rev
<1>6. DbSound'
  BY <1>2 DEF JInv, DbSound
<1>7. TimesIncrease(result)
  BY <1>1 DEF TimesIncrease
<1>8. WorkSound'
  BY <1>1, <1>2, <1>4, <1>5, <1>7, JFacts DEF WorkSound, TablesSound, GraphSound, Null
<1> QED BY <1>4, <1>6, <1>8 DEF JInv

\* CreateNode keeps the invariant.
LEMMA CreateNodeKeeps ==
    ASSUME JInv, IInv', NEW id \in NodeIds, NEW value \in NodeValues, NEW now \in Clock,
           tx.active, work.nodes[id] = Null,
           LET d   == EnsureRevision(now)
               ids == [d.nodes EXCEPT ![id] = Rev]
               row == NewRow(id, Rev, value)
           IN  Mutate(now,
                      /\ IdentityInsertAdmitted(d, d.nodes, id, Rev)
                      /\ VersionInsertAdmitted(d, d.nodeVersions, ids, row),
                      [d EXCEPT !.nodes = ids, !.nodeVersions = @ \cup {row}])
    PROVE  JInv'
<1> DEFINE d == EnsureRevision(now)
           ids == [d.nodes EXCEPT ![id] = Rev]
           row == NewRow(id, Rev, value)
           rows == d.nodeVersions \cup {row}
           new == [d EXCEPT !.nodes = ids, !.nodeVersions = rows]
           ok == /\ IdentityInsertAdmitted(d, d.nodes, id, Rev)
                 /\ VersionInsertAdmitted(d, d.nodeVersions, ids, row)
<1>0. Mutate(now, ok, new)
  OBVIOUS
<1>1. /\ d \in Database
      /\ d.nodes = work.nodes /\ d.nodeVersions = work.nodeVersions
      /\ d.edges = work.edges /\ d.edgeVersions = work.edgeVersions
  BY EnsureFact DEF JInv
<1>2. IsActive(d, Rev) /\ Rev \in Nat \ {Null}
  BY EnsureActive, JFacts
<1>3. /\ Typed(d.nodeVersions, d.nodes, d.edgeVersions, d.edges)
      /\ Shape(d.nodeVersions, d.nodes, d.edgeVersions, d.edges, Rev)
      /\ ~tx.failed => Graph(d.nodeVersions, d.nodes, d.edgeVersions, d.edges)
  BY <1>1, JFacts
<1> HIDE DEF d
<1>4. /\ Shape(rows, ids, d.edgeVersions, d.edges, Rev)
      /\ ~tx.failed => Graph(rows, ids, d.edgeVersions, d.edges)
  BY <1>1, <1>2, <1>3, CreateNodeTables
<1>5. ok
  BY <1>1, <1>2, <1>3, InsertIsAdmitted DEF Typed, Shape
<1> HIDE DEF rows, ids, ok
<1>6. /\ new.nodes = ids /\ new.nodeVersions = rows
      /\ new.edges = d.edges /\ new.edgeVersions = d.edgeVersions
      /\ new.times = d.times /\ new.sealed = d.sealed
  BY <1>1 DEF Database
<1> HIDE DEF new
<1> QED BY <1>0, <1>4, <1>5, <1>6, MutateKeeps DEF d

\* CreateEdge keeps the invariant.
LEMMA CreateEdgeKeeps ==
    ASSUME JInv, IInv', NEW id \in EdgeIds, NEW value \in EdgeValues, NEW now \in Clock,
           tx.active, work.edges[id] = Null, ValidateEdge(value, {}),
           LET d   == EnsureRevision(now)
               ids == [d.edges EXCEPT ![id] = Rev]
               row == NewRow(id, Rev, value)
           IN  Mutate(now,
                      /\ IdentityInsertAdmitted(d, d.edges, id, Rev)
                      /\ VersionInsertAdmitted(d, d.edgeVersions, ids, row)
                      /\ EdgeGraphAdmitted(d, id, value),
                      [d EXCEPT !.edges = ids, !.edgeVersions = @ \cup {row}])
    PROVE  JInv'
<1> DEFINE d == EnsureRevision(now)
           ids == [d.edges EXCEPT ![id] = Rev]
           row == NewRow(id, Rev, value)
           rows == d.edgeVersions \cup {row}
           new == [d EXCEPT !.edges = ids, !.edgeVersions = rows]
           ok == /\ IdentityInsertAdmitted(d, d.edges, id, Rev)
                 /\ VersionInsertAdmitted(d, d.edgeVersions, ids, row)
                 /\ EdgeGraphAdmitted(d, id, value)
<1>0. Mutate(now, ok, new)
  OBVIOUS
<1>1. /\ d \in Database
      /\ d.nodes = work.nodes /\ d.nodeVersions = work.nodeVersions
      /\ d.edges = work.edges /\ d.edgeVersions = work.edgeVersions
  BY EnsureFact DEF JInv
<1>2. IsActive(d, Rev) /\ Rev \in Nat \ {Null}
  BY EnsureActive, JFacts
<1>3. /\ Typed(d.nodeVersions, d.nodes, d.edgeVersions, d.edges)
      /\ Shape(d.nodeVersions, d.nodes, d.edgeVersions, d.edges, Rev)
      /\ ~tx.failed => Graph(d.nodeVersions, d.nodes, d.edgeVersions, d.edges)
  BY <1>1, JFacts
<1> HIDE DEF d
<1>4. ChildEdges(d.edgeVersions, {id}) = ChildEdges(d.edgeVersions, {})
  BY <1>1, <1>3 DEF ChildEdges, Shape, TableSound, RowsFollowIdentity
<1>5. /\ Admissible(d.nodeVersions, d.edgeVersions, id, value)
      /\ value.type # CHILD => value.position = NoPosition
  BY <1>1, <1>4 DEF ValidateEdge, Admissible, ChildPathExists
<1>6. EdgeGraphAdmitted(d, id, value)
  BY <1>5 DEF EdgeGraphAdmitted, Admissible
<1>7. /\ Shape(d.nodeVersions, d.nodes, rows, ids, Rev)
      /\ ~tx.failed => Graph(d.nodeVersions, d.nodes, rows, ids)
  BY <1>1, <1>2, <1>3, <1>5, CreateEdgeTables
<1>8. ok
  BY <1>1, <1>2, <1>3, <1>6, InsertIsAdmitted DEF Typed, Shape
<1> HIDE DEF rows, ids, ok
<1>9. /\ new.edges = ids /\ new.edgeVersions = rows
      /\ new.nodes = d.nodes /\ new.nodeVersions = d.nodeVersions
      /\ new.times = d.times /\ new.sealed = d.sealed
  BY <1>1 DEF Database
<1> HIDE DEF new
<1> QED BY <1>0, <1>7, <1>8, <1>9, MutateKeeps DEF d

\* UpdateNode keeps the invariant.
LEMMA UpdateNodeKeeps ==
    ASSUME JInv, IInv', NEW id \in NodeIds, NEW value \in NodeValues, NEW now \in Clock,
           tx.active, NEW cur \in CurrentRows(work.nodeVersions, id),
           LET d == EnsureRevision(now)
           IN  Mutate(now, ReplaceAdmitted(d, d.nodeVersions, d.nodes, cur, Rev),
                      [d EXCEPT !.nodeVersions = ReplaceVersion(@, cur, Rev, value)])
    PROVE  JInv'
<1> DEFINE d == EnsureRevision(now)
           rows == ReplaceVersion(d.nodeVersions, cur, Rev, value)
           new == [d EXCEPT !.nodeVersions = rows]
           ok == ReplaceAdmitted(d, d.nodeVersions, d.nodes, cur, Rev)
<1>0. Mutate(now, ok, new)
  OBVIOUS
<1>1. /\ d \in Database
      /\ d.nodes = work.nodes /\ d.nodeVersions = work.nodeVersions
      /\ d.edges = work.edges /\ d.edgeVersions = work.edgeVersions
  BY EnsureFact DEF JInv
<1>2. IsActive(d, Rev) /\ Rev \in Nat \ {Null}
  BY EnsureActive, JFacts
<1>3. /\ Typed(d.nodeVersions, d.nodes, d.edgeVersions, d.edges)
      /\ Shape(d.nodeVersions, d.nodes, d.edgeVersions, d.edges, Rev)
      /\ ~tx.failed => Graph(d.nodeVersions, d.nodes, d.edgeVersions, d.edges)
  BY <1>1, JFacts
<1> HIDE DEF d
<1>4. cur \in d.nodeVersions /\ IsCurrent(cur)
  BY <1>1 DEF CurrentRows
<1>5. /\ Shape(rows, d.nodes, d.edgeVersions, d.edges, Rev)
      /\ ~tx.failed => Graph(rows, d.nodes, d.edgeVersions, d.edges)
  BY <1>2, <1>3, <1>4, UpdateNodeTables
<1>6. ok
  BY <1>2, <1>3, <1>4, ReplaceIsAdmitted DEF Typed, Shape, NodeRow
<1> HIDE DEF rows, ok
<1>7. /\ new.nodeVersions = rows /\ new.nodes = d.nodes
      /\ new.edges = d.edges /\ new.edgeVersions = d.edgeVersions
      /\ new.times = d.times /\ new.sealed = d.sealed
  BY <1>1 DEF Database
<1> HIDE DEF new
<1> QED BY <1>0, <1>5, <1>6, <1>7, MutateKeeps DEF d

\* UpdateEdge keeps the invariant.
LEMMA UpdateEdgeKeeps ==
    ASSUME JInv, IInv', NEW id \in EdgeIds, NEW value \in EdgeValues, NEW now \in Clock,
           tx.active, NEW cur \in CurrentRows(work.edgeVersions, id), ValidateEdge(value, {id}),
           LET d == EnsureRevision(now)
           IN  Mutate(now,
                      /\ ReplaceAdmitted(d, d.edgeVersions, d.edges, cur, Rev)
                      /\ EdgeGraphAdmitted(d, id, value),
                      [d EXCEPT !.edgeVersions = ReplaceVersion(@, cur, Rev, value)])
    PROVE  JInv'
<1> DEFINE d == EnsureRevision(now)
           rows == ReplaceVersion(d.edgeVersions, cur, Rev, value)
           new == [d EXCEPT !.edgeVersions = rows]
           ok == /\ ReplaceAdmitted(d, d.edgeVersions, d.edges, cur, Rev)
                 /\ EdgeGraphAdmitted(d, id, value)
<1>0. Mutate(now, ok, new)
  OBVIOUS
<1>1. /\ d \in Database
      /\ d.nodes = work.nodes /\ d.nodeVersions = work.nodeVersions
      /\ d.edges = work.edges /\ d.edgeVersions = work.edgeVersions
  BY EnsureFact DEF JInv
<1>2. IsActive(d, Rev) /\ Rev \in Nat \ {Null}
  BY EnsureActive, JFacts
<1>3. /\ Typed(d.nodeVersions, d.nodes, d.edgeVersions, d.edges)
      /\ Shape(d.nodeVersions, d.nodes, d.edgeVersions, d.edges, Rev)
      /\ ~tx.failed => Graph(d.nodeVersions, d.nodes, d.edgeVersions, d.edges)
  BY <1>1, JFacts
<1> HIDE DEF d
<1>4. cur \in d.edgeVersions /\ IsCurrent(cur) /\ cur.id = id
  BY <1>1 DEF CurrentRows
<1>5. /\ Admissible(d.nodeVersions, d.edgeVersions, id, value)
      /\ value.type # CHILD => value.position = NoPosition
  BY <1>1 DEF ValidateEdge, Admissible
<1>6. EdgeGraphAdmitted(d, id, value)
  BY <1>5 DEF EdgeGraphAdmitted, Admissible
<1>7. /\ Shape(d.nodeVersions, d.nodes, rows, d.edges, Rev)
      /\ ~tx.failed => Graph(d.nodeVersions, d.nodes, rows, d.edges)
  BY <1>2, <1>3, <1>4, <1>5, UpdateEdgeTables
<1>8. ok
  BY <1>2, <1>3, <1>4, <1>6, ReplaceIsAdmitted DEF Typed, Shape, EdgeRow
<1> HIDE DEF rows, ok
<1>9. /\ new.edgeVersions = rows /\ new.edges = d.edges
      /\ new.nodes = d.nodes /\ new.nodeVersions = d.nodeVersions
      /\ new.times = d.times /\ new.sealed = d.sealed
  BY <1>1 DEF Database
<1> HIDE DEF new
<1> QED BY <1>0, <1>7, <1>8, <1>9, MutateKeeps DEF d

\* What deleting the edges es makes of the transaction's tables.
LEMMA EdgesRetiredTables ==
    ASSUME JInv, tx.active, NEW now \in Clock, NEW es
    PROVE  LET d == EnsureRevision(now)
               new == [d EXCEPT !.edges = RetireIdentities(d.edgeVersions, @, es, Rev),
                                !.edgeVersions = RetireVersions(@, d.edges, es, Rev)]
           IN  /\ new.times = d.times /\ new.sealed = d.sealed
               /\ Shape(new.nodeVersions, new.nodes, new.edgeVersions, new.edges, Rev)
               /\ ~tx.failed => Graph(new.nodeVersions, new.nodes, new.edgeVersions, new.edges)
<1> DEFINE d == EnsureRevision(now)
           left == RetireIdentities(d.edgeVersions, d.edges, es, Rev)
           rows == RetireVersions(d.edgeVersions, d.edges, es, Rev)
           new == [d EXCEPT !.edges = left, !.edgeVersions = rows]
<1>1. /\ d \in Database
      /\ d.nodes = work.nodes /\ d.nodeVersions = work.nodeVersions
      /\ d.edges = work.edges /\ d.edgeVersions = work.edgeVersions
  BY EnsureFact DEF JInv
<1>2. Rev \in Nat \ {Null}
  BY JFacts
<1>3. /\ Typed(d.nodeVersions, d.nodes, d.edgeVersions, d.edges)
      /\ Shape(d.nodeVersions, d.nodes, d.edgeVersions, d.edges, Rev)
      /\ ~tx.failed => Graph(d.nodeVersions, d.nodes, d.edgeVersions, d.edges)
  BY <1>1, JFacts
<1> HIDE DEF d
<1>4. /\ Shape(d.nodeVersions, d.nodes, rows, left, Rev)
      /\ ~tx.failed => Graph(d.nodeVersions, d.nodes, rows, left)
  BY <1>2, <1>3, RetireEdgesTables
<1> HIDE DEF rows, left
<1>5. /\ new.edges = left /\ new.edgeVersions = rows
      /\ new.nodes = d.nodes /\ new.nodeVersions = d.nodeVersions
      /\ new.times = d.times /\ new.sealed = d.sealed
  BY <1>1 DEF Database
<1> HIDE DEF new
<1>6. /\ new.times = d.times /\ new.sealed = d.sealed
      /\ Shape(new.nodeVersions, new.nodes, new.edgeVersions, new.edges, Rev)
      /\ ~tx.failed => Graph(new.nodeVersions, new.nodes, new.edgeVersions, new.edges)
  BY <1>4, <1>5
<1> QED BY <1>6 DEF new, rows, left, d

\* DeleteEdge keeps the invariant.
LEMMA DeleteEdgeKeeps ==
    ASSUME JInv, IInv', NEW id \in EdgeIds, NEW now \in Clock, tx.active,
           LET d == EnsureRevision(now)
           IN  Mutate(now, RetireAdmitted(d, d.edgeVersions, d.edges, {id}, Rev),
                      [d EXCEPT !.edges = RetireIdentities(d.edgeVersions, @, {id}, Rev),
                                !.edgeVersions = RetireVersions(@, d.edges, {id}, Rev)])
    PROVE  JInv'
<1> DEFINE d == EnsureRevision(now)
           new == [d EXCEPT !.edges = RetireIdentities(d.edgeVersions, @, {id}, Rev),
                            !.edgeVersions = RetireVersions(@, d.edges, {id}, Rev)]
           ok == RetireAdmitted(d, d.edgeVersions, d.edges, {id}, Rev)
<1>0. Mutate(now, ok, new)
  OBVIOUS
<1>1. d.edges = work.edges /\ d.edgeVersions = work.edgeVersions
  BY EnsureFact DEF JInv
<1>2. IsActive(d, Rev) /\ Rev \in Nat \ {Null}
  BY EnsureActive, JFacts
<1>3. /\ d.edgeVersions \in SUBSET VersionRow(EdgeIds, EdgeValues) /\ d.edges \in [EdgeIds -> Nat]
      /\ TableSound(d.edgeVersions, d.edges, Rev)
  BY <1>1, JFacts DEF Typed, Shape, EdgeRow
<1>4. /\ new.times = d.times /\ new.sealed = d.sealed
      /\ Shape(new.nodeVersions, new.nodes, new.edgeVersions, new.edges, Rev)
      /\ ~tx.failed => Graph(new.nodeVersions, new.nodes, new.edgeVersions, new.edges)
  BY EdgesRetiredTables
<1> HIDE DEF d
<1>5. ok
  BY <1>2, <1>3, RetireIsAdmitted
<1> HIDE DEF ok, new
<1> QED BY <1>0, <1>4, <1>5, MutateKeeps DEF d

\* DeleteNode keeps the invariant.
LEMMA DeleteNodeKeeps ==
    ASSUME JInv, IInv', NEW id \in NodeIds, NEW now \in Clock, tx.active,
           LET d        == EnsureRevision(now)
               incident == IncidentEdges(d.edgeVersions, id)
               nodes    == RetireIdentities(d.nodeVersions, d.nodes, {id}, Rev)
               edgeRows == RetireVersions(d.edgeVersions, d.edges, incident, Rev)
           IN  Mutate(now,
                      /\ RetireAdmitted(d, d.edgeVersions, d.edges, incident, Rev)
                      /\ RetireAdmitted(d, d.nodeVersions, d.nodes, {id}, Rev)
                      /\ nodes[id] = Null => NodeUnreferenced(edgeRows, id),
                      [d EXCEPT !.nodes = nodes,
                                !.nodeVersions = RetireVersions(@, d.nodes, {id}, Rev),
                                !.edges = RetireIdentities(d.edgeVersions, @, incident, Rev),
                                !.edgeVersions = edgeRows]),
           CurrentRows(work.nodeVersions, id) # {}
    PROVE  JInv'
<1> DEFINE d == EnsureRevision(now)
           incident == IncidentEdges(d.edgeVersions, id)
           nodes == RetireIdentities(d.nodeVersions, d.nodes, {id}, Rev)
           nodeRows == RetireVersions(d.nodeVersions, d.nodes, {id}, Rev)
           edges == RetireIdentities(d.edgeVersions, d.edges, incident, Rev)
           edgeRows == RetireVersions(d.edgeVersions, d.edges, incident, Rev)
           new == [d EXCEPT !.nodes = nodes, !.nodeVersions = nodeRows,
                            !.edges = edges, !.edgeVersions = edgeRows]
           ok == /\ RetireAdmitted(d, d.edgeVersions, d.edges, incident, Rev)
                 /\ RetireAdmitted(d, d.nodeVersions, d.nodes, {id}, Rev)
                 /\ nodes[id] = Null => NodeUnreferenced(edgeRows, id)
<1>0. Mutate(now, ok, new)
  OBVIOUS
<1>1. /\ d \in Database
      /\ d.nodes = work.nodes /\ d.nodeVersions = work.nodeVersions
      /\ d.edges = work.edges /\ d.edgeVersions = work.edgeVersions
  BY EnsureFact DEF JInv
<1>2. IsActive(d, Rev) /\ Rev \in Nat \ {Null}
  BY EnsureActive, JFacts
<1>3. /\ Typed(d.nodeVersions, d.nodes, d.edgeVersions, d.edges)
      /\ Shape(d.nodeVersions, d.nodes, d.edgeVersions, d.edges, Rev)
      /\ ~tx.failed => Graph(d.nodeVersions, d.nodes, d.edgeVersions, d.edges)
  BY <1>1, JFacts
<1> HIDE DEF d
<1>4. /\ Shape(nodeRows, nodes, edgeRows, edges, Rev)
      /\ ~tx.failed => Graph(nodeRows, nodes, edgeRows, edges)
  BY <1>2, <1>3, DeleteNodeTables
<1>5. ok
  <2>1. RetireAdmitted(d, d.edgeVersions, d.edges, incident, Rev)
    <3> HIDE DEF incident
    <3> QED BY <1>2, <1>3, RetireIsAdmitted DEF Typed, Shape, EdgeRow
  <2>2. RetireAdmitted(d, d.nodeVersions, d.nodes, {id}, Rev)
    BY <1>2, <1>3, RetireIsAdmitted DEF Typed, Shape, NodeRow
  <2>3. ASSUME nodes[id] = Null PROVE NodeUnreferenced(edgeRows, id)
    <3>1. d.nodes[id] # Null
      BY <1>1, <1>3 DEF CurrentRows, Shape, TableSound, RowsFollowIdentity
    <3>2. d.nodes[id] = Rev
      BY <1>3, <2>3, <3>1 DEF RetireIdentities, Typed
    <3>3. \A f \in edgeRows : id \notin {f.value.from, f.value.to}
      BY <1>2, <1>3, <3>2, IdentityUnreferenced
    <3> QED BY <3>3 DEF NodeUnreferenced
  <2> QED BY <2>1, <2>2, <2>3
<1> HIDE DEF ok, nodes, nodeRows, edges, edgeRows
<1>6. /\ new.nodes = nodes /\ new.nodeVersions = nodeRows
      /\ new.edges = edges /\ new.edgeVersions = edgeRows
      /\ new.times = d.times /\ new.sealed = d.sealed
  BY <1>1 DEF Database
<1> HIDE DEF new
<1> QED BY <1>0, <1>4, <1>5, <1>6, MutateKeeps DEF d

\* A failed mutation leaves the tables, and one that breaks off leaves what the
\* triggers rely on.
LEMMA FailedKeeps ==
    ASSUME JInv, IInv', tx.active, db' = db, tx'.active, tx'.base = tx.base, tx'.failed,
           ~tx'.aborted,
           \/ work' = work /\ tx'.revision = tx.revision
           \/ /\ tx'.revision = Rev /\ Len(work'.times) = Rev /\ TimesIncrease(work')
              /\ work'.sealed = db.sealed
              /\ Shape(work'.nodeVersions, work'.nodes, work'.edgeVersions, work'.edges, Rev)
    PROVE  JInv'
<1>1. Rev' = Rev /\ Rev \in Nat \ {Null}
  BY JFacts DEF Rev
<1>2. DbSound'
  BY DEF JInv, DbSound
<1>3. WorkSound'
  <2>1. CASE work' = work /\ tx'.revision = tx.revision
    BY <1>1, <2>1 DEF JInv, WorkSound
  <2>2. CASE /\ tx'.revision = Rev /\ Len(work'.times) = Rev /\ TimesIncrease(work')
             /\ work'.sealed = db.sealed
             /\ Shape(work'.nodeVersions, work'.nodes, work'.edgeVersions, work'.edges, Rev)
    BY <1>1, <2>2 DEF WorkSound, TablesSound, Null
  <2> QED BY <2>1, <2>2
<1> QED BY <1>2, <1>3 DEF JInv

\* A call that is refused keeps the invariant.
LEMMA FailKeeps == ASSUME JInv, IInv', tx.active, Fail PROVE JInv'
<1>1. tx \in TxType
  BY DEF JInv, IInv
<1>2. /\ tx'.active = tx.active /\ tx'.base = tx.base /\ tx'.failed = TRUE
      /\ tx'.aborted = tx.aborted /\ tx'.revision = tx.revision
  BY <1>1 DEF Fail, TxType
<1> QED BY <1>2, FailedKeeps DEF Fail, JInv

\* A mutation that stops between two statements keeps the invariant if the tables
\* that it leaves have their shape.
LEMMA BreakOffKeeps ==
    ASSUME JInv, IInv', NEW now \in Clock, NEW result, BreakOff(now, result),
           result.times = EnsureRevision(now).times,
           result.sealed = EnsureRevision(now).sealed,
           Shape(result.nodeVersions, result.nodes, result.edgeVersions, result.edges, Rev)
    PROVE  JInv'
<1> DEFINE d == EnsureRevision(now)
<1>1. tx.active /\ db' = db /\ work' = result /\ tx \in TxType
  BY DEF BreakOff, JInv, IInv
<1>2. Len(d.times) = Rev /\ TimesIncrease(d) /\ d.sealed = db.sealed
  BY <1>1, EnsureActive
<1>3. /\ tx'.active = tx.active /\ tx'.base = tx.base /\ tx'.failed = TRUE
      /\ tx'.aborted = tx.aborted /\ tx'.revision = Rev
  BY <1>1 DEF BreakOff, TxType
<1> HIDE DEF d
<1>4. TimesIncrease(work')
  BY <1>1, <1>2 DEF TimesIncrease, d
<1> QED BY <1>1, <1>2, <1>3, <1>4, FailedKeeps DEF JInv, d

\* What a broken-off mutation starts from.
LEMMA BreakOffStart ==
    ASSUME JInv, NEW now \in Clock, tx.active
    PROVE  LET d == EnsureRevision(now)
           IN  /\ Rev \in Nat \ {Null} /\ d \in Database
               /\ d.nodes = work.nodes /\ d.nodeVersions = work.nodeVersions
               /\ d.edges = work.edges /\ d.edgeVersions = work.edgeVersions
               /\ Typed(d.nodeVersions, d.nodes, d.edgeVersions, d.edges)
               /\ Shape(d.nodeVersions, d.nodes, d.edgeVersions, d.edges, Rev)
<1> DEFINE d == EnsureRevision(now)
<1>1. /\ d \in Database
      /\ d.nodes = work.nodes /\ d.nodeVersions = work.nodeVersions
      /\ d.edges = work.edges /\ d.edgeVersions = work.edgeVersions
  BY EnsureFact DEF JInv
<1>2. Rev \in Nat \ {Null}
  BY JFacts
<1>3. /\ Typed(d.nodeVersions, d.nodes, d.edgeVersions, d.edges)
      /\ Shape(d.nodeVersions, d.nodes, d.edgeVersions, d.edges, Rev)
  BY <1>1, JFacts
<1> QED BY <1>1, <1>2, <1>3

\* A mutation of a node that stops between two statements keeps the invariant.
LEMMA BreakOffNodeKeeps ==
    ASSUME JInv, IInv', NEW id \in NodeIds, NEW now \in Clock, BreakOffNode(id, now)
    PROVE  JInv'
<1> DEFINE d == EnsureRevision(now)
           ids == [d.nodes EXCEPT ![id] = Rev]
           rows == CloseCurrent(d.nodeVersions, {id}, Rev)
<1>1. tx.active
  BY DEF BreakOffNode, BreakOff
<1>2. /\ Rev \in Nat \ {Null} /\ d \in Database
      /\ d.nodes = work.nodes /\ d.nodeVersions = work.nodeVersions
      /\ Typed(d.nodeVersions, d.nodes, d.edgeVersions, d.edges)
      /\ Shape(d.nodeVersions, d.nodes, d.edgeVersions, d.edges, Rev)
  BY <1>1, BreakOffStart
<1>3. CASE work.nodes[id] = Null /\ BreakOff(now, [d EXCEPT !.nodes = ids])
  <2> DEFINE new == [d EXCEPT !.nodes = ids]
  <2>1. Shape(d.nodeVersions, ids, d.edgeVersions, d.edges, Rev)
    BY <1>2, <1>3, LoneIdentityTables
  <2>2. /\ new.nodes = ids /\ new.nodeVersions = d.nodeVersions
        /\ new.edges = d.edges /\ new.edgeVersions = d.edgeVersions
        /\ new.times = d.times /\ new.sealed = d.sealed
    <3> HIDE DEF d, ids
    <3> QED BY <1>2 DEF Database
  <2> HIDE DEF ids
  <2>3. Shape(new.nodeVersions, new.nodes, new.edgeVersions, new.edges, Rev)
    BY <2>1, <2>2
  <2> QED BY <1>3, <2>2, <2>3, BreakOffKeeps
<1>4. CASE /\ \E v \in CurrentRows(work.nodeVersions, id) : v.valid_from # Rev
           /\ BreakOff(now, [d EXCEPT !.nodeVersions = rows])
  <2> DEFINE new == [d EXCEPT !.nodeVersions = rows]
  <2>1. Shape(rows, d.nodes, d.edgeVersions, d.edges, Rev)
    BY <1>2, <1>4, LoneCloseTables
  <2>2. /\ new.nodes = d.nodes /\ new.nodeVersions = rows
        /\ new.edges = d.edges /\ new.edgeVersions = d.edgeVersions
        /\ new.times = d.times /\ new.sealed = d.sealed
    <3> HIDE DEF d, rows
    <3> QED BY <1>2 DEF Database
  <2> HIDE DEF rows
  <2>3. Shape(new.nodeVersions, new.nodes, new.edgeVersions, new.edges, Rev)
    BY <2>1, <2>2
  <2> QED BY <1>4, <2>2, <2>3, BreakOffKeeps
<1>5. ASSUME NEW es,
             BreakOff(now,
                 [d EXCEPT !.edges = RetireIdentities(d.edgeVersions, @, es, Rev),
                           !.edgeVersions = RetireVersions(@, d.edges, es, Rev)])
      PROVE  JInv'
  <2> DEFINE new == [d EXCEPT !.edges = RetireIdentities(d.edgeVersions, @, es, Rev),
                              !.edgeVersions = RetireVersions(@, d.edges, es, Rev)]
  <2>1. /\ new.times = d.times /\ new.sealed = d.sealed
        /\ Shape(new.nodeVersions, new.nodes, new.edgeVersions, new.edges, Rev)
    BY <1>1, EdgesRetiredTables
  <2> QED BY <1>5, <2>1, BreakOffKeeps
<1> QED BY <1>3, <1>4, <1>5 DEF BreakOffNode

\* ... and so does one of an edge.
LEMMA BreakOffEdgeKeeps ==
    ASSUME JInv, IInv', NEW id \in EdgeIds, NEW now \in Clock, BreakOffEdge(id, now)
    PROVE  JInv'
<1> DEFINE d == EnsureRevision(now)
           ids == [d.edges EXCEPT ![id] = Rev]
           rows == CloseCurrent(d.edgeVersions, {id}, Rev)
<1>1. tx.active
  BY DEF BreakOffEdge, BreakOff
<1>2. /\ Rev \in Nat \ {Null} /\ d \in Database
      /\ d.edges = work.edges /\ d.edgeVersions = work.edgeVersions
      /\ Typed(d.nodeVersions, d.nodes, d.edgeVersions, d.edges)
      /\ Shape(d.nodeVersions, d.nodes, d.edgeVersions, d.edges, Rev)
  BY <1>1, BreakOffStart
<1>3. CASE work.edges[id] = Null /\ BreakOff(now, [d EXCEPT !.edges = ids])
  <2> DEFINE new == [d EXCEPT !.edges = ids]
  <2>1. Shape(d.nodeVersions, d.nodes, d.edgeVersions, ids, Rev)
    BY <1>2, <1>3, LoneEdgeIdentityTables
  <2>2. /\ new.edges = ids /\ new.nodeVersions = d.nodeVersions
        /\ new.nodes = d.nodes /\ new.edgeVersions = d.edgeVersions
        /\ new.times = d.times /\ new.sealed = d.sealed
    <3> HIDE DEF d, ids
    <3> QED BY <1>2 DEF Database
  <2> HIDE DEF ids
  <2>3. Shape(new.nodeVersions, new.nodes, new.edgeVersions, new.edges, Rev)
    BY <2>1, <2>2
  <2> QED BY <1>3, <2>2, <2>3, BreakOffKeeps
<1>4. CASE /\ \E cur \in CurrentRows(work.edgeVersions, id) : cur.valid_from # Rev
           /\ BreakOff(now, [d EXCEPT !.edgeVersions = rows])
  <2> DEFINE new == [d EXCEPT !.edgeVersions = rows]
  <2>1. Shape(d.nodeVersions, d.nodes, rows, d.edges, Rev)
    BY <1>2, <1>4, LoneEdgeCloseTables
  <2>2. /\ new.edges = d.edges /\ new.edgeVersions = rows
        /\ new.nodes = d.nodes /\ new.nodeVersions = d.nodeVersions
        /\ new.times = d.times /\ new.sealed = d.sealed
    <3> HIDE DEF d, rows
    <3> QED BY <1>2 DEF Database
  <2> HIDE DEF rows
  <2>3. Shape(new.nodeVersions, new.nodes, new.edgeVersions, new.edges, Rev)
    BY <2>1, <2>2
  <2> QED BY <1>4, <2>2, <2>3, BreakOffKeeps
<1> QED BY <1>3, <1>4 DEF BreakOffEdge

\* What was sound at a revision is sound at the next.
LEMMA ShapeNext ==
    ASSUME NEW N, NEW nodes, NEW E, NEW edges, NEW rev \in Nat,
           Typed(N, nodes, E, edges), Shape(N, nodes, E, edges, rev)
    PROVE  Shape(N, nodes, E, edges, rev + 1)
<1>1. \A v \in N : v.valid_from \in Nat /\ v.valid_to \in Nat
  BY DEF Typed, NodeRow, VersionRow
<1>2. \A v \in E : v.valid_from \in Nat /\ v.valid_to \in Nat
  BY DEF Typed, EdgeRow, VersionRow
<1>3. TableSound(N, nodes, rev + 1)
  BY <1>1 DEF Shape, TableSound
<1>4. TableSound(E, edges, rev + 1)
  BY <1>2 DEF Shape, TableSound
<1> QED BY <1>3, <1>4 DEF Shape

\* The transaction starts from the committed tables.
LEMMA BeginKeeps == ASSUME JInv, IInv', Begin PROVE JInv'
<1>1. db' = db /\ work' = db /\ db.sealed \in Nat /\ db \in Database
  BY DEF Begin, JInv, IInv, Sound, Database
<1>2. /\ tx'.active /\ tx'.base = db.sealed /\ tx'.revision = 0
      /\ ~tx'.failed /\ ~tx'.aborted
  BY DEF Begin, NoTx
<1>3. Rev' = db.sealed + 1
  BY <1>2 DEF Rev
<1>4. Typed(db.nodeVersions, db.nodes, db.edgeVersions, db.edges)
  BY <1>1 DEF Typed, Database, NodeRow, EdgeRow
<1>5. TablesSound(db, db.sealed + 1)
  BY <1>1, <1>4, ShapeNext DEF JInv, DbSound, TablesSound
<1>6. DbSound'
  BY <1>1 DEF JInv, DbSound
<1>7. WorkSound'
  BY <1>1, <1>2, <1>3, <1>5 DEF WorkSound, JInv, DbSound
<1> QED BY <1>2, <1>6, <1>7 DEF JInv

\* A rollback leaves the committed tables.
LEMMA DiscardKeeps == ASSUME JInv, IInv', db' = db, tx' = NoTx PROVE JInv'
<1>1. DbSound'
  BY DEF JInv, DbSound
<1>2. ~tx'.active /\ ~tx'.aborted
  BY DEF NoTx
<1> QED BY <1>1, <1>2 DEF JInv, WorkSound

\* In a table that a batch of revision rev left, what is current is what shows at rev.
LEMMA VisibleNow ==
    ASSUME NEW Ids, NEW Values, NEW T \in SUBSET VersionRow(Ids, Values), NEW created,
           NEW rev \in Nat, TableSound(T, created, rev), NEW v \in T
    PROVE  VisibleAt(v, rev) <=> IsCurrent(v)
<1>1. v.valid_from \in Nat /\ v.valid_to \in Nat
  BY DEF VersionRow
<1> QED BY <1>1 DEF TableSound, VisibleAt

\* No cycle among the current edges is no cycle in the graph that the batch shows.
LEMMA AcyclicNowShows ==
    ASSUME NEW E \in SUBSET EdgeRow, NEW edges, NEW rev \in Nat, TableSound(E, edges, rev),
           AcyclicNow(E)
    PROVE  Acyclic(ContentsAt(E, rev))
<1> SUFFICES ASSUME NEW S \in SUBSET NodeIds,
                    \A n \in S : \E p \in ContentsAt(E, rev) :
                       p[2].type = CHILD /\ p[2].from = n /\ p[2].to \in S
             PROVE  S = {}
  BY DEF Acyclic
<1>1. \A p \in ContentsAt(E, rev) : \E e \in E : IsCurrent(e) /\ p[2] = e.value
  <2>1. \A e \in E : VisibleAt(e, rev) <=> IsCurrent(e)
    BY VisibleNow DEF EdgeRow
  <2> QED BY <2>1 DEF ContentsAt
<1>2. \A n \in S : \E e \in E :
         IsCurrent(e) /\ e.value.type = CHILD /\ e.value.from = n /\ e.value.to \in S
  BY <1>1
<1> QED BY <1>2 DEF AcyclicNow

\* What the batch's revision would be sealed over.
LEMMA SealIsAdmitted ==
    ASSUME JInv, tx.active, ~tx.failed, tx.revision # 0, GraphChanged
    PROVE  SealAdmitted(work, tx.revision)
<1> DEFINE N == work.nodeVersions
           E == work.edgeVersions
<1>1. Rev \in Nat \ {Null} /\ Rev = db.sealed + 1 /\ db.sealed \in Nat
  BY JFacts
<1>2. tx.revision = Rev /\ Len(work.times) = Rev /\ work.sealed = db.sealed
  BY DEF JInv, WorkSound
<1>3. IsActive(work, Rev)
  BY <1>1, <1>2 DEF IsActive, MaxRow
<1>4. tx.base = Rev - 1
  BY <1>1 DEF JInv, IInv
<1>5. EndsSpan(N, E)
  BY JFacts DEF Graph
<1>6. \A e \in E : IsCurrent(e) =>
         \A n \in {e.value.from, e.value.to} : CurrentRows(N, n) # {}
  BY <1>5 DEF EndsSpan, Spans
<1>7. \A v \in N :
         v.valid_to = Rev /\ CurrentRows(N, v.id) = {} =>
            \A e \in E : IsCurrent(e) => v.id \notin {e.value.from, e.value.to}
  BY <1>6
<1>8. \A n : CurrentRows(N, n) # {} => n \in CurrentIds(N)
  BY DEF CurrentRows, CurrentIds
<1>9. \A e \in E : e.valid_from = Rev /\ IsCurrent(e) =>
         {e.value.from, e.value.to} \subseteq CurrentIds(N)
  BY <1>6, <1>8
<1>10. TableChanged(N, Rev - 1, Rev) \/ TableChanged(E, Rev - 1, Rev)
  BY <1>2, <1>4 DEF GraphChanged
<1> QED BY <1>2, <1>3, <1>7, <1>9, <1>10 DEF SealAdmitted

\* The tables that a commit publishes are sound.
LEMMA CommitKeeps ==
    ASSUME JInv, IInv', CommitRevision
    PROVE  JInv' /\ db' = [work EXCEPT !.sealed = Rev]
<1>1. tx.active /\ ~tx.failed /\ tx.revision # 0 /\ GraphChanged /\ tx' = NoTx
  BY DEF CommitRevision
<1>2. tx.revision = Rev /\ Len(work.times) = Rev /\ TimesIncrease(work)
  BY <1>1 DEF JInv, WorkSound
<1>3. db' = [work EXCEPT !.sealed = Rev]
  BY <1>1, <1>2, SealIsAdmitted DEF CommitRevision
<1>4. /\ Rev \in Nat \ {Null} /\ Rev = db.sealed + 1 /\ db.sealed \in Nat
      /\ Typed(work.nodeVersions, work.nodes, work.edgeVersions, work.edges)
      /\ Shape(work.nodeVersions, work.nodes, work.edgeVersions, work.edges, Rev)
      /\ Graph(work.nodeVersions, work.nodes, work.edgeVersions, work.edges)
  BY <1>1, JFacts
<1>5. /\ db'.times = work.times /\ db'.sealed = Rev
      /\ db'.nodes = work.nodes /\ db'.nodeVersions = work.nodeVersions
      /\ db'.edges = work.edges /\ db'.edgeVersions = work.edgeVersions
  BY <1>3 DEF JInv, IInv, Sound, Database
<1>6. \A r \in 1..Rev : Acyclic(ContentsAt(work.edgeVersions, r))
  <2> SUFFICES ASSUME NEW r \in 1..Rev PROVE Acyclic(ContentsAt(work.edgeVersions, r))
    OBVIOUS
  <2>1. CASE r = Rev
    BY <1>4, <2>1, AcyclicNowShows DEF Typed, Shape, Graph
  <2>2. CASE r # Rev
    <3>1. r \in 1..db.sealed /\ r \in Nat /\ r < db.sealed + 1
      BY <1>4, <2>2
    <3>2. ContentsAt(work.edgeVersions, r) = ContentsAt(db.edgeVersions, r)
      BY <3>1 DEF JInv, IInv, Agrees, SameBefore
    <3>3. Acyclic(ContentsAt(db.edgeVersions, r))
      BY <3>1 DEF JInv, DbSound
    <3> QED BY <3>2, <3>3
  <2> QED BY <2>1, <2>2
<1>7. TimesIncrease(db')
  BY <1>2, <1>5 DEF TimesIncrease
<1>8. DbSound'
  BY <1>2, <1>4, <1>5, <1>6, <1>7 DEF DbSound, TablesSound, GraphSound
<1>9. ~tx'.active /\ ~tx'.aborted
  BY <1>1 DEF NoTx
<1> QED BY <1>3, <1>8, <1>9 DEF JInv, WorkSound

\* An empty database is sound.
LEMMA InitKeeps == ASSUME Init PROVE JInv
<1>1. db = EmptyDatabase /\ work = db /\ tx = NoTx
  BY DEF Init
<1>2. ~tx.active /\ ~tx.aborted
  BY <1>1 DEF NoTx
<1>3. /\ db.times = <<>> /\ db.sealed = 0 /\ db.nodeVersions = {} /\ db.edgeVersions = {}
      /\ db.nodes = [n \in NodeIds |-> Null] /\ db.edges = [e \in EdgeIds |-> Null]
  BY <1>1 DEF EmptyDatabase
<1>4. Len(db.times) = db.sealed /\ TimesIncrease(db)
  BY <1>3 DEF TimesIncrease
<1>5. TablesSound(db, db.sealed)
  BY <1>3 DEF TablesSound, Shape, TableSound, RowsFollowIdentity, Refs
<1>6. GraphSound(db)
  BY <1>3 DEF GraphSound, Graph, EveryIdentityHasRow, EndsSpan, Parents, AcyclicNow
<1>7. \A r \in 1..db.sealed : Acyclic(ContentsAt(db.edgeVersions, r))
  BY <1>3
<1> QED BY <1>2, <1>4, <1>5, <1>6, <1>7, InitStep DEF JInv, DbSound, WorkSound

\* Every mutation keeps the invariant.
LEMMA MutationKeeps == ASSUME JInv, IInv', Mutation PROVE JInv'
<1>1. ASSUME NEW now \in Clock, NEW id \in NodeIds, NEW value \in NodeValues,
             CreateNode(id, value, now)
      PROVE  JInv'
  BY <1>1, CreateNodeKeeps, FailKeeps DEF CreateNode
<1>2. ASSUME NEW now \in Clock, NEW id \in NodeIds, NEW value \in NodeValues,
             UpdateNode(id, value, now)
      PROVE  JInv'
  BY <1>2, UpdateNodeKeeps, FailKeeps DEF UpdateNode
<1>3. ASSUME NEW now \in Clock, NEW id \in NodeIds, DeleteNode(id, now)
      PROVE  JInv'
  BY <1>3, DeleteNodeKeeps, FailKeeps DEF DeleteNode
<1>4. ASSUME NEW now \in Clock, NEW id \in EdgeIds, NEW value \in EdgeValues,
             CreateEdge(id, value, now)
      PROVE  JInv'
  BY <1>4, CreateEdgeKeeps, FailKeeps DEF CreateEdge
<1>5. ASSUME NEW now \in Clock, NEW id \in EdgeIds, NEW value \in EdgeValues,
             UpdateEdge(id, value, now)
      PROVE  JInv'
  BY <1>5, UpdateEdgeKeeps, FailKeeps DEF UpdateEdge
<1>6. ASSUME NEW now \in Clock, NEW id \in EdgeIds, DeleteEdge(id, now)
      PROVE  JInv'
  BY <1>6, DeleteEdgeKeeps, FailKeeps DEF DeleteEdge
<1> QED BY <1>1, <1>2, <1>3, <1>4, <1>5, <1>6, BreakOffNodeKeeps, BreakOffEdgeKeeps DEF Mutation

\* Every step keeps the invariant.
LEMMA NextKeeps == ASSUME JInv, [Next]_vars PROVE JInv'
<1>0. IInv'
  BY NextStep DEF JInv
<1>1. CASE UNCHANGED vars
  <2>1. Rev' = Rev
    BY <1>1 DEF vars, Rev
  <2> QED BY <1>0, <1>1, <2>1 DEF vars, JInv, DbSound, WorkSound
<1>2. CASE Begin
  BY <1>0, <1>2, BeginKeeps
<1>3. CASE Mutation
  BY <1>0, <1>3, MutationKeeps
<1>4. CASE RejectInput
  BY <1>0, <1>4, FailKeeps DEF RejectInput
<1>5. CASE Rollback \/ ReturnFailure \/ CommitNothing
  BY <1>0, <1>5, DiscardKeeps DEF Rollback, ReturnFailure, CommitNothing
<1>6. CASE CommitRevision
  BY <1>0, <1>6, CommitKeeps
<1> QED BY <1>1, <1>2, <1>3, <1>4, <1>5, <1>6 DEF Next

\* The tables of Store.Write are sound in every state of every behaviour.
THEOREM TablesStaySound == Spec => []JInv
<1>1. Init => JInv
  BY InitKeeps
<1>2. JInv /\ [Next]_vars => JInv'
  BY NextKeeps
<1> QED BY <1>1, <1>2, PTL DEF Spec

-----------------------------------------------------------------------------
(* The integrity check *)

\* entityHistoryValid asks for what TableSound says.
LEMMA HistoryIsValid ==
    ASSUME NEW Ids, NEW Values, NEW T \in SUBSET VersionRow(Ids, Values),
           NEW created \in [Ids -> Nat], NEW rev, TableSound(T, created, rev),
           EveryIdentityHasRow(T, created)
    PROVE  EntityHistoryValid(T, created)
<1>1. \A v \in T : v.valid_from \in Nat /\ v.valid_to \in Nat /\ created[v.id] \in Nat
  BY DEF VersionRow
<1>2. ASSUME NEW v \in T
      PROVE  LET earlier == {w \in T : w.id = v.id /\ w.valid_from < v.valid_from}
             IN  \/ earlier = {} /\ v.valid_from = created[v.id]
                 \/ \E p \in earlier : /\ \A w \in earlier : w.valid_from <= p.valid_from
                                       /\ p.valid_to = v.valid_from
  <2> DEFINE earlier == {w \in T : w.id = v.id /\ w.valid_from < v.valid_from}
  <2>1. CASE v.valid_from = created[v.id]
    <3>1. \A w \in T : w.id = v.id => ~(w.valid_from < v.valid_from)
      BY <1>1, <2>1 DEF TableSound, RowsFollowIdentity
    <3> QED BY <2>1, <3>1
  <2>2. CASE v.valid_from # created[v.id]
    <3>1. PICK p \in T : p.id = v.id /\ p.valid_to = v.valid_from /\ p.valid_from < v.valid_from
      BY <2>2 DEF TableSound
    <3>2. ASSUME NEW w \in T, w.id = v.id, w.valid_from < v.valid_from
          PROVE  w.valid_from <= p.valid_from
      <4>1. p.valid_from < w.valid_from => p.valid_to <= w.valid_from
        BY <3>1, <3>2 DEF TableSound
      <4> QED BY <1>1, <3>1, <3>2, <4>1
    <3> QED BY <3>1, <3>2
  <2> QED BY <2>1, <2>2
<1> QED BY <1>2 DEF EntityHistoryValid, EveryIdentityHasRow

\* Every check of validateDataIntegrity passes.
LEMMA IntegrityFact == ASSUME JInv PROVE IntegrityHolds
<1>1. /\ db \in Database /\ Len(db.times) = db.sealed /\ TimesIncrease(db)
      /\ Shape(db.nodeVersions, db.nodes, db.edgeVersions, db.edges, db.sealed)
      /\ Graph(db.nodeVersions, db.nodes, db.edgeVersions, db.edges)
      /\ \A r \in 1..db.sealed : Acyclic(ContentsAt(db.edgeVersions, r))
  BY DEF JInv, IInv, Sound, DbSound, TablesSound, GraphSound
<1>2. /\ db.times \in Seq(Nat)
      /\ db.nodeVersions \in SUBSET VersionRow(NodeIds, NodeValues) /\ db.nodes \in [NodeIds -> Nat]
      /\ db.edgeVersions \in SUBSET VersionRow(EdgeIds, EdgeValues) /\ db.edges \in [EdgeIds -> Nat]
  BY <1>1 DEF Database
<1>3. RevisionHistoryValid(db)
  <2>1. \A r \in 2..Len(db.times) : r - 1 \in DOMAIN db.times /\ r \in DOMAIN db.times /\ r - 1 < r
    BY <1>2
  <2> QED BY <1>1, <2>1 DEF RevisionHistoryValid, TimesIncrease
<1>4. EntityHistoryValid(db.nodeVersions, db.nodes)
  BY <1>1, <1>2, HistoryIsValid DEF Shape, Graph
<1>5. EntityHistoryValid(db.edgeVersions, db.edges)
  BY <1>1, <1>2, HistoryIsValid DEF Shape, Graph
<1>6. EndpointLifetimeValid(db)
  BY <1>1 DEF Graph, EndsSpan, Spans, EndpointLifetimeValid
<1>7. ParentUniqueValid(db)
  BY <1>1 DEF Graph, Parents, ParentUniqueValid
<1>8. ChildAcyclicValid(db)
  <2> SUFFICES ASSUME NEW r \in DOMAIN db.times, NEW S \in SUBSET NodeIds,
                      \A n \in S : \E e \in db.edgeVersions :
                         /\ VisibleAt(e, r) /\ e.value.type = CHILD
                         /\ e.value.from = n /\ e.value.to \in S
               PROVE  S = {}
    BY DEF ChildAcyclicValid
  <2>1. Acyclic(ContentsAt(db.edgeVersions, r))
    BY <1>1, <1>2
  <2>2. \A e \in db.edgeVersions : VisibleAt(e, r) =>
           <<e.id, e.value>> \in ContentsAt(db.edgeVersions, r) /\ <<e.id, e.value>>[2] = e.value
    BY DEF ContentsAt
  <2>3. \A n \in S : \E p \in ContentsAt(db.edgeVersions, r) :
           p[2].type = CHILD /\ p[2].from = n /\ p[2].to \in S
    <3> SUFFICES ASSUME NEW n \in S
                 PROVE  \E p \in ContentsAt(db.edgeVersions, r) :
                           p[2].type = CHILD /\ p[2].from = n /\ p[2].to \in S
      OBVIOUS
    <3>1. PICK e \in db.edgeVersions : /\ VisibleAt(e, r) /\ e.value.type = CHILD
                                       /\ e.value.from = n /\ e.value.to \in S
      OBVIOUS
    <3>2. /\ <<e.id, e.value>> \in ContentsAt(db.edgeVersions, r)
          /\ <<e.id, e.value>>[2] = e.value
      BY <2>2, <3>1
    <3> QED BY <3>1, <3>2
  <2> QED BY <2>1, <2>3 DEF Acyclic
<1> QED BY <1>3, <1>4, <1>5, <1>6, <1>7, <1>8 DEF IntegrityHolds, DataIntegrity

\* A database that only Store.Write has written passes its integrity check
\* (validateDataIntegrity), whatever batches, failures and crashes produced it.
THEOREM IntegrityAlwaysHolds == Spec => []IntegrityHolds
<1>1. JInv => IntegrityHolds
  BY IntegrityFact
<1> QED BY <1>1, TablesStaySound, PTL

\* No trigger, CHECK or unique index of the schema refuses what the Go checks of a
\* mutation admitted, nor the sealing of a batch that changed something.
THEOREM NoTriggerAborts == Spec => []TriggersNeverAbort
<1>1. JInv => TriggersNeverAbort
  BY SealIsAdmitted DEF JInv, TriggersNeverAbort
<1> QED BY <1>1, TablesStaySound, PTL

-----------------------------------------------------------------------------
(* Commit *)

\* Comparing only the touched entities finds every difference: what a batch did
\* not touch reads at its revision as it did at its base.
LEMMA UnchangedReadsAlike ==
    ASSUME NEW Ids, NEW Values, NEW T \in SUBSET VersionRow(Ids, Values), NEW created,
           NEW base \in Nat, TableSound(T, created, base + 1),
           ~TableChanged(T, base, base + 1)
    PROVE  ContentsAt(T, base + 1) = ContentsAt(T, base)
<1> DEFINE rev == base + 1
<1>0. \A v \in T : v.valid_from \in Nat /\ v.valid_to \in Nat /\ v.valid_from <= rev
  BY DEF VersionRow, TableSound
<1>1. \A v \in T : v.id \notin Touched(T, rev) => (VisibleAt(v, base) <=> VisibleAt(v, rev))
  BY <1>0 DEF Touched, VisibleAt, IsCurrent, Null
<1>2. \A id \in Touched(T, rev) : ValuesAt(T, id, base) = ValuesAt(T, id, rev)
  BY DEF TableChanged
<1>3. ASSUME NEW q, NEW r, NEW v \in T, VisibleAt(v, q),
             ValuesAt(T, v.id, q) = ValuesAt(T, v.id, r)
      PROVE  \E w \in T : VisibleAt(w, r) /\ w.id = v.id /\ w.value = v.value
  <2>1. v.value \in ValuesAt(T, v.id, q)
    BY <1>3 DEF ValuesAt
  <2>2. v.value \in ValuesAt(T, v.id, r)
    BY <1>3, <2>1
  <2> QED BY <2>2 DEF ValuesAt
<1> HIDE DEF rev
<1>4. \A v \in T : VisibleAt(v, base) =>
         \E w \in T : VisibleAt(w, rev) /\ w.id = v.id /\ w.value = v.value
  BY <1>1, <1>2, <1>3
<1>5. \A v \in T : VisibleAt(v, rev) =>
         \E w \in T : VisibleAt(w, base) /\ w.id = v.id /\ w.value = v.value
  BY <1>1, <1>2, <1>3
<1>6. ContentsAt(T, rev) = ContentsAt(T, base)
  BY <1>4, <1>5 DEF ContentsAt
<1> QED BY <1>6 DEF rev

\* A Write that succeeds leaves, as the newest revision of the database, exactly the
\* graph that its callback saw last.
THEOREM CommitKeepsTheBatch == Spec => CommitKeepsBatch
<1>1. ASSUME JInv, [Next]_vars
      PROVE  [CommitNothing \/ CommitRevision => CurrentGraph(db') = CurrentGraph(work)]_vars
  <2>0. IInv'
    BY <1>1, NextStep DEF JInv
  <2>1. ASSUME CommitRevision PROVE CurrentGraph(db') = CurrentGraph(work)
    <3>1. db' = [work EXCEPT !.sealed = Rev]
      BY <1>1, <2>0, <2>1, CommitKeeps
    <3>2. /\ db'.times = work.times /\ db'.nodeVersions = work.nodeVersions
          /\ db'.edgeVersions = work.edgeVersions
      BY <1>1, <3>1 DEF JInv, IInv, Sound, Database
    <3> QED BY <3>2 DEF CurrentGraph, GraphAt, MaxRow
  <2>2. ASSUME CommitNothing PROVE CurrentGraph(db') = CurrentGraph(work)
    <3>1. tx.active /\ db' = db /\ (tx.revision = 0 \/ ~GraphChanged)
      BY <2>2 DEF CommitNothing
    <3>2. CASE tx.revision = 0
      BY <1>1, <3>1, <3>2 DEF JInv, WorkSound
    <3>3. CASE tx.revision # 0
      <4>1. /\ Rev = tx.base + 1 /\ tx.base \in Nat /\ tx.base = db.sealed
            /\ tx.revision = Rev /\ Len(work.times) = Rev /\ Len(db.times) = db.sealed
        BY <1>1, <3>1, <3>3 DEF JInv, IInv, TxType, Rev, WorkSound, DbSound
      <4>2. /\ work.nodeVersions \in SUBSET VersionRow(NodeIds, NodeValues)
            /\ TableSound(work.nodeVersions, work.nodes, tx.base + 1)
        BY <1>1, <3>1, <4>1, JFacts DEF Typed, NodeRow, Shape
      <4>3. /\ work.edgeVersions \in SUBSET VersionRow(EdgeIds, EdgeValues)
            /\ TableSound(work.edgeVersions, work.edges, tx.base + 1)
        BY <1>1, <3>1, <4>1, JFacts DEF Typed, EdgeRow, Shape
      <4>4. ContentsAt(work.nodeVersions, tx.base + 1) = ContentsAt(work.nodeVersions, tx.base)
        <5>1. ~TableChanged(work.nodeVersions, tx.base, tx.base + 1) /\ tx.base \in Nat
          BY <3>1, <3>3, <4>1 DEF GraphChanged
        <5> QED BY <4>2, <5>1, UnchangedReadsAlike
      <4>5. ContentsAt(work.edgeVersions, tx.base + 1) = ContentsAt(work.edgeVersions, tx.base)
        <5>1. ~TableChanged(work.edgeVersions, tx.base, tx.base + 1) /\ tx.base \in Nat
          BY <3>1, <3>3, <4>1 DEF GraphChanged
        <5> QED BY <4>3, <5>1, UnchangedReadsAlike
      <4>6. tx.base < db.sealed + 1
        BY <4>1
      <4>7. /\ ContentsAt(work.nodeVersions, tx.base) = ContentsAt(db.nodeVersions, tx.base)
            /\ ContentsAt(work.edgeVersions, tx.base) = ContentsAt(db.edgeVersions, tx.base)
        BY <1>1, <4>1, <4>6 DEF JInv, IInv, Agrees, SameBefore
      <4>8. CurrentGraph(work) = GraphAt(work, tx.base + 1) /\ CurrentGraph(db) = GraphAt(db, tx.base)
        BY <4>1 DEF CurrentGraph, MaxRow
      <4>9. GraphAt(work, tx.base + 1) = GraphAt(db, tx.base)
        BY <4>4, <4>5, <4>7 DEF GraphAt
      <4> QED BY <3>1, <4>8, <4>9
    <3> QED BY <3>2, <3>3
  <2> QED BY <2>1, <2>2
<1> QED BY <1>1, TablesStaySound, PTL DEF Spec, CommitKeepsBatch

-----------------------------------------------------------------------------
(* The store is an append-only history of graphs *)

\* One version of an entity shows at a revision.
LEMMA OneVersionShown ==
    ASSUME NEW Ids, NEW Values, NEW T \in SUBSET VersionRow(Ids, Values), NEW created,
           NEW rev \in Nat, TableSound(T, created, rev),
           NEW p \in ContentsAt(T, rev), NEW q \in ContentsAt(T, rev), p[1] = q[1]
    PROVE  p = q
<1>1. PICK v \in T : VisibleAt(v, rev) /\ p = <<v.id, v.value>>
  BY DEF ContentsAt
<1>2. PICK w \in T : VisibleAt(w, rev) /\ q = <<w.id, w.value>>
  BY DEF ContentsAt
<1>3. v.id = w.id
  BY <1>1, <1>2
<1>4. IsCurrent(v) /\ IsCurrent(w)
  BY <1>1, <1>2, VisibleNow
<1>5. v = w
  BY <1>3, <1>4, LastRow
<1> QED BY <1>1, <1>2, <1>5

\* A table that changed shows something else than before.
LEMMA ChangeShows ==
    ASSUME NEW T, NEW q, NEW r, TableChanged(T, q, r)
    PROVE  ContentsAt(T, q) # ContentsAt(T, r)
<1>1. PICK id : ValuesAt(T, id, q) # ValuesAt(T, id, r)
  BY DEF TableChanged
<1>2. ASSUME NEW s, NEW c PROVE c \in ValuesAt(T, id, s) <=> <<id, c>> \in ContentsAt(T, s)
  <2>1. c \in ValuesAt(T, id, s) <=> \E v \in T : v.id = id /\ VisibleAt(v, s) /\ v.value = c
    BY DEF ValuesAt
  <2>2. <<id, c>> \in ContentsAt(T, s)
           <=> \E v \in T : VisibleAt(v, s) /\ <<id, c>> = <<v.id, v.value>>
    BY DEF ContentsAt
  <2>3. \A v \in T : <<id, c>> = <<v.id, v.value>> <=> (v.id = id /\ v.value = c)
    OBVIOUS
  <2> QED BY <2>1, <2>2, <2>3
<1>3. ASSUME ContentsAt(T, q) = ContentsAt(T, r) PROVE FALSE
  <2>1. \A c : c \in ValuesAt(T, id, q) <=> c \in ValuesAt(T, id, r)
    BY <1>2, <1>3
  <2> QED BY <1>1, <2>1
<1> QED BY <1>3

\* Nothing shows before the first revision.
LEMMA NothingAtZero ==
    ASSUME NEW Ids, NEW Values, NEW T \in SUBSET VersionRow(Ids, Values),
           NEW created \in [Ids -> Nat], NEW rev, TableSound(T, created, rev)
    PROVE  ContentsAt(T, 0) = {}
<1>1. \A v \in T : v.id \in Ids /\ v.valid_from \in Nat /\ created[v.id] \in Nat
  BY DEF VersionRow
<1>2. \A v \in T : ~VisibleAt(v, 0)
  BY <1>1 DEF TableSound, RowsFollowIdentity, VisibleAt, Null
<1> QED BY <1>2 DEF ContentsAt

\* An entity that shows at a revision and showed earlier showed just before.
LEMMA NoReturn ==
    ASSUME NEW Ids, NEW Values, NEW T \in SUBSET VersionRow(Ids, Values),
           NEW created \in [Ids -> Nat], NEW base \in Nat, TableSound(T, created, base + 1),
           NEW q \in Nat, q <= base,
           NEW x \in ContentsAt(T, q), NEW y \in ContentsAt(T, base + 1), x[1] = y[1]
    PROVE  \E z \in ContentsAt(T, base) : z[1] = y[1]
<1> DEFINE rev == base + 1
<1>0. \A v \in T : v.id \in Ids /\ v.valid_from \in Nat /\ v.valid_to \in Nat /\ created[v.id] \in Nat
  BY DEF VersionRow
<1>1. PICK v \in T : VisibleAt(v, q) /\ x = <<v.id, v.value>>
  BY DEF ContentsAt
<1>2. PICK w \in T : VisibleAt(w, rev) /\ y = <<w.id, w.value>>
  BY DEF ContentsAt
<1>3. v.id = w.id /\ y[1] = w.id
  BY <1>1, <1>2
<1>4. \E z \in T : z.id = w.id /\ VisibleAt(z, base)
  <2>1. CASE w.valid_from < rev
    BY <1>0, <1>2, <2>1 DEF VisibleAt
  <2>2. CASE ~(w.valid_from < rev)
    <3>1. w.valid_from = rev
      BY <1>0, <1>2, <2>2 DEF VisibleAt
    <3>2. w.valid_from # created[w.id]
      BY <1>0, <1>1, <1>3, <3>1 DEF TableSound, RowsFollowIdentity, VisibleAt
    <3>3. PICK z \in T : z.id = w.id /\ z.valid_to = rev /\ z.valid_from < rev
      BY <3>1, <3>2 DEF TableSound
    <3> QED BY <1>0, <3>3 DEF VisibleAt
  <2> QED BY <2>1, <2>2
<1>5. PICK z \in T : z.id = w.id /\ VisibleAt(z, base)
  BY <1>4
<1>6. <<z.id, z.value>> \in ContentsAt(T, base) /\ <<z.id, z.value>>[1] = w.id
  BY <1>5 DEF ContentsAt
<1> QED BY <1>3, <1>6

\* The graph of a batch that may be committed is well formed.
LEMMA WorkWellFormed ==
    ASSUME NEW d, NEW rev \in Nat,
           Typed(d.nodeVersions, d.nodes, d.edgeVersions, d.edges),
           Shape(d.nodeVersions, d.nodes, d.edgeVersions, d.edges, rev),
           Graph(d.nodeVersions, d.nodes, d.edgeVersions, d.edges)
    PROVE  Abstract!WellFormed(GraphAt(d, rev))
<1> DEFINE N == d.nodeVersions
           E == d.edgeVersions
           g == GraphAt(d, rev)
<1>1. /\ N \in SUBSET VersionRow(NodeIds, NodeValues) /\ TableSound(N, d.nodes, rev)
      /\ E \in SUBSET VersionRow(EdgeIds, EdgeValues) /\ TableSound(E, d.edges, rev)
      /\ EndsSpan(N, E) /\ Parents(E) /\ AcyclicNow(E)
  BY DEF Typed, Shape, Graph, NodeRow, EdgeRow
<1>2. g.nodes = ContentsAt(N, rev) /\ g.edges = ContentsAt(E, rev)
  BY DEF GraphAt
<1> HIDE DEF g, N, E
<1>3. Abstract!OneVersionEach(g.nodes)
  BY <1>1, <1>2, OneVersionShown DEF Abstract!OneVersionEach
<1>4. Abstract!OneVersionEach(g.edges)
  BY <1>1, <1>2, OneVersionShown DEF Abstract!OneVersionEach
<1>5. \A x \in ContentsAt(E, rev) : \E e \in E : IsCurrent(e) /\ x = <<e.id, e.value>>
  <2>1. \A e \in E : VisibleAt(e, rev) => IsCurrent(e)
    BY <1>1, VisibleNow
  <2> QED BY <2>1 DEF ContentsAt
<1>6. Abstract!EndpointsPresent(g)
  <2> SUFFICES ASSUME NEW x \in ContentsAt(E, rev), NEW n \in {x[2].from, x[2].to}
               PROVE  \E p \in ContentsAt(N, rev) : n = p[1]
    BY <1>2 DEF Abstract!EndpointsPresent, Abstract!Ids
  <2>1. PICK e \in E : IsCurrent(e) /\ x = <<e.id, e.value>>
    BY <1>5
  <2>2. n \in {e.value.from, e.value.to}
    BY <2>1
  <2>3. PICK v \in N : v.id = n /\ IsCurrent(v)
    BY <1>1, <2>1, <2>2 DEF EndsSpan, Spans, CurrentRows
  <2>4. VisibleAt(v, rev)
    BY <1>1, <2>3, VisibleNow
  <2>5. <<v.id, v.value>> \in ContentsAt(N, rev) /\ <<v.id, v.value>>[1] = n
    BY <2>3, <2>4 DEF ContentsAt
  <2> QED BY <2>5
<1>7. Abstract!OneParentEach(g)
  <2> SUFFICES ASSUME NEW x \in ContentsAt(E, rev), NEW y \in ContentsAt(E, rev),
                      x[2].type = CHILD, y[2].type = CHILD, x[2].to = y[2].to
               PROVE  x = y
    BY <1>2 DEF Abstract!OneParentEach, Abstract!ChildPairs, CHILD
  <2>1. PICK e \in E : IsCurrent(e) /\ x = <<e.id, e.value>>
    BY <1>5
  <2>2. PICK f \in E : IsCurrent(f) /\ y = <<f.id, f.value>>
    BY <1>5
  <2>3. e.id = f.id
    BY <1>1, <2>1, <2>2 DEF Parents
  <2> QED BY <1>1, <2>1, <2>2, <2>3, OneVersionShown
<1>8. Abstract!ChildAcyclic(g)
  <2>1. Acyclic(ContentsAt(E, rev))
    BY <1>1, AcyclicNowShows DEF EdgeRow
  <2> SUFFICES ASSUME NEW S \in SUBSET NodeIds,
                      \A n \in S : \E x \in Abstract!ChildPairs(g) : x[2].from = n /\ x[2].to \in S
               PROVE  S = {}
    BY DEF Abstract!ChildAcyclic
  <2>2. \A n \in S : \E x \in ContentsAt(E, rev) :
           x[2].type = CHILD /\ x[2].from = n /\ x[2].to \in S
    BY <1>2 DEF Abstract!ChildPairs, CHILD
  <2> QED BY <2>1, <2>2 DEF Acyclic
<1> QED BY <1>3, <1>4, <1>6, <1>7, <1>8 DEF Abstract!WellFormed, g

\* A commit appends one graph to the history.
LEMMA CommitAppends == ASSUME JInv, IInv', CommitRevision PROVE Abstract!Append1
<1> DEFINE n == db.sealed
           h == History
           k == History'
<1>1. tx.active /\ ~tx.failed /\ GraphChanged
  BY DEF CommitRevision
<1>2. /\ Rev = n + 1 /\ n \in Nat /\ tx.base = n
      /\ Typed(work.nodeVersions, work.nodes, work.edgeVersions, work.edges)
      /\ Shape(work.nodeVersions, work.nodes, work.edgeVersions, work.edges, n + 1)
      /\ Graph(work.nodeVersions, work.nodes, work.edgeVersions, work.edges)
  BY <1>1, JFacts DEF JInv, IInv
<1>3. /\ work.nodeVersions \in SUBSET VersionRow(NodeIds, NodeValues)
      /\ work.nodes \in [NodeIds -> Nat]
      /\ TableSound(work.nodeVersions, work.nodes, n + 1)
  BY <1>2 DEF Typed, Shape, NodeRow
<1>4. /\ work.edgeVersions \in SUBSET VersionRow(EdgeIds, EdgeValues)
      /\ work.edges \in [EdgeIds -> Nat]
      /\ TableSound(work.edgeVersions, work.edges, n + 1)
  BY <1>2 DEF Typed, Shape, EdgeRow
<1>5. /\ db'.sealed = n + 1
      /\ db'.nodeVersions = work.nodeVersions /\ db'.edgeVersions = work.edgeVersions
  <2>1. db' = [work EXCEPT !.sealed = Rev]
    BY CommitKeeps
  <2> QED BY <1>2, <2>1 DEF JInv, IInv, Sound, Database
<1>6. \A r : GraphAt(db', r) = GraphAt(work, r)
  BY <1>5 DEF GraphAt
<1>7. /\ h = [r \in 1..n |-> GraphAt(db, r)]
      /\ k = [r \in 1..(n + 1) |-> GraphAt(db', r)]
  BY <1>5 DEF History
<1> HIDE DEF h, k
<1>8. Len(h) = n /\ Len(k) = n + 1
  BY <1>2, <1>7
<1>9. \A r \in 1..(n + 1) : /\ k[r].nodes = ContentsAt(work.nodeVersions, r)
                            /\ k[r].edges = ContentsAt(work.edgeVersions, r)
  BY <1>6, <1>7 DEF GraphAt
<1>10. \A q \in 1..n : k[q] = h[q]
  <2> SUFFICES ASSUME NEW q \in 1..n PROVE GraphAt(db', q) = GraphAt(db, q)
    BY <1>2, <1>7
  <2>1. q \in Nat /\ q < n + 1
    BY <1>2
  <2>2. /\ ContentsAt(work.nodeVersions, q) = ContentsAt(db.nodeVersions, q)
        /\ ContentsAt(work.edgeVersions, q) = ContentsAt(db.edgeVersions, q)
    BY <2>1 DEF JInv, IInv, Agrees, SameBefore
  <2> QED BY <1>6, <2>2 DEF GraphAt
<1>11. n + 1 \in 1..(n + 1) /\ n + 1 \in Nat
  BY <1>2
<1>12. Abstract!WellFormed(k[n + 1])
  <2>1. k[n + 1] = GraphAt(work, n + 1)
    BY <1>6, <1>7, <1>11
  <2> QED BY <1>2, <1>11, <2>1, WorkWellFormed
<1>13. k[n + 1] # Abstract!Before(k, n + 1)
  <2>1. tx.revision = n + 1
    BY <1>1, <1>2 DEF CommitRevision, JInv, WorkSound
  <2>2. \/ ContentsAt(work.nodeVersions, n) # ContentsAt(work.nodeVersions, n + 1)
        \/ ContentsAt(work.edgeVersions, n) # ContentsAt(work.edgeVersions, n + 1)
    BY <1>1, <1>2, <2>1, ChangeShows DEF GraphChanged
  <2>3. CASE n = 0
    <3>1. ContentsAt(work.nodeVersions, 0) = {} /\ ContentsAt(work.edgeVersions, 0) = {}
      BY <1>3, <1>4, NothingAtZero
    <3>2. Abstract!Before(k, n + 1) = [nodes |-> {}, edges |-> {}]
      BY <2>3 DEF Abstract!Before, Abstract!EmptyGraph
    <3> QED BY <1>9, <1>11, <2>2, <2>3, <3>1, <3>2
  <2>4. CASE n # 0
    <3>1. n \in 1..(n + 1) /\ n + 1 # 1 /\ (n + 1) - 1 = n
      BY <1>2, <2>4
    <3>2. Abstract!Before(k, n + 1) = k[n]
      BY <3>1 DEF Abstract!Before
    <3> QED BY <1>9, <1>11, <2>2, <3>1, <3>2
  <2> QED BY <2>3, <2>4
<1>14. Abstract!NoResurrection(k, n + 1)
  <2> SUFFICES ASSUME NEW q \in 1..n
               PROVE  /\ Abstract!Ids(k[q].nodes) \cap Abstract!Ids(k[n + 1].nodes)
                            \subseteq Abstract!Ids(k[n].nodes)
                      /\ Abstract!Ids(k[q].edges) \cap Abstract!Ids(k[n + 1].edges)
                            \subseteq Abstract!Ids(k[n].edges)
    <3>1. (n + 1) - 1 = n
      BY <1>2
    <3> QED BY <3>1 DEF Abstract!NoResurrection
  <2>1. q \in Nat /\ q <= n /\ q \in 1..(n + 1) /\ n \in 1..(n + 1)
    BY <1>2
  <2>2. \A x \in ContentsAt(work.nodeVersions, q), y \in ContentsAt(work.nodeVersions, n + 1) :
           x[1] = y[1] => \E z \in ContentsAt(work.nodeVersions, n) : z[1] = y[1]
    BY <1>2, <1>3, <2>1, NoReturn
  <2>3. \A x \in ContentsAt(work.edgeVersions, q), y \in ContentsAt(work.edgeVersions, n + 1) :
           x[1] = y[1] => \E z \in ContentsAt(work.edgeVersions, n) : z[1] = y[1]
    BY <1>2, <1>4, <2>1, NoReturn
  <2>4. Abstract!Ids(k[q].nodes) \cap Abstract!Ids(k[n + 1].nodes) \subseteq Abstract!Ids(k[n].nodes)
    BY <1>9, <1>11, <2>1, <2>2 DEF Abstract!Ids
  <2>5. Abstract!Ids(k[q].edges) \cap Abstract!Ids(k[n + 1].edges) \subseteq Abstract!Ids(k[n].edges)
    BY <1>9, <1>11, <2>1, <2>3 DEF Abstract!Ids
  <2> QED BY <2>4, <2>5
<1> QED BY <1>8, <1>10, <1>12, <1>13, <1>14 DEF Abstract!Append1, h, k

\* The store implements GraphHistory: what readers see is an append-only sequence of
\* well-formed graphs in which every revision changes something and nothing that was
\* deleted returns.
THEOREM StoreIsGraphHistory == Spec => ImplementsGraphHistory
<1>1. Init => Abstract!Init
  BY DEF Init, EmptyDatabase, Abstract!Init, History
<1>2. ASSUME JInv, [Next]_vars PROVE [Abstract!Append1]_History
  <2>1. IInv'
    BY <1>2, NextStep DEF JInv
  <2>2. CASE db' = db
    BY <2>2 DEF History
  <2>3. CASE CommitRevision
    BY <1>2, <2>1, <2>3, CommitAppends
  <2>4. db' = db \/ CommitRevision
    BY <1>2, MutationKeepsDb DEF Next, vars, Begin, RejectInput, Fail, Rollback,
       ReturnFailure, CommitNothing
  <2> QED BY <2>2, <2>3, <2>4
<1> QED BY <1>1, <1>2, TablesStaySound, PTL DEF Spec, ImplementsGraphHistory, Abstract!Spec
=============================================================================
