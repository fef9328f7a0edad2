---------------------------- MODULE VersionTable ----------------------------
(***************************************************************************)
(* The two version tables of the SQLite schema, node_versions and          *)
(* edge_versions, as sets of rows.  A row carries an entity's content over *)
(* the half-open interval of revisions valid_from .. valid_to - 1; a row   *)
(* whose valid_to is NULL is the entity's current version.  The content    *)
(* columns (labels, properties and body of a node; endpoints, type,        *)
(* position and properties of an edge) are one field, value.               *)
(*                                                                         *)
(* The operators are the SQL statements that the write path issues against *)
(* either table, so what is stated of them once holds for both.            *)
(***************************************************************************)
EXTENDS Naturals

\* SQL NULL.  Revisions are numbered from 1, so 0 is never a valid_to.
Null == 0

VersionRow(Ids, Values) ==
    [id : Ids, valid_from : Nat, valid_to : Nat, value : Values]

IsCurrent(v) == v.valid_to = Null

\* The predicate every snapshot query uses: valid_from <= r < valid_to.
VisibleAt(v, r) == v.valid_from <= r /\ (IsCurrent(v) \/ v.valid_to > r)

\* What a snapshot of revision r returns from table T.
ContentsAt(T, r) == {<<v.id, v.value>> : v \in {w \in T : VisibleAt(w, r)}}

\* SELECT ... WHERE id = ? AND valid_to IS NULL
CurrentRows(T, id) == {v \in T : v.id = id /\ IsCurrent(v)}

\* The entities with a current version.
CurrentIds(T) == {v.id : v \in {w \in T : IsCurrent(w)}}

NewRow(id, rev, value) ==
    [id |-> id, valid_from |-> rev, valid_to |-> Null, value |-> value]

\* Mutated: inclusive end, one revision early.
CloseCurrentEarly(T, ids, rev) ==
    {IF v.id \in ids /\ IsCurrent(v) THEN [v EXCEPT !.valid_to = rev - 1] ELSE v : v \in T}

\* UPDATE ... SET valid_to = rev WHERE id IN ids AND valid_to IS NULL
CloseCurrent(T, ids, rev) ==
    {IF v.id \in ids /\ IsCurrent(v) THEN [v EXCEPT !.valid_to = rev] ELSE v : v \in T}

\* UPDATE ... SET <content> WHERE id = ? AND valid_from = rev
OverwriteAt(T, id, rev, value) ==
    {IF v.id = id /\ v.valid_from = rev THEN [v EXCEPT !.value = value] ELSE v : v \in T}

\* Mutated: the old version is left current when it gets a successor.
ReplaceVersionUnclosed(T, cur, rev, value) ==
    IF cur.valid_from = rev
    THEN OverwriteAt(T, cur.id, rev, value)
    ELSE T \cup {NewRow(cur.id, rev, value)}

\* Mutated: the current version is edited in place whichever batch wrote it.
ReplaceVersionInPlace(T, cur, rev, value) ==
    OverwriteAt(T, cur.id, cur.valid_from, value)

\* A version that the batch itself wrote is edited in place; an older one is
\* closed and succeeded by a new row.
ReplaceVersion(T, cur, rev, value) ==
    IF cur.valid_from = rev
    THEN OverwriteAt(T, cur.id, rev, value)
    ELSE CloseCurrent(T, {cur.id}, rev) \cup {NewRow(cur.id, rev, value)}

\* The current version of id was written by the batch of revision rev.
InBatch(T, id, rev) == \E v \in CurrentRows(T, id) : v.valid_from = rev

\* The rows that deleting the entities ids removes outright: every version of
\* an identity that the batch created (DELETE of the identity row cascades),
\* and the batch's own version of an older identity.
RowsDropped(T, created, ids, rev) ==
    {v \in T : /\ v.id \in ids
               /\ InBatch(T, v.id, rev)
               /\ created[v.id] = rev \/ v.valid_from = rev}

\* Deleting the entities ids: their in-batch rows go, other current rows close.
RetireVersions(T, created, ids, rev) ==
    CloseCurrent(T \ RowsDropped(T, created, ids, rev), ids, rev)

\* ... and the identities created by the batch go with them.
RetireIdentities(T, created, ids, rev) ==
    [i \in DOMAIN created |->
        IF i \in ids /\ InBatch(T, i, rev) /\ created[i] = rev THEN Null ELSE created[i]]

\* Mutated: rows that the batch only closed do not count.
TouchedByInsert(T, rev) == {v.id : v \in {w \in T : w.valid_from = rev}}

\* The identities a batch touched, and whether one of them reads differently
\* at the batch's revision than at its base.
Touched(T, rev) == {v.id : v \in {w \in T : w.valid_from = rev \/ w.valid_to = rev}}

ValuesAt(T, id, r) == {v.value : v \in {w \in T : w.id = id /\ VisibleAt(w, r)}}

TableChanged(T, base, rev) ==
    \E id \in Touched(T, rev) : ValuesAt(T, id, base) # ValuesAt(T, id, rev)
=============================================================================
