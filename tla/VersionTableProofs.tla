------------------------- MODULE VersionTableProofs -------------------------
(***************************************************************************)
(* Facts about the statements of VersionTable, for any table.  Each one    *)
(* says two things of a statement that a batch of revision rev issues: the *)
(* table keeps its shape, and no snapshot before rev can tell that the     *)
(* statement ran.                                                          *)
(***************************************************************************)
EXTENDS VersionTable, TLAPS

\* A row exists only under an identity, and not before the identity does.
RowsFollowIdentity(T, created) ==
    \A v \in T : created[v.id] # Null /\ created[v.id] <= v.valid_from

\* Two tables that snapshots before rev cannot tell apart.
SameBefore(T, U, rev) == \A r \in Nat : r < rev => ContentsAt(T, r) = ContentsAt(U, r)

\* The versions of an entity, as a batch of revision rev finds and leaves them:
\* each is open or ends after it starts and not after rev, they do not overlap,
\* and each starts with its identity or where another one ends.
TableSound(T, created, rev) ==
    /\ RowsFollowIdentity(T, created)
    /\ \A v \in T : /\ v.valid_from <= rev
                    /\ IsCurrent(v) \/ (v.valid_from < v.valid_to /\ v.valid_to <= rev)
    /\ \A v, w \in T : v.id = w.id /\ v.valid_from = w.valid_from => v = w
    /\ \A v, w \in T : v.id = w.id /\ v.valid_from < w.valid_from =>
                          ~IsCurrent(v) /\ v.valid_to <= w.valid_from
    /\ \A v \in T : \/ v.valid_from = created[v.id]
                    \/ \E p \in T : /\ p.id = v.id /\ p.valid_to = v.valid_from
                                    /\ p.valid_from < v.valid_from

\* An identity without a version is left behind by a broken-off insert only.
EveryIdentityHasRow(T, created) ==
    \A id \in DOMAIN created : created[id] # Null => \E v \in T : v.id = id

\* Inserting the batch's own version (INSERT INTO node_versions).
LEMMA InsertFact ==
    ASSUME NEW Ids, NEW Values, NEW T \in SUBSET VersionRow(Ids, Values),
           NEW id \in Ids, NEW rev \in Nat, NEW value \in Values
    PROVE  /\ T \cup {NewRow(id, rev, value)} \in SUBSET VersionRow(Ids, Values)
           /\ SameBefore(T \cup {NewRow(id, rev, value)}, T, rev)
<1> DEFINE row == NewRow(id, rev, value)
<1>1. row \in VersionRow(Ids, Values)
  BY DEF NewRow, VersionRow, Null
<1>2. ASSUME NEW r \in Nat, r < rev
      PROVE  ContentsAt(T \cup {row}, r) = ContentsAt(T, r)
  <2>1. ~VisibleAt(row, r)
    BY <1>2 DEF NewRow, VisibleAt
  <2>2. {w \in T \cup {row} : VisibleAt(w, r)} = {w \in T : VisibleAt(w, r)}
    BY <2>1
  <2> QED BY <2>2 DEF ContentsAt
<1> QED BY <1>1, <1>2 DEF SameBefore

\* Closing current versions at the batch's revision (UPDATE ... SET valid_to).
LEMMA CloseFact ==
    ASSUME NEW Ids, NEW Values, NEW T \in SUBSET VersionRow(Ids, Values),
           NEW ids, NEW rev \in Nat
    PROVE  /\ CloseCurrent(T, ids, rev) \in SUBSET VersionRow(Ids, Values)
           /\ SameBefore(CloseCurrent(T, ids, rev), T, rev)
           /\ \A v \in CloseCurrent(T, ids, rev) :
                 \E w \in T : v.id = w.id /\ v.valid_from = w.valid_from
<1> DEFINE new(v) == IF v.id \in ids /\ IsCurrent(v) THEN [v EXCEPT !.valid_to = rev] ELSE v
<1>1. \A v \in T : /\ new(v) \in VersionRow(Ids, Values)
                   /\ new(v).id = v.id
                   /\ new(v).valid_from = v.valid_from
                   /\ new(v).value = v.value
                   /\ new(v).valid_to = IF v.id \in ids /\ IsCurrent(v) THEN rev ELSE v.valid_to
  BY DEF VersionRow, IsCurrent
<1>2. CloseCurrent(T, ids, rev) = {new(v) : v \in T}
  BY DEF CloseCurrent
<1> HIDE DEF new
<1>3. ASSUME NEW r \in Nat, r < rev
      PROVE  ContentsAt(CloseCurrent(T, ids, rev), r) = ContentsAt(T, r)
  <2>1. \A v \in T : VisibleAt(new(v), r) <=> VisibleAt(v, r)
    BY <1>1, <1>3 DEF VisibleAt, IsCurrent, VersionRow, Null
  <2> QED BY <1>1, <1>2, <2>1 DEF ContentsAt
<1> QED BY <1>1, <1>2, <1>3 DEF SameBefore

\* Rewriting the batch's own version in place (UPDATE ... WHERE valid_from = rev).
LEMMA OverwriteFact ==
    ASSUME NEW Ids, NEW Values, NEW T \in SUBSET VersionRow(Ids, Values),
           NEW id \in Ids, NEW rev \in Nat, NEW value \in Values
    PROVE  /\ OverwriteAt(T, id, rev, value) \in SUBSET VersionRow(Ids, Values)
           /\ SameBefore(OverwriteAt(T, id, rev, value), T, rev)
           /\ \A v \in OverwriteAt(T, id, rev, value) :
                 \E w \in T : v.id = w.id /\ v.valid_from = w.valid_from
<1> DEFINE new(v) == IF v.id = id /\ v.valid_from = rev THEN [v EXCEPT !.value = value] ELSE v
<1>1. \A v \in T : /\ new(v) \in VersionRow(Ids, Values)
                   /\ new(v).id = v.id
                   /\ new(v).valid_from = v.valid_from
                   /\ new(v).valid_to = v.valid_to
                   /\ v.valid_from # rev => new(v) = v
  BY DEF VersionRow
<1>2. OverwriteAt(T, id, rev, value) = {new(v) : v \in T}
  BY DEF OverwriteAt
<1> HIDE DEF new
<1>3. ASSUME NEW r \in Nat, r < rev
      PROVE  ContentsAt(OverwriteAt(T, id, rev, value), r) = ContentsAt(T, r)
  <2>1. \A v \in T : VisibleAt(new(v), r) <=> VisibleAt(v, r)
    BY <1>1 DEF VisibleAt, IsCurrent
  <2>2. \A v \in T : VisibleAt(v, r) => new(v) = v
    BY <1>1, <1>3 DEF VisibleAt, VersionRow
  <2> QED BY <1>2, <2>1, <2>2 DEF ContentsAt
<1> QED BY <1>1, <1>2, <1>3 DEF SameBefore

\* Removing rows that no earlier snapshot shows (DELETE of the batch's rows).
LEMMA DropFact ==
    ASSUME NEW Ids, NEW Values, NEW T \in SUBSET VersionRow(Ids, Values),
           NEW D, NEW rev \in Nat, \A v \in T : v \in D => v.valid_from >= rev
    PROVE  SameBefore(T \ D, T, rev)
<1> SUFFICES ASSUME NEW r \in Nat, r < rev
             PROVE  {w \in T \ D : VisibleAt(w, r)} = {w \in T : VisibleAt(w, r)}
  BY DEF SameBefore, ContentsAt
<1> QED BY DEF VisibleAt, VersionRow

\* An update, by either of its two forms.
LEMMA ReplaceFact ==
    ASSUME NEW Ids, NEW Values, NEW T \in SUBSET VersionRow(Ids, Values),
           NEW created \in [Ids -> Nat], RowsFollowIdentity(T, created),
           NEW cur \in T, NEW rev \in Nat, cur.valid_from <= rev, NEW value \in Values
    PROVE  /\ ReplaceVersion(T, cur, rev, value) \in SUBSET VersionRow(Ids, Values)
           /\ SameBefore(ReplaceVersion(T, cur, rev, value), T, rev)
           /\ RowsFollowIdentity(ReplaceVersion(T, cur, rev, value), created)
<1>0. cur.id \in Ids /\ cur.valid_from \in Nat
  BY DEF VersionRow
<1>1. CASE cur.valid_from = rev
  <2> DEFINE U == OverwriteAt(T, cur.id, rev, value)
  <2>0. ASSUME NEW i \in Ids
        PROVE  /\ OverwriteAt(T, i, rev, value) \in SUBSET VersionRow(Ids, Values)
               /\ SameBefore(OverwriteAt(T, i, rev, value), T, rev)
               /\ \A v \in OverwriteAt(T, i, rev, value) :
                     \E w \in T : v.id = w.id /\ v.valid_from = w.valid_from
    BY OverwriteFact
  <2>1. /\ U \in SUBSET VersionRow(Ids, Values)
        /\ SameBefore(U, T, rev)
        /\ \A v \in U : \E w \in T : v.id = w.id /\ v.valid_from = w.valid_from
    BY <1>0, <2>0
  <2>2. RowsFollowIdentity(U, created)
    BY <2>1 DEF RowsFollowIdentity
  <2> QED BY <1>1, <2>1, <2>2 DEF ReplaceVersion
<1>2. CASE cur.valid_from # rev
  <2> DEFINE closed == CloseCurrent(T, {cur.id}, rev)
             row == NewRow(cur.id, rev, value)
  <2>1. /\ closed \in SUBSET VersionRow(Ids, Values)
        /\ SameBefore(closed, T, rev)
        /\ \A v \in closed : \E w \in T : v.id = w.id /\ v.valid_from = w.valid_from
    BY CloseFact
  <2> HIDE DEF closed
  <2>2. /\ closed \cup {row} \in SUBSET VersionRow(Ids, Values)
        /\ SameBefore(closed \cup {row}, closed, rev)
    BY <1>0, <2>1, InsertFact
  <2>3. RowsFollowIdentity(closed \cup {row}, created)
    <3>1. row.id = cur.id /\ row.valid_from = rev
      BY DEF NewRow
    <3>2. created[cur.id] # Null /\ created[cur.id] <= rev
      BY <1>0 DEF RowsFollowIdentity
    <3> QED BY <2>1, <3>1, <3>2 DEF RowsFollowIdentity
  <2>4. ReplaceVersion(T, cur, rev, value) = closed \cup {row}
    BY <1>2 DEF ReplaceVersion, closed
  <2> QED BY <2>1, <2>2, <2>3, <2>4 DEF SameBefore
<1> QED BY <1>1, <1>2

\* Deleting entities, in all three cases of closeEdge and DeleteNode.
LEMMA RetireFact ==
    ASSUME NEW Ids, NEW Values, NEW T \in SUBSET VersionRow(Ids, Values),
           NEW created \in [Ids -> Nat], RowsFollowIdentity(T, created),
           NEW ids, NEW rev \in Nat
    PROVE  /\ RetireVersions(T, created, ids, rev) \in SUBSET VersionRow(Ids, Values)
           /\ SameBefore(RetireVersions(T, created, ids, rev), T, rev)
           /\ RetireIdentities(T, created, ids, rev) \in [Ids -> Nat]
           /\ RowsFollowIdentity(RetireVersions(T, created, ids, rev),
                                 RetireIdentities(T, created, ids, rev))
<1> DEFINE D == RowsDropped(T, created, ids, rev)
           kept == T \ D
           left == RetireIdentities(T, created, ids, rev)
<1>1. \A v \in T : v \in D => v.valid_from >= rev
  BY DEF RowsDropped, RowsFollowIdentity, VersionRow
<1>2. SameBefore(kept, T, rev)
  BY <1>1, DropFact
<1>3. /\ CloseCurrent(kept, ids, rev) \in SUBSET VersionRow(Ids, Values)
      /\ SameBefore(CloseCurrent(kept, ids, rev), kept, rev)
      /\ \A v \in CloseCurrent(kept, ids, rev) :
            \E w \in kept : v.id = w.id /\ v.valid_from = w.valid_from
  BY CloseFact
<1>4. left \in [Ids -> Nat]
  BY DEF RetireIdentities, Null
<1>5. \A w \in kept : left[w.id] = created[w.id]
  BY DEF RetireIdentities, RowsDropped, VersionRow
<1>6. RowsFollowIdentity(CloseCurrent(kept, ids, rev), left)
  BY <1>3, <1>5 DEF RowsFollowIdentity
<1> QED BY <1>2, <1>3, <1>4, <1>6 DEF RetireVersions, SameBefore

-----------------------------------------------------------------------------
(* The shape of a table *)

\* What closing and overwriting make of one row.
ClosedRow(v, ids, rev) ==
    IF v.id \in ids /\ IsCurrent(v) THEN [v EXCEPT !.valid_to = rev] ELSE v

OverwrittenRow(v, id, rev, value) ==
    IF v.id = id /\ v.valid_from = rev THEN [v EXCEPT !.value = value] ELSE v

\* Closing changes the end of current rows only.
LEMMA ClosedRowFact ==
    ASSUME NEW Ids, NEW Values, NEW v \in VersionRow(Ids, Values), NEW ids, NEW rev \in Nat
    PROVE  /\ ClosedRow(v, ids, rev) \in VersionRow(Ids, Values)
           /\ ClosedRow(v, ids, rev).id = v.id
           /\ ClosedRow(v, ids, rev).valid_from = v.valid_from
           /\ ClosedRow(v, ids, rev).value = v.value
           /\ ClosedRow(v, ids, rev).valid_to =
                 IF v.id \in ids /\ IsCurrent(v) THEN rev ELSE v.valid_to
BY DEF VersionRow, ClosedRow, IsCurrent

\* Overwriting changes the content of the batch's own row only.
LEMMA OverwrittenRowFact ==
    ASSUME NEW Ids, NEW Values, NEW v \in VersionRow(Ids, Values), NEW id, NEW rev \in Nat,
           NEW value \in Values
    PROVE  /\ OverwrittenRow(v, id, rev, value) \in VersionRow(Ids, Values)
           /\ OverwrittenRow(v, id, rev, value).id = v.id
           /\ OverwrittenRow(v, id, rev, value).valid_from = v.valid_from
           /\ OverwrittenRow(v, id, rev, value).valid_to = v.valid_to
           /\ OverwrittenRow(v, id, rev, value).value =
                 IF v.id = id /\ v.valid_from = rev THEN value ELSE v.value
BY DEF VersionRow, OverwrittenRow

\* Closing changes row by row.
LEMMA CloseImage ==
    ASSUME NEW T, NEW ids, NEW rev
    PROVE  CloseCurrent(T, ids, rev) = {ClosedRow(v, ids, rev) : v \in T}
BY DEF CloseCurrent, ClosedRow

\* So does overwriting.
LEMMA OverwriteImage ==
    ASSUME NEW T, NEW id, NEW rev, NEW value
    PROVE  OverwriteAt(T, id, rev, value) = {OverwrittenRow(v, id, rev, value) : v \in T}
BY DEF OverwriteAt, OverwrittenRow

\* Closing rows that an earlier batch wrote keeps a table sound.
LEMMA CloseSound ==
    ASSUME NEW Ids, NEW Values, NEW T \in SUBSET VersionRow(Ids, Values),
           NEW created \in [Ids -> Nat], NEW rev \in Nat, TableSound(T, created, rev), NEW ids,
           \A v \in T : v.id \in ids /\ IsCurrent(v) => v.valid_from < rev
    PROVE  TableSound(CloseCurrent(T, ids, rev), created, rev)
<1> DEFINE new(v) == ClosedRow(v, ids, rev)
           U == CloseCurrent(T, ids, rev)
<1>1. \A v \in T : /\ v.valid_from \in Nat /\ v.valid_to \in Nat
                   /\ new(v).id = v.id /\ new(v).valid_from = v.valid_from
                   /\ new(v).valid_to = IF v.id \in ids /\ IsCurrent(v) THEN rev ELSE v.valid_to
  BY ClosedRowFact DEF VersionRow
<1>2. U = {new(v) : v \in T}
  BY CloseImage
<1> HIDE DEF new, U
<1>3. RowsFollowIdentity(U, created)
  BY <1>1, <1>2 DEF TableSound, RowsFollowIdentity
<1>4. \A v \in U : /\ v.valid_from <= rev
                   /\ IsCurrent(v) \/ (v.valid_from < v.valid_to /\ v.valid_to <= rev)
  BY <1>1, <1>2 DEF TableSound, IsCurrent, Null
<1>5. \A v, w \in U : v.id = w.id /\ v.valid_from = w.valid_from => v = w
  BY <1>1, <1>2 DEF TableSound
<1>6. \A v, w \in U : v.id = w.id /\ v.valid_from < w.valid_from =>
                         ~IsCurrent(v) /\ v.valid_to <= w.valid_from
  BY <1>1, <1>2 DEF TableSound, IsCurrent, Null
<1>7. \A v \in U : \/ v.valid_from = created[v.id]
                   \/ \E p \in U : /\ p.id = v.id /\ p.valid_to = v.valid_from
                                   /\ p.valid_from < v.valid_from
  <2> SUFFICES ASSUME NEW v \in T, v.valid_from # created[v.id]
               PROVE  \E p \in U : /\ p.id = v.id /\ p.valid_to = v.valid_from
                                   /\ p.valid_from < v.valid_from
    BY <1>1, <1>2
  <2>1. PICK p \in T : p.id = v.id /\ p.valid_to = v.valid_from /\ p.valid_from < v.valid_from
    BY DEF TableSound
  <2>2. ~IsCurrent(p)
    BY <2>1 DEF TableSound
  <2>3. new(p) \in U /\ new(p).id = v.id /\ new(p).valid_to = v.valid_from
        /\ new(p).valid_from < v.valid_from
    BY <1>1, <1>2, <2>1, <2>2
  <2> QED BY <2>3
<1> QED BY <1>3, <1>4, <1>5, <1>6, <1>7 DEF TableSound, U

\* So does overwriting.
LEMMA OverwriteSound ==
    ASSUME NEW Ids, NEW Values, NEW T \in SUBSET VersionRow(Ids, Values),
           NEW created \in [Ids -> Nat], NEW rev \in Nat, TableSound(T, created, rev),
           NEW id, NEW value \in Values
    PROVE  TableSound(OverwriteAt(T, id, rev, value), created, rev)
<1> DEFINE new(v) == OverwrittenRow(v, id, rev, value)
           U == OverwriteAt(T, id, rev, value)
<1>1. \A v \in T : /\ v.valid_from \in Nat /\ v.valid_to \in Nat
                   /\ new(v).id = v.id /\ new(v).valid_from = v.valid_from
                   /\ new(v).valid_to = v.valid_to
  BY OverwrittenRowFact DEF VersionRow
<1>2. U = {new(v) : v \in T}
  BY OverwriteImage
<1> HIDE DEF new, U
<1>3. RowsFollowIdentity(U, created)
  BY <1>1, <1>2 DEF TableSound, RowsFollowIdentity
<1>4. \A v \in U : /\ v.valid_from <= rev
                   /\ IsCurrent(v) \/ (v.valid_from < v.valid_to /\ v.valid_to <= rev)
  BY <1>1, <1>2 DEF TableSound, IsCurrent
<1>5. \A v, w \in U : v.id = w.id /\ v.valid_from = w.valid_from => v = w
  BY <1>1, <1>2 DEF TableSound
<1>6. \A v, w \in U : v.id = w.id /\ v.valid_from < w.valid_from =>
                         ~IsCurrent(v) /\ v.valid_to <= w.valid_from
  BY <1>1, <1>2 DEF TableSound, IsCurrent
<1>7. \A v \in U : \/ v.valid_from = created[v.id]
                   \/ \E p \in U : /\ p.id = v.id /\ p.valid_to = v.valid_from
                                   /\ p.valid_from < v.valid_from
  BY <1>1, <1>2 DEF TableSound
<1> QED BY <1>3, <1>4, <1>5, <1>6, <1>7 DEF TableSound, U

\* The batch's version of an entity whose last version has just been closed, or of
\* an entity that has none.
LEMMA AppendSound ==
    ASSUME NEW Ids, NEW Values, NEW T \in SUBSET VersionRow(Ids, Values),
           NEW created \in [Ids -> Nat], NEW rev \in Nat, TableSound(T, created, rev),
           NEW id \in Ids, NEW value \in Values, created[id] # Null, created[id] <= rev,
           \A v \in T : v.id = id => v.valid_from < rev /\ ~IsCurrent(v),
           created[id] = rev \/ \E p \in T : p.id = id /\ p.valid_to = rev
    PROVE  TableSound(T \cup {NewRow(id, rev, value)}, created, rev)
<1> DEFINE row == NewRow(id, rev, value)
           U == T \cup {row}
<1>1. row.id = id /\ row.valid_from = rev /\ row.valid_to = Null
  BY DEF NewRow
<1>2. \A v \in T : v.valid_from \in Nat /\ v.valid_to \in Nat
  BY DEF VersionRow
<1> HIDE DEF row
<1>3. RowsFollowIdentity(U, created)
  BY <1>1 DEF TableSound, RowsFollowIdentity
<1>4. \A v \in U : /\ v.valid_from <= rev
                   /\ IsCurrent(v) \/ (v.valid_from < v.valid_to /\ v.valid_to <= rev)
  BY <1>1 DEF TableSound, IsCurrent
<1>5. \A v, w \in U : v.id = w.id /\ v.valid_from = w.valid_from => v = w
  BY <1>1, <1>2 DEF TableSound
<1>6. \A v, w \in U : v.id = w.id /\ v.valid_from < w.valid_from =>
                         ~IsCurrent(v) /\ v.valid_to <= w.valid_from
  BY <1>1, <1>2 DEF TableSound, IsCurrent
<1>7. \A v \in U : \/ v.valid_from = created[v.id]
                   \/ \E p \in U : /\ p.id = v.id /\ p.valid_to = v.valid_from
                                   /\ p.valid_from < v.valid_from
  BY <1>1 DEF TableSound
<1> QED BY <1>3, <1>4, <1>5, <1>6, <1>7 DEF TableSound, row

\* The current version of an entity is its only open one and its last.
LEMMA LastRow ==
    ASSUME NEW Ids, NEW Values, NEW T \in SUBSET VersionRow(Ids, Values),
           NEW created, NEW rev, TableSound(T, created, rev),
           NEW cur \in T, IsCurrent(cur), NEW v \in T, v.id = cur.id
    PROVE  v = cur \/ (v.valid_from < cur.valid_from /\ ~IsCurrent(v))
<1>1. v.valid_from \in Nat /\ cur.valid_from \in Nat
  BY DEF VersionRow
<1> QED BY <1>1 DEF TableSound

\* A new entity and its first version.
LEMMA InsertSound ==
    ASSUME NEW Ids, NEW Values, NEW T \in SUBSET VersionRow(Ids, Values),
           NEW created \in [Ids -> Nat], NEW rev \in Nat \ {Null}, TableSound(T, created, rev),
           NEW id \in Ids, NEW value \in Values, created[id] = Null
    PROVE  TableSound(T \cup {NewRow(id, rev, value)}, [created EXCEPT ![id] = rev], rev)
<1> DEFINE now == [created EXCEPT ![id] = rev]
<1>1. \A v \in T : v.id # id /\ v.id \in Ids
  BY DEF TableSound, RowsFollowIdentity, VersionRow
<1>2. now \in [Ids -> Nat] /\ now[id] = rev /\ \A v \in T : now[v.id] = created[v.id]
  BY <1>1
<1> HIDE DEF now
<1>3. TableSound(T, now, rev)
  BY <1>2 DEF TableSound, RowsFollowIdentity
<1>4. rev \in Nat /\ rev # Null /\ rev <= rev
  OBVIOUS
<1> QED BY <1>1, <1>2, <1>3, <1>4, AppendSound DEF now

\* An update, by either of its two forms.
LEMMA ReplaceSound ==
    ASSUME NEW Ids, NEW Values, NEW T \in SUBSET VersionRow(Ids, Values),
           NEW created \in [Ids -> Nat], NEW rev \in Nat, TableSound(T, created, rev),
           NEW cur \in T, IsCurrent(cur), NEW value \in Values
    PROVE  TableSound(ReplaceVersion(T, cur, rev, value), created, rev)
<1>1. CASE cur.valid_from = rev
  BY <1>1, OverwriteSound DEF ReplaceVersion
<1>2. CASE cur.valid_from # rev
  <2> DEFINE closed == CloseCurrent(T, {cur.id}, rev)
  <2>1. cur.valid_from < rev /\ cur.id \in Ids /\ cur.valid_from \in Nat
    BY <1>2 DEF TableSound, VersionRow
  <2>2. \A v \in T : v.id = cur.id => v.valid_from < rev /\ (IsCurrent(v) => v = cur)
    <3>1. ASSUME NEW v \in T, v.id = cur.id
          PROVE  v.valid_from < rev /\ (IsCurrent(v) => v = cur)
      <4>1. v = cur \/ (v.valid_from < cur.valid_from /\ ~IsCurrent(v))
        BY <3>1, LastRow
      <4>2. v.valid_from \in Nat
        BY DEF VersionRow
      <4> QED BY <2>1, <4>1, <4>2
    <3> QED BY <3>1
  <2>3. TableSound(closed, created, rev) /\ closed \in SUBSET VersionRow(Ids, Values)
    BY <2>2, CloseSound, CloseFact
  <2>4. \A v \in T : /\ ClosedRow(v, {cur.id}, rev).id = v.id
                     /\ ClosedRow(v, {cur.id}, rev).valid_from = v.valid_from
                     /\ ClosedRow(v, {cur.id}, rev).valid_to =
                           IF v.id \in {cur.id} /\ IsCurrent(v) THEN rev ELSE v.valid_to
    BY ClosedRowFact
  <2>5. closed = {ClosedRow(v, {cur.id}, rev) : v \in T}
    BY CloseImage
  <2> HIDE DEF closed
  <2>6. \A v \in closed : v.id = cur.id => v.valid_from < rev /\ ~IsCurrent(v)
    <3>1. SUFFICES ASSUME NEW v \in T, ClosedRow(v, {cur.id}, rev).id = cur.id
                   PROVE  /\ ClosedRow(v, {cur.id}, rev).valid_from < rev
                          /\ ClosedRow(v, {cur.id}, rev).valid_to # Null
      BY <2>5 DEF IsCurrent
    <3>2. v.id = cur.id /\ v.valid_from < rev /\ rev # Null
      BY <2>1, <2>2, <2>4, <3>1 DEF Null
    <3> QED BY <2>4, <3>2 DEF IsCurrent
  <2>7. \E p \in closed : p.id = cur.id /\ p.valid_to = rev
    BY <2>4, <2>5
  <2>8. created[cur.id] # Null /\ created[cur.id] <= rev
    BY <2>1 DEF TableSound, RowsFollowIdentity
  <2>9. TableSound(closed \cup {NewRow(cur.id, rev, value)}, created, rev)
    BY <2>1, <2>3, <2>6, <2>7, <2>8, AppendSound
  <2> QED BY <1>2, <2>9 DEF ReplaceVersion, closed
<1> QED BY <1>1, <1>2

\* What a deletion drops starts in the batch ...
LEMMA DroppedRow ==
    ASSUME NEW Ids, NEW Values, NEW T \in SUBSET VersionRow(Ids, Values),
           NEW created \in [Ids -> Nat], NEW rev \in Nat, TableSound(T, created, rev), NEW ids,
           NEW v \in RowsDropped(T, created, ids, rev)
    PROVE  v \in T /\ v.id \in ids /\ v.valid_from = rev
<1>1. v \in T /\ v.id \in ids /\ (created[v.id] = rev \/ v.valid_from = rev)
  BY DEF RowsDropped
<1>2. v.id \in Ids /\ v.valid_from \in Nat /\ created[v.id] \in Nat
  BY <1>1 DEF VersionRow
<1> QED BY <1>1, <1>2 DEF TableSound, RowsFollowIdentity

\* ... and what it keeps and closes does not; the identity of what it keeps stays.
LEMMA KeptRow ==
    ASSUME NEW Ids, NEW Values, NEW T \in SUBSET VersionRow(Ids, Values),
           NEW created \in [Ids -> Nat], NEW rev \in Nat, TableSound(T, created, rev), NEW ids,
           NEW v \in T \ RowsDropped(T, created, ids, rev)
    PROVE  /\ v.id \in ids /\ IsCurrent(v) => v.valid_from < rev
           /\ RetireIdentities(T, created, ids, rev)[v.id] = created[v.id]
<1>1. v.id \in Ids /\ v.valid_from \in Nat /\ created[v.id] \in Nat
  BY DEF VersionRow
<1>2. v.id \in ids /\ IsCurrent(v) => v.valid_from < rev
  BY <1>1 DEF RowsDropped, TableSound, InBatch, CurrentRows
<1>3. RetireIdentities(T, created, ids, rev)[v.id] = created[v.id]
  BY <1>1 DEF RetireIdentities, RowsDropped
<1> QED BY <1>2, <1>3

\* Retiring drops rows and changes others.
LEMMA RetireImage ==
    ASSUME NEW T, NEW created, NEW ids, NEW rev
    PROVE  RetireVersions(T, created, ids, rev)
             = {ClosedRow(v, ids, rev) : v \in T \ RowsDropped(T, created, ids, rev)}
BY CloseImage DEF RetireVersions

\* A deletion keeps a table sound: what it drops is last in its entity.
LEMMA RetireSound ==
    ASSUME NEW Ids, NEW Values, NEW T \in SUBSET VersionRow(Ids, Values),
           NEW created \in [Ids -> Nat], NEW rev \in Nat, TableSound(T, created, rev), NEW ids
    PROVE  TableSound(RetireVersions(T, created, ids, rev),
                      RetireIdentities(T, created, ids, rev), rev)
<1> DEFINE D == RowsDropped(T, created, ids, rev)
           kept == T \ D
           left == RetireIdentities(T, created, ids, rev)
<1>1. \A v \in D : v.valid_from = rev
  BY DroppedRow
<1>2. \A v \in kept : /\ v.id \in ids /\ IsCurrent(v) => v.valid_from < rev
                      /\ left[v.id] = created[v.id]
  BY KeptRow
<1>3. \A v \in T : v.valid_from \in Nat
  BY DEF VersionRow
<1>4. left \in [Ids -> Nat]
  BY DEF RetireIdentities, Null
<1>5. RetireVersions(T, created, ids, rev) = CloseCurrent(kept, ids, rev)
  BY DEF RetireVersions
<1> HIDE DEF D, left
<1>6. \A v \in kept : \/ v.valid_from = left[v.id]
                      \/ \E p \in kept : /\ p.id = v.id /\ p.valid_to = v.valid_from
                                         /\ p.valid_from < v.valid_from
  <2> SUFFICES ASSUME NEW v \in kept, v.valid_from # created[v.id]
               PROVE  \E p \in kept : /\ p.id = v.id /\ p.valid_to = v.valid_from
                                      /\ p.valid_from < v.valid_from
    BY <1>2
  <2>1. PICK p \in T : p.id = v.id /\ p.valid_to = v.valid_from /\ p.valid_from < v.valid_from
    BY DEF TableSound
  <2>2. v.valid_from <= rev
    BY DEF TableSound
  <2>3. p \notin D
    BY <1>1, <1>3, <2>1, <2>2
  <2> QED BY <2>1, <2>3
<1>7. TableSound(kept, left, rev)
  BY <1>2, <1>6 DEF TableSound, RowsFollowIdentity
<1>8. kept \in SUBSET VersionRow(Ids, Values)
  OBVIOUS
<1> HIDE DEF kept
<1>9. TableSound(CloseCurrent(kept, ids, rev), left, rev)
  BY <1>2, <1>4, <1>7, <1>8, CloseSound
<1> QED BY <1>5, <1>9 DEF left

\* And no identity that stays loses its last row.
LEMMA RetireLeavesRows ==
    ASSUME NEW Ids, NEW Values, NEW T \in SUBSET VersionRow(Ids, Values),
           NEW created \in [Ids -> Nat], NEW rev \in Nat, TableSound(T, created, rev), NEW ids,
           EveryIdentityHasRow(T, created)
    PROVE  EveryIdentityHasRow(RetireVersions(T, created, ids, rev),
                               RetireIdentities(T, created, ids, rev))
<1> DEFINE D == RowsDropped(T, created, ids, rev)
           left == RetireIdentities(T, created, ids, rev)
           U == RetireVersions(T, created, ids, rev)
<1>1. DOMAIN left = Ids
  BY DEF RetireIdentities
<1>2. ASSUME NEW id \in Ids, left[id] # Null
      PROVE  \E v \in U : v.id = id
  <2>1. created[id] # Null /\ ~(id \in ids /\ InBatch(T, id, rev) /\ created[id] = rev)
    BY <1>2 DEF RetireIdentities
  <2>2. PICK v \in T : v.id = id
    BY <2>1 DEF EveryIdentityHasRow
  <2>3. \E w \in T \ D : w.id = id
    <3>1. CASE v \notin D
      BY <2>2, <3>1
    <3>2. CASE v \in D
      <4>1. id \in ids /\ InBatch(T, id, rev) /\ created[id] # rev /\ v.valid_from = rev
        BY <2>1, <2>2, <3>2 DEF RowsDropped
      <4>2. PICK p \in T : p.id = v.id /\ p.valid_from < v.valid_from
        BY <2>2, <4>1 DEF TableSound
      <4>3. p.valid_from # rev
        BY <4>1, <4>2 DEF VersionRow
      <4>4. p \notin D
        BY <2>2, <4>1, <4>2, <4>3 DEF RowsDropped
      <4> QED BY <2>2, <4>2, <4>4
    <3> QED BY <3>1, <3>2
  <2>4. PICK w \in T \ D : w.id = id
    BY <2>3
  <2>5. ClosedRow(w, ids, rev) \in U
    BY RetireImage
  <2>6. ClosedRow(w, ids, rev).id = id
    BY <2>4, ClosedRowFact
  <2> QED BY <2>5, <2>6
<1> HIDE DEF left, U
<1>3. EveryIdentityHasRow(U, left)
  BY <1>1, <1>2 DEF EveryIdentityHasRow
<1> QED BY <1>3 DEF U, left
=============================================================================
