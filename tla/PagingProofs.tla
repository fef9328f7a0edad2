----------------------------- MODULE PagingProofs ---------------------------
(***************************************************************************)
(* Paged reads proved for every bound.  Listings of entities (GraphPaging), *)
(* for every table, predicate, page limit and interleaving: the order       *)
(* lemmas (a bounded set of keys has a first and a last element, what       *)
(* FirstN returns) come first, then what one scan finds, then the           *)
(* invariant.  Then the two clients of MCPaging that share no state with    *)
(* GraphPaging: the generator of identifiers (EntityIds), for every number  *)
(* and size of its digits and whatever its clock does, and the walk of the  *)
(* revision history (HistoryWalk), for every page limit and whatever is     *)
(* committed between two pages.                                             *)
(***************************************************************************)
EXTENDS MCPaging, VersionTableProofs, FiniteSetTheorems, WellFoundedInduction, TLAPS

\* A non-empty set of naturals has a least element.
LEMMA LeastElement ==
    ASSUME NEW T \in SUBSET Nat, T # {}
    PROVE  \E x \in T : \A y \in T : x <= y
<1> DEFINE R == OpToRel(<, Nat)
<1>1. IsWellFoundedOn(R, Nat)
  BY NatLessThanWellFounded
<1>2. \A x, y \in Nat : y < x => <<y, x>> \in R
  BY DEF OpToRel
<1> HIDE DEF R
<1>3. PICK x \in T : \A y \in T : ~(<<y, x>> \in R)
  BY <1>1, WFMin
<1>4. \A y \in T : ~(y < x) /\ x \in Nat /\ y \in Nat
  BY <1>2, <1>3
<1>5. \A y \in T : x <= y
  BY <1>4
<1> QED BY <1>5

\* A non-empty bounded set of naturals has a greatest element.
LEMMA GreatestElement ==
    ASSUME NEW T \in SUBSET Nat, T # {}, NEW n \in Nat, \A x \in T : x <= n
    PROVE  \E x \in T : \A y \in T : y <= x
<1> DEFINE U == {m \in Nat : \A y \in T : y <= m}
<1>1. PICK m \in U : \A k \in U : m <= k
  <2>1. U \in SUBSET Nat /\ U # {}
    OBVIOUS
  <2> HIDE DEF U
  <2> QED BY <2>1, LeastElement
<1>2. CASE m \in T
  BY <1>2
<1>3. CASE m \notin T
  <2>1. \A y \in T : y < m
    <3>1. \A y \in T : y <= m /\ y # m /\ y \in Nat /\ m \in Nat
      BY <1>3
    <3> QED BY <3>1
  <2>2. m \in Nat /\ m # 0
    <3>1. PICK y \in T : TRUE
      OBVIOUS
    <3>2. y < m /\ y \in Nat /\ m \in Nat
      BY <2>1, <3>1
    <3> QED BY <3>2
  <2>3. m - 1 \in U
    BY <2>1, <2>2
  <2> QED BY <1>1, <2>2, <2>3
<1> QED BY <1>2, <1>3

\* FirstN keeps everything below what it keeps.
LEMMA FirstNFact ==
    ASSUME NEW S, S \subseteq Nat, IsFiniteSet(S), NEW n \in Nat
    PROVE  /\ FirstN(S, n) \subseteq S
           /\ \A i \in FirstN(S, n), j \in S : j < i => j \in FirstN(S, n)
           /\ n # 0 /\ S # {} => FirstN(S, n) # {}
           /\ IsFiniteSet(FirstN(S, n))
           /\ Cardinality(FirstN(S, n)) < n => FirstN(S, n) = S
<1> DEFINE below(i) == {j \in S : j < i}
<1>1. FirstN(S, n) = {i \in S : Cardinality(below(i)) < n}
  BY DEF FirstN
<1>2. \A i \in S : IsFiniteSet(below(i)) /\ Cardinality(below(i)) \in Nat
  <2> TAKE i \in S
  <2>1. below(i) \in SUBSET S
    OBVIOUS
  <2> HIDE DEF below
  <2> QED BY <2>1, FS_Subset, FS_CardinalityType
<1>3. FirstN(S, n) \subseteq S
  BY <1>1
<1>4. \A i \in FirstN(S, n), j \in S : j < i => j \in FirstN(S, n)
  <2> SUFFICES ASSUME NEW i \in FirstN(S, n), NEW j \in S, j < i
               PROVE  j \in FirstN(S, n)
    OBVIOUS
  <2>1. i \in S /\ Cardinality(below(i)) < n
    BY <1>1
  <2>2. below(j) \in SUBSET below(i)
    <3>1. i \in Nat /\ j \in Nat /\ \A k \in S : k \in Nat
      BY <2>1
    <3>2. \A k \in S : k < j => k < i
      BY <3>1
    <3> QED BY <3>2
  <2>3. Cardinality(below(j)) <= Cardinality(below(i))
    <3> HIDE DEF below
    <3> QED BY <1>2, <2>1, <2>2, FS_Subset
  <2>4. Cardinality(below(j)) < n
    <3> HIDE DEF below
    <3> QED BY <1>2, <2>1, <2>3
  <2> QED BY <1>1, <2>4
<1>5. ASSUME n # 0, S # {} PROVE FirstN(S, n) # {}
  <2>1. PICK x \in S : \A y \in S : x <= y
    BY <1>5, LeastElement
  <2>2. below(x) = {}
    <3>1. \A y \in S : y \in Nat /\ x \in Nat /\ x <= y
      BY <2>1
    <3>2. \A y \in S : ~(y < x)
      BY <3>1
    <3> QED BY <3>2
  <2>3. Cardinality(below(x)) = 0
    <3> HIDE DEF below
    <3> QED BY <2>2, FS_EmptySet
  <2> HIDE DEF below
  <2> QED BY <1>1, <1>5, <2>3
<1>6. IsFiniteSet(FirstN(S, n)) /\ Cardinality(FirstN(S, n)) \in Nat
  BY <1>3, FS_Subset, FS_CardinalityType
<1>7. ASSUME Cardinality(FirstN(S, n)) < n, FirstN(S, n) # S PROVE FALSE
  <2> DEFINE rest == S \ FirstN(S, n)
  <2>1. rest \in SUBSET Nat /\ rest # {}
    BY <1>3, <1>7
  <2>2. PICK x \in rest : \A y \in rest : x <= y
    <3> HIDE DEF rest
    <3> QED BY <2>1, LeastElement
  <2>3. x \in S /\ x \notin FirstN(S, n)
    BY <2>2
  <2>4. below(x) \in SUBSET FirstN(S, n)
    <3>1. \A y \in rest : y \in Nat /\ x \in Nat /\ x <= y
      BY <2>1, <2>2, <2>3
    <3>2. \A y \in rest : ~(y < x)
      BY <3>1
    <3> QED BY <3>2
  <2>5. Cardinality(below(x)) <= Cardinality(FirstN(S, n))
    <3> HIDE DEF below
    <3> QED BY <1>6, <2>4, FS_Subset
  <2>6. ~(Cardinality(below(x)) < n)
    BY <1>1, <2>3
  <2> HIDE DEF below
  <2> QED BY <1>2, <1>6, <1>7, <2>3, <2>5, <2>6
<1> QED BY <1>3, <1>4, <1>5, <1>6, <1>7

\* Taking the first n of the first n changes nothing.
LEMMA FirstNTwice ==
    ASSUME NEW S, S \subseteq Nat, IsFiniteSet(S), NEW n \in Nat
    PROVE  FirstN(FirstN(S, n), n) = FirstN(S, n)
<1> DEFINE F == FirstN(S, n)
<1>1. F \subseteq S /\ \A i \in F, j \in S : j < i => j \in F
  BY FirstNFact
<1>2. \A i \in F : {j \in F : j < i} = {j \in S : j < i}
  BY <1>1
<1>3. \A i \in F : Cardinality({j \in F : j < i}) < n
  BY <1>2 DEF FirstN
<1> QED BY <1>3 DEF FirstN

\* Whether SQL or the loop does the filtering, a scan finds the first limit + 1
\* of the matches after the key.
LEMMA FoundFact ==
    ASSUME NEW T \in SUBSET VersionRow(Ids, Values), NEW r, NEW p,
           NEW after \in Nat, NEW limit \in Nat
    PROVE  /\ MatchesAt(T, r, p) \subseteq Ids
           /\ Found(T, r, p, after, limit)
                 = FirstN({i \in MatchesAt(T, r, p) : i > after}, limit + 1)
<1> DEFINE sql == {c \in ContentsAt(T, r) : SqlMatch(p, c[2]) /\ c[1] > after}
           S == {c[1] : c \in sql}
           M == {i \in MatchesAt(T, r, p) : i > after}
           hit(F) == {c[1] : c \in {d \in sql : d[1] \in F /\ Matches(p, d[2])}}
<1>0. Found(T, r, p, after, limit) = FirstN(hit(Fetched(p, S, limit)), limit + 1)
  BY DEF Found
<1>1. MatchesAt(T, r, p) \subseteq Ids
  BY DEF MatchesAt, ContentsAt, VersionRow
<1>2. S \subseteq Nat /\ IsFiniteSet(S)
  <2>1. S \in SUBSET Ids
    BY DEF ContentsAt, VersionRow
  <2>2. IsFiniteSet(Ids) /\ Ids \subseteq Nat
    BY PagingAssumption, FS_Interval DEF Ids
  <2> HIDE DEF S
  <2> QED BY <2>1, <2>2, FS_Subset
<1>3. CASE HasResidual(p)
  <2>1. Fetched(p, S, limit) = S
    BY <1>3 DEF Fetched
  <2>2. hit(S) = M
    BY DEF MatchesAt, Matches
  <2> QED BY <1>0, <1>1, <2>1, <2>2
<1>4. CASE ~HasResidual(p)
  <2>1. \A v : Matches(p, v) <=> SqlMatch(p, v)
    BY <1>4 DEF HasResidual, Matches
  <2>2. S = M
    BY <2>1 DEF MatchesAt
  <2>3. \A F : F \subseteq S => hit(F) = F
    BY <2>1
  <2>4. Fetched(p, S, limit) = FirstN(S, limit + 1)
    BY <1>4 DEF Fetched
  <2> HIDE DEF S, M, hit
  <2> DEFINE n == limit + 1
  <2>n. n \in Nat
    OBVIOUS
  <2> HIDE DEF n
  <2>5. FirstN(S, n) \subseteq S
    BY <1>2, <2>n, FirstNFact
  <2>6. FirstN(FirstN(S, n), n) = FirstN(S, n)
    BY <1>2, <2>n, FirstNTwice
  <2> USE DEF n
  <2>7. Found(T, r, p, after, limit) = FirstN(S, limit + 1)
    BY <1>0, <2>3, <2>4, <2>5, <2>6
  <2> USE DEF M
  <2> QED BY <1>1, <2>2, <2>7
<1> QED BY <1>3, <1>4

\* A page cut from the rows R still to be read: everything, or everything up to
\* the key that goes into the cursor.
LEMMA PageFact ==
    ASSUME NEW R \in SUBSET Ids, NEW limit \in Nat, limit # 0
    PROVE  LET found == FirstN(R, limit + 1)
               page == FirstN(found, limit)
               final == CHOOSE i \in page : \A j \in page : j <= i
           IN  /\ ~(Cardinality(found) > limit) => found = R
               /\ Cardinality(found) > limit =>
                     final \in R /\ page = {i \in R : i <= final}
<1> DEFINE found == FirstN(R, limit + 1)
           page == FirstN(found, limit)
           final == CHOOSE i \in page : \A j \in page : j <= i
<1>1. R \subseteq Nat /\ IsFiniteSet(R)
  <2>1. IsFiniteSet(Ids) /\ Ids \subseteq Nat
    BY PagingAssumption, FS_Interval DEF Ids
  <2> QED BY <2>1, FS_Subset
<1>2. /\ found \subseteq R
      /\ \A i \in found, j \in R : j < i => j \in found
      /\ IsFiniteSet(found)
      /\ Cardinality(found) < limit + 1 => found = R
  <2> DEFINE n == limit + 1
  <2>1. n \in Nat
    OBVIOUS
  <2>2. found = FirstN(R, n)
    OBVIOUS
  <2> HIDE DEF n, found
  <2>3. Cardinality(found) < n => found = R
    BY <1>1, <2>1, <2>2, FirstNFact
  <2>4. /\ found \subseteq R
        /\ \A i \in found, j \in R : j < i => j \in found
        /\ IsFiniteSet(found)
    BY <1>1, <2>1, <2>2, FirstNFact
  <2> QED BY <2>3, <2>4 DEF n
<1>3. Cardinality(found) \in Nat
  BY <1>2, FS_CardinalityType
<1>4. ASSUME ~(Cardinality(found) > limit) PROVE found = R
  BY <1>2, <1>3, <1>4
<1>5. ASSUME Cardinality(found) > limit
      PROVE  final \in R /\ page = {i \in R : i <= final}
  <2>1. found # {}
    BY <1>3, <1>5, FS_EmptySet
  <2> HIDE DEF found
  <2>2. /\ page \subseteq found
        /\ \A i \in page, j \in found : j < i => j \in page
        /\ page # {}
    BY <1>1, <1>2, <2>1, FirstNFact
  <2> HIDE DEF page
  <2>3. page \in SUBSET Nat /\ \A x \in page : x <= MaxId
    BY <1>2, <2>2, PagingAssumption DEF Ids
  <2>4. \E i \in page : \A j \in page : j <= i
    BY <2>2, <2>3, PagingAssumption, GreatestElement
  <2>5. final \in page /\ \A j \in page : j <= final
    BY <2>4
  <2> HIDE DEF final
  <2>6. ASSUME NEW i \in R, i <= final PROVE i \in page
    <3>1. i \in Nat /\ final \in Nat
      BY <1>1, <1>2, <2>2, <2>5
    <3>2. i = final \/ i < final
      BY <2>6, <3>1
    <3>3. final \in found
      BY <2>2, <2>5
    <3> QED BY <1>2, <2>2, <2>5, <3>2, <3>3
  <2> QED BY <1>2, <2>2, <2>5, <2>6
<1> QED BY <1>4, <1>5

-----------------------------------------------------------------------------
(* The invariant.                                                          *)

AnyPredicate == Predicates \cup {NoCursor.pred}

Shape ==
    /\ rows \in SUBSET VersionRow(Ids, Values)
    /\ Current \in Nat
    /\ DOMAIN times = 1..Current
    /\ req \in [pc : {"idle", "resolve", "scan"} \cup Ended, selector : Selectors,
                pred : AnyPredicate,
                cursor : [revision : Nat, pred : AnyPredicate, after : Ids \cup {0}],
                view : Nat]
    /\ req.view <= Current /\ req.cursor.revision <= Current
    /\ seen \in [ids : SUBSET Ids, served : Nat, bound : BOOLEAN, revision : Nat,
                 pred : AnyPredicate, swaps : Nat]
    /\ seen.revision <= Current

\* Between two pages the cursor says where the listing stands: nowhere before
\* the first page, and otherwise at the first page's revision and predicate.
CursorTracks ==
    /\ req.pc = "idle" => ~seen.bound
    /\ ~seen.bound => seen.ids = {} /\ req.cursor.after = 0
    /\ ~seen.bound /\ req.pc # "idle" => req.pred = seen.pred
    /\ seen.bound /\ req.pc \in {"resolve", "scan"} =>
          /\ req.cursor.after # 0
          /\ req.cursor.revision = seen.revision
          /\ req.cursor.pred = seen.pred

PInv == Shape /\ CursorTracks /\ PagesAreOneSnapshot /\ NoEntityTwice

\* Nothing has been read before anything was committed.
LEMMA InitPInv == Init => PInv
<1> SUFFICES ASSUME Init PROVE PInv
  OBVIOUS
<1>1. DOMAIN times = {}
  BY DEF Init
<1>2. Current = 0
  BY <1>1, FS_EmptySet DEF Current
<1>3. Shape
  <2>1. 1..0 = {}
    OBVIOUS
  <2> QED BY <1>1, <1>2, <2>1
        DEF Init, Shape, NothingSeen, NoCursor, Selectors, AnyPredicate
<1>4. CursorTracks /\ PagesAreOneSnapshot
  BY DEF Init, CursorTracks, PagesAreOneSnapshot, NothingSeen, NoCursor
<1>5. NoEntityTwice
  BY FS_EmptySet DEF Init, NoEntityTwice, NothingSeen
<1> QED BY <1>3, <1>4, <1>5 DEF PInv

\* A commit changes no snapshot of a revision sealed before it.
LEMMA SnapshotKept ==
    ASSUME PInv, CommitBatch
    PROVE  /\ rows' \in SUBSET VersionRow(Ids, Values)
           /\ Current' = Current + 1 /\ DOMAIN times' = 1..Current'
           /\ \A r \in 0..Current : ContentsAt(rows', r) = ContentsAt(rows, r)
<1> USE DEF PInv
<1>1. PICK batch \in Batches, t \in 1..MaxTime :
        /\ times' = [r \in 1..(Current + 1) |-> IF r = Current + 1 THEN t ELSE times[r]]
        /\ rows' = CloseCurrent(rows, Changed(batch), Current + 1)
                     \cup {NewRow(i, Current + 1, batch[i]) :
                              i \in {j \in Changed(batch) : batch[j] # Gone}}
  BY DEF CommitBatch
<1> DEFINE rev == Current + 1
           closed == CloseCurrent(rows, Changed(batch), rev)
           added == {NewRow(i, rev, batch[i]) : i \in {j \in Changed(batch) : batch[j] # Gone}}
<1>2. Current \in Nat /\ rev \in Nat /\ rows \in SUBSET VersionRow(Ids, Values)
  BY DEF Shape
<1>3. Current' = rev /\ DOMAIN times' = 1..rev
  <2>1. DOMAIN times' = 1..rev
    BY <1>1
  <2>2. Cardinality(1..rev) = rev
    BY <1>2, FS_Interval
  <2> QED BY <2>1, <2>2 DEF Current
<1>4. \A i \in Changed(batch) : i \in Ids /\ (batch[i] # Gone => batch[i] \in Values)
  BY PagingAssumption DEF Changed
<1>5. added \in SUBSET VersionRow(Ids, Values)
  BY <1>2, <1>4 DEF NewRow, VersionRow, Null
<1>6. closed \in SUBSET VersionRow(Ids, Values) /\ SameBefore(closed, rows, rev)
  BY <1>2, CloseFact
<1>7. rows' = closed \cup added
  BY <1>1
<1>8. \A v \in added : v.valid_from = rev
  BY DEF NewRow
<1> HIDE DEF closed, added
<1>9. ASSUME NEW r \in 0..Current PROVE ContentsAt(rows', r) = ContentsAt(rows, r)
  <2>1. r < rev /\ r \in Nat
    BY <1>2, <1>9
  <2>2. \A v \in added : ~VisibleAt(v, r)
    BY <1>2, <1>8, <2>1 DEF VisibleAt
  <2>3. {w \in rows' : VisibleAt(w, r)} = {w \in closed : VisibleAt(w, r)}
    BY <1>7, <2>2
  <2>4. ContentsAt(rows', r) = ContentsAt(closed, r)
    BY <2>3 DEF ContentsAt
  <2> QED BY <1>6, <2>1, <2>4 DEF SameBefore
<1> QED BY <1>3, <1>5, <1>6, <1>7, <1>9

\* A commit changes nothing at the revisions sealed before it.
LEMMA CommitPInv == PInv /\ CommitBatch => PInv'
<1> SUFFICES ASSUME PInv, CommitBatch PROVE PInv'
  OBVIOUS
<1> USE DEF PInv
<1>1. req' = req /\ seen' = seen
  BY DEF CommitBatch
<1>2. Current \in Nat /\ Current' = Current + 1
  BY SnapshotKept DEF Shape
<1>3. Shape'
  <2>1. rows' \in SUBSET VersionRow(Ids, Values) /\ DOMAIN times' = 1..Current'
    BY SnapshotKept
  <2> QED BY <1>1, <1>2, <2>1 DEF Shape
<1>4. CursorTracks' /\ NoEntityTwice'
  BY <1>1 DEF CursorTracks, NoEntityTwice
<1>5. seen.revision \in 0..Current
  BY <1>2 DEF Shape
<1>6. MatchesAt(rows', seen.revision, seen.pred) = MatchesAt(rows, seen.revision, seen.pred)
  BY <1>5, SnapshotKept DEF MatchesAt
<1>7. PagesAreOneSnapshot'
  BY <1>1, <1>6 DEF PagesAreOneSnapshot
<1> QED BY <1>3, <1>4, <1>7

\* The steps of the client other than a scan.
LEMMA ClientPInv ==
    PInv /\ (Start \/ Resolve \/ CountMatches \/ SwapRequest \/ Finish) => PInv'
<1> SUFFICES ASSUME PInv PROVE (Start \/ Resolve \/ CountMatches \/ SwapRequest \/ Finish) => PInv'
  OBVIOUS
<1> USE DEF PInv, Ended
<1>a. ASSUME UNCHANGED times PROVE Current' = Current
  BY <1>a DEF Current
<1>b. /\ NoCursor \in [revision : Nat, pred : AnyPredicate, after : Ids \cup {0}]
      /\ NoCursor.revision = 0 /\ NoCursor.after = 0
      /\ NoCursor.pred \in AnyPredicate /\ Predicates \subseteq AnyPredicate
  BY DEF NoCursor, AnyPredicate
<1>c. [kind |-> "current", at |-> 0] \in Selectors
  BY DEF Selectors
<1>1. ASSUME Start PROVE PInv'
  <2>1. PICK sel \in Selectors, p \in Predicates :
          /\ req.pc = "idle"
          /\ req' = [pc |-> "resolve", selector |-> sel, pred |-> p,
                     cursor |-> NoCursor, view |-> 0]
          /\ seen' = [NothingSeen EXCEPT !.pred = p]
          /\ UNCHANGED <<rows, times, tally>>
    BY <1>1 DEF Start
  <2>2. Shape'
    <3>1. p \in AnyPredicate
      BY <1>b
    <3>2. seen' = [ids |-> {}, served |-> 0, bound |-> FALSE, revision |-> 0,
                   pred |-> p, swaps |-> 0]
      BY <2>1 DEF NothingSeen
    <3>3. Current' = Current /\ UNCHANGED <<rows, times>>
      BY <1>a, <2>1
    <3>4. req' \in [pc : {"idle", "resolve", "scan"} \cup Ended, selector : Selectors,
                pred : AnyPredicate,
                cursor : [revision : Nat, pred : AnyPredicate, after : Ids \cup {0}],
                view : Nat]
          /\ req'.view = 0 /\ req'.cursor.revision = 0
      BY <1>b, <2>1, <3>1
    <3>5. seen' \in [ids : SUBSET Ids, served : Nat, bound : BOOLEAN, revision : Nat,
                     pred : AnyPredicate, swaps : Nat]
          /\ seen'.revision = 0
      BY <3>1, <3>2
    <3> QED BY <3>3, <3>4, <3>5 DEF Shape
  <2>3. CursorTracks' /\ PagesAreOneSnapshot'
    BY <2>1 DEF CursorTracks, PagesAreOneSnapshot, NothingSeen, NoCursor
  <2>4. NoEntityTwice'
    BY <2>1, FS_EmptySet DEF NoEntityTwice, NothingSeen
  <2> QED BY <2>2, <2>3, <2>4
<1>2. ASSUME Resolve PROVE PInv'
  <2>1. Resolved(EffectiveSelector) \in Nat
        /\ (Resolvable(EffectiveSelector) => Resolved(EffectiveSelector) <= Current)
    <3>1. /\ EffectiveSelector.at \in Nat
          /\ EffectiveSelector.kind \in {"current", "revision", "time"}
      BY PagingAssumption DEF EffectiveSelector, Shape, Selectors, HasCursor
    <3> DEFINE D == {r \in DOMAIN times : times[r] <= EffectiveSelector.at}
    <3>2. D \in SUBSET (1..Current) /\ Current \in Nat
      BY DEF Shape
    <3>3. Cardinality(D) \in Nat /\ Cardinality(D) <= Current
      <4> HIDE DEF D
      <4>1. IsFiniteSet(1..Current) /\ Cardinality(1..Current) = Current
        BY <3>2, FS_Interval
      <4> QED BY <3>2, <4>1, FS_Subset, FS_CardinalityType
    <3> QED BY <3>1, <3>2, <3>3 DEF Resolved, Resolvable
  <2>2. Shape'
    BY <1>a, <1>2, <2>1 DEF Shape, Resolve
  <2>3. CursorTracks' /\ PagesAreOneSnapshot' /\ NoEntityTwice'
    BY <1>2 DEF Resolve, CursorTracks, PagesAreOneSnapshot, NoEntityTwice, Shape
  <2> QED BY <2>2, <2>3
<1>3. ASSUME CountMatches PROVE PInv'
  BY <1>a, <1>3 DEF CountMatches, Shape, CursorTracks, PagesAreOneSnapshot, NoEntityTwice
<1>4. ASSUME SwapRequest PROVE PInv'
  <2>1. PICK sel \in Selectors, p \in Predicates :
          /\ req.pc = "resolve" /\ HasCursor
          /\ req' = [req EXCEPT !.selector = sel, !.pred = p]
          /\ seen' = [seen EXCEPT !.swaps = @ + 1]
          /\ UNCHANGED <<rows, times, tally>>
    BY <1>4 DEF SwapRequest
  <2>2. Shape'
    <3>1. p \in AnyPredicate
      BY <1>b
    <3>2. Current' = Current /\ UNCHANGED <<rows, times>>
      BY <1>a, <2>1
    <3>3. seen.swaps + 1 \in Nat
      BY DEF Shape
    <3> QED BY <2>1, <3>1, <3>2, <3>3 DEF Shape
  <2>3. CursorTracks' /\ PagesAreOneSnapshot' /\ NoEntityTwice'
    BY <2>1 DEF CursorTracks, PagesAreOneSnapshot, NoEntityTwice, Shape, HasCursor
  <2> QED BY <2>2, <2>3
<1>5. ASSUME Finish PROVE PInv'
  <2>1. Shape'
    <3>1. seen' = [ids |-> {}, served |-> 0, bound |-> FALSE, revision |-> 0,
                   pred |-> NoCursor.pred, swaps |-> 0]
      BY <1>5 DEF Finish, NothingSeen
    <3>2. Current' = Current /\ UNCHANGED <<rows, times>>
      BY <1>a, <1>5 DEF Finish
    <3>3. req' = [pc |-> "idle", selector |-> [kind |-> "current", at |-> 0],
                  pred |-> NoCursor.pred, cursor |-> NoCursor, view |-> 0]
      BY <1>5 DEF Finish, Shape
    <3> QED BY <1>b, <1>c, <3>1, <3>2, <3>3 DEF Shape
  <2>2. CursorTracks' /\ PagesAreOneSnapshot'
    BY <1>5 DEF Finish, CursorTracks, PagesAreOneSnapshot, NothingSeen, NoCursor, Shape
  <2>3. NoEntityTwice'
    BY <1>5, FS_EmptySet DEF Finish, NoEntityTwice, NothingSeen
  <2> QED BY <2>1, <2>2, <2>3
<1> QED BY <1>1, <1>2, <1>3, <1>4, <1>5

\* A scan adds the next stretch of the matches, or is refused.
LEMMA ScanPInv == PInv /\ Scan => PInv'
<1> SUFFICES ASSUME PInv, Scan PROVE PInv'
  OBVIOUS
<1> USE DEF PInv
<1>0. Current' = Current /\ UNCHANGED <<rows, times>>
  BY DEF Scan, Current
<1>1. PICK asked \in Limits :
        /\ req.pc = "scan"
        /\ \/ /\ req' = [req EXCEPT !.pc = "toolarge"]
              /\ UNCHANGED seen
           \/ /\ req' = [req EXCEPT !.pc = "foreign"]
              /\ UNCHANGED seen
           \/ /\ CursorMatches
              /\ Answer(Found(rows, req.view, req.pred, req.cursor.after, PageLimit(asked)),
                        PageLimit(asked))
  BY DEF Scan
<1>2. ASSUME NEW pc \in {"toolarge", "foreign"}, req' = [req EXCEPT !.pc = pc], UNCHANGED seen
      PROVE  PInv'
  BY <1>0, <1>1, <1>2
     DEF Shape, Ended, CursorTracks, PagesAreOneSnapshot, NoEntityTwice
<1>3. ASSUME CursorMatches,
             Answer(Found(rows, req.view, req.pred, req.cursor.after, PageLimit(asked)),
                    PageLimit(asked))
      PROVE  PInv'
  <2> DEFINE limit == PageLimit(asked)
             M == MatchesAt(rows, req.view, req.pred)
             R == {i \in M : i > req.cursor.after}
             found == FirstN(R, limit + 1)
             more == Cardinality(found) > limit
             page == IF more THEN FirstN(found, limit) ELSE found
             final == CHOOSE i \in page : \A j \in page : j <= i
  <2>1. limit \in Nat /\ limit # 0
    BY PagingAssumption DEF PageLimit
  <2>2. req.cursor.after \in Nat /\ rows \in SUBSET VersionRow(Ids, Values)
    BY PagingAssumption DEF Shape, Ids
  <2>3. M \subseteq Ids /\ Found(rows, req.view, req.pred, req.cursor.after, limit) = found
    <3> HIDE DEF limit
    <3>1. \A T \in SUBSET VersionRow(Ids, Values), a, n \in Nat : \A r, p :
            /\ MatchesAt(T, r, p) \subseteq Ids
            /\ Found(T, r, p, a, n) = FirstN({i \in MatchesAt(T, r, p) : i > a}, n + 1)
      BY FoundFact
    <3>2. \A a, n \in Nat : \A r, p :
            /\ MatchesAt(rows, r, p) \subseteq Ids
            /\ Found(rows, r, p, a, n) = FirstN({i \in MatchesAt(rows, r, p) : i > a}, n + 1)
      BY <2>2, <3>1, Zenon
    <3>3. limit \in Nat /\ req.cursor.after \in Nat
      BY <2>1, <2>2
    <3>4. \A r, p :
            /\ MatchesAt(rows, r, p) \subseteq Ids
            /\ Found(rows, r, p, req.cursor.after, limit)
                 = FirstN({i \in MatchesAt(rows, r, p) : i > req.cursor.after}, limit + 1)
      BY <3>2, <3>3, Zenon
    <3> QED BY <3>4, Zenon
  <2>4. R \in SUBSET Ids
    BY <2>3
  <2>5. /\ ~more => page = R
        /\ more => final \in R /\ page = {i \in R : i <= final}
    <3> HIDE DEF limit, R
    <3> QED BY <2>1, <2>4, PageFact
  <2>6. /\ req' = IF more
                  THEN [req EXCEPT !.pc = "resolve",
                            !.cursor = [revision |-> req.view, pred |-> req.pred, after |-> final]]
                  ELSE [req EXCEPT !.pc = "done"]
        /\ seen' = [seen EXCEPT !.ids = @ \cup page,
                                !.served = @ + Cardinality(page),
                                !.revision = IF seen.bound THEN @ ELSE req.view,
                                !.bound = TRUE]
    BY <1>3, <2>3 DEF Answer
  <2>7. /\ req.pred = seen.pred
        /\ seen.bound => req.view = seen.revision
        /\ seen.ids = {i \in M : i <= req.cursor.after}
    <3>1. CASE seen.bound
      BY <1>1, <1>3, <3>1 DEF CursorTracks, CursorMatches, HasCursor, PagesAreOneSnapshot
    <3>2. CASE ~seen.bound
      <4>1. req.cursor.after = 0 /\ seen.ids = {} /\ req.pred = seen.pred
        BY <1>1, <3>2 DEF CursorTracks
      <4>2. \A i \in M : ~(i <= 0)
        BY <2>3, PagingAssumption DEF Ids
      <4> QED BY <3>2, <4>1, <4>2
    <3> QED BY <3>1, <3>2
  <2>8. /\ page \subseteq R
        /\ page \cap seen.ids = {}
    <3>1. page \subseteq R
      BY <2>5
    <3>2. \A i \in R : ~(i <= req.cursor.after)
      BY <2>2, <2>3, PagingAssumption DEF Ids
    <3> QED BY <2>7, <3>1, <3>2
  <2>9. /\ IsFiniteSet(page) /\ IsFiniteSet(seen.ids)
        /\ Cardinality(page) \in Nat /\ Cardinality(seen.ids) \in Nat
    <3>1. IsFiniteSet(Ids)
      BY PagingAssumption, FS_Interval DEF Ids
    <3>2. page \in SUBSET Ids /\ seen.ids \in SUBSET Ids
      BY <2>3, <2>4, <2>7, <2>8
    <3> HIDE DEF page
    <3> QED BY <3>1, <3>2, FS_Subset, FS_CardinalityType
  <2> HIDE DEF M, R, found, more, page, final, limit
  <2>10. seen'.revision = req.view /\ seen'.pred = req.pred /\ seen'.bound
         /\ seen'.ids = seen.ids \cup page /\ seen'.served = seen.served + Cardinality(page)
    BY <2>6, <2>7 DEF Shape
  <2>11. NoEntityTwice'
    <3>1. Cardinality(seen.ids \cup page)
            = Cardinality(seen.ids) + Cardinality(page) - Cardinality(seen.ids \cap page)
      BY <2>9, FS_Union
    <3>2. Cardinality(seen.ids \cap page) = 0
      BY <2>8, FS_EmptySet
    <3>3. seen.served = Cardinality(seen.ids)
      BY DEF NoEntityTwice
    <3> QED BY <2>9, <2>10, <3>1, <3>2, <3>3 DEF NoEntityTwice
  <2>12. more => final \in Ids /\ final > req.cursor.after /\ final \in Nat
    BY <2>2, <2>4, <2>5, PagingAssumption DEF R, Ids
  <2>13. Shape'
    <3>1. /\ seen'.ids \in SUBSET Ids /\ seen'.served \in Nat
          /\ seen.ids \cup page \in SUBSET Ids /\ seen.served + Cardinality(page) \in Nat
      BY <2>4, <2>8, <2>9, <2>10 DEF Shape
    <3>2. seen' \in [ids : SUBSET Ids, served : Nat, bound : BOOLEAN, revision : Nat,
                     pred : AnyPredicate, swaps : Nat]
      BY <2>6, <3>1 DEF Shape
    <3>3. req' \in [pc : {"idle", "resolve", "scan"} \cup Ended, selector : Selectors,
                pred : AnyPredicate,
                cursor : [revision : Nat, pred : AnyPredicate, after : Ids \cup {0}],
                view : Nat]
          /\ req'.view = req.view
          /\ (req'.cursor.revision = req.view \/ req'.cursor = req.cursor)
      BY <2>6, <2>12 DEF Shape, Ended
    <3> QED BY <1>0, <2>10, <3>2, <3>3 DEF Shape
  <2>14. CursorTracks'
    <3>1. req'.pc # "idle" /\ req'.pc \in {"resolve", "done"}
          /\ (req'.pc = "resolve" => req'.cursor = [revision |-> req.view, pred |-> req.pred,
                                                    after |-> final] /\ more)
      BY <2>6 DEF Shape
    <3>2. more => final # 0
      BY <2>12, PagingAssumption DEF Ids
    <3> QED BY <2>10, <3>1, <3>2 DEF CursorTracks
  <2>15. PagesAreOneSnapshot'
    <3>1. MatchesAt(rows', seen'.revision, seen'.pred) = M
      BY <1>0, <2>10 DEF M
    <3>2. CASE more
      <4>1. req'.pc = "resolve" /\ req'.cursor.after = final
        BY <2>6, <3>2 DEF Shape
      <4>2. seen.ids \cup page = {i \in M : i <= final}
        <5>1. \A i \in M : i \in Nat /\ req.cursor.after \in Nat /\ final \in Nat
                            /\ final > req.cursor.after
          BY <2>2, <2>3, <2>12, <3>2, PagingAssumption DEF Ids
        <5>2. \A i \in M : i <= final <=> (i <= req.cursor.after \/ (i > req.cursor.after /\ i <= final))
          BY <5>1
        <5> QED BY <2>5, <2>7, <3>2, <5>2 DEF R
      <4> QED BY <2>10, <3>1, <4>1, <4>2 DEF PagesAreOneSnapshot
    <3>3. CASE ~more
      <4>1. req'.pc = "done"
        BY <2>6, <3>3 DEF Shape
      <4>2. seen.ids \cup page = M
        <5>1. \A i \in M : i <= req.cursor.after \/ i > req.cursor.after
          BY <2>2, <2>3, PagingAssumption DEF Ids
        <5> QED BY <2>5, <2>7, <3>3, <5>1 DEF R
      <4> QED BY <2>10, <3>1, <4>1, <4>2 DEF PagesAreOneSnapshot
    <3> QED BY <3>2, <3>3
  <2> QED BY <2>11, <2>13, <2>14, <2>15
<1> QED BY <1>1, <1>2, <1>3

\* The invariant holds in every reachable state.
THEOREM PagingInvariance == Spec => []PInv
<1>1. PInv /\ [Next]_vars => PInv'
  <2> SUFFICES ASSUME PInv, [Next]_vars PROVE PInv'
    OBVIOUS
  <2>1. CASE UNCHANGED vars
    BY <2>1 DEF vars, PInv, Shape, Current, CursorTracks, PagesAreOneSnapshot, NoEntityTwice
  <2>2. CASE Next
    BY <2>2, CommitPInv, ClientPInv, ScanPInv DEF Next
  <2> QED BY <2>1, <2>2
<1> QED BY <1>1, InitPInv, PTL DEF Spec

\* However commits, page limits and swapped requests interleave, the pages are
\* the matches of one revision, in order and complete.
THEOREM PagesExact == Spec => []PagesAreOneSnapshot
BY PagingInvariance, PTL DEF PInv

\* ... and no entity is served twice.
THEOREM PagesDisjoint == Spec => []NoEntityTwice
BY PagingInvariance, PTL DEF PInv

-----------------------------------------------------------------------------
(* What a client is told besides the pages: the number of matches, and     *)
(* whether its continuation is accepted.                                   *)

\* The commit times of the sealed revisions increase.
TimesIncrease ==
    /\ \A r \in 1..Current : times[r] \in Nat
    /\ \A r, q \in 1..Current : r < q => times[r] < times[q]

\* No version is from the future, and at no revision are two versions of one
\* entity visible.
OneVersion ==
    /\ \A v \in rows : v.valid_from <= Current /\ v.valid_to <= Current
    /\ \A v, w \in rows : \A r \in 0..Current :
          v.id = w.id /\ VisibleAt(v, r) /\ VisibleAt(w, r) => v = w

\* Revision rev is one that the selector of the request may stand for.
Fits(rev) ==
    /\ req.selector.kind = "revision" => rev = req.selector.at
    /\ req.selector.kind = "time" => \A r \in 1..rev : times[r] <= req.selector.at

\* A client that keeps its request looks at the revision it began with, unless
\* it selected by time and a later revision has come to lie within that time.
RequestKept ==
    seen.swaps = 0 =>
        /\ seen.bound => Fits(seen.revision)
        /\ req.pc = "scan" => Fits(req.view)
        /\ req.pc \in {"resolve", "scan"} => req.pred = seen.pred
        /\ seen.bound /\ req.pc = "scan" =>
              \/ req.view = seen.revision
              \/ req.selector.kind = "time" /\ seen.revision < req.view

\* A count that was taken is that of the snapshot the listing is bound to.
CountTracks ==
    tally.taken =>
        /\ req.pc # "idle" /\ (seen.bound \/ req.pc # "resolve")
        /\ seen.bound => tally.n = Cardinality(MatchesAt(rows, seen.revision, seen.pred))
        /\ ~seen.bound /\ req.pc = "scan" => tally.n = Cardinality(MatchesAt(rows, req.view, req.pred))

\* A listing ends with its last page.
DoneIsBound == req.pc = "done" => seen.bound

AInv ==
    /\ TimesIncrease
    /\ OneVersion
    /\ RequestKept
    /\ CountTracks
    /\ DoneIsBound
    /\ ContinuationAccepted

\* A set of revisions that holds every revision before one of its own is an
\* initial stretch, as long as the set is large.
LEMMA InitialStretch ==
    ASSUME NEW n \in Nat, NEW D \in SUBSET (1..n),
           \A r \in D : \A q \in 1..n : q < r => q \in D
    PROVE  Cardinality(D) \in Nat /\ Cardinality(D) <= n /\ D = 1..Cardinality(D)
<1>1. CASE D = {}
  <2>1. Cardinality(D) = 0 /\ 1..0 = {}
    BY <1>1, FS_EmptySet
  <2> QED BY <1>1, <2>1
<1>2. CASE D # {}
  <2>1. D \in SUBSET Nat /\ \A x \in D : x <= n
    OBVIOUS
  <2>2. PICK g \in D : \A y \in D : y <= g
    BY <1>2, <2>1, GreatestElement
  <2>3. g \in 1..n
    OBVIOUS
  <2>4. D = 1..g
    <3>1. D \subseteq 1..g
      BY <2>2, <2>3
    <3>2. ASSUME NEW q \in 1..g PROVE q \in D
      <4>1. q \in 1..n /\ (q = g \/ q < g)
        BY <2>3
      <4> QED BY <4>1
    <3> QED BY <3>1, <3>2
  <2>5. Cardinality(1..g) = g
    BY <2>3, FS_Interval
  <2> QED BY <2>3, <2>4, <2>5
<1> QED BY <1>1, <1>2

\* countNodes counts the entities that match, whichever way it counts.
LEMMA CountFact ==
    ASSUME PInv, OneVersion, NEW r \in 0..Current, NEW p
    PROVE  /\ CountAt(rows, r, p) = Cardinality(MatchesAt(rows, r, p))
           /\ CountAt(rows, r, p) \in Nat
<1> DEFINE C == {c \in ContentsAt(rows, r) : Matches(p, c[2])}
           M == MatchesAt(rows, r, p)
           f == [c \in C |-> c[1]]
<1>1. CountAt(rows, r, p) = Cardinality(C)
  <2>1. CASE HasResidual(p)
    <3>1. {c \in ContentsAt(rows, r) : SqlMatch(p, c[2]) /\ Matches(p, c[2])} = C
      BY DEF Matches
    <3> HIDE DEF C
    <3> QED BY <2>1, <3>1 DEF CountAt
  <2>2. CASE ~HasResidual(p)
    <3>1. {c \in ContentsAt(rows, r) : SqlMatch(p, c[2])} = C
      BY <2>2 DEF HasResidual, Matches
    <3> HIDE DEF C
    <3> QED BY <2>2, <3>1 DEF CountAt
  <2> QED BY <2>1, <2>2
<1>2. M \in SUBSET Ids /\ IsFiniteSet(Ids)
  <2>1. M \subseteq Ids
    BY DEF PInv, Shape, MatchesAt, ContentsAt, VersionRow
  <2>2. IsFiniteSet(Ids)
    BY PagingAssumption, FS_Interval DEF Ids
  <2> QED BY <2>1, <2>2
<1>3. IsFiniteSet(M) /\ Cardinality(M) \in Nat
  <2> HIDE DEF M
  <2> QED BY <1>2, FS_Subset, FS_CardinalityType
<1>4. f \in Surjection(C, M)
  <2>1. \A c \in C : c[1] \in M
    BY DEF MatchesAt
  <2>2. \A i \in M : \E c \in C : c[1] = i
    BY DEF MatchesAt
  <2> HIDE DEF C, M
  <2> QED BY <2>1, <2>2 DEF Surjection
<1>5. f \in Injection(C, M)
  <2>1. ASSUME NEW c \in C, NEW d \in C, c[1] = d[1] PROVE c = d
    <3>1. PICK v \in rows : VisibleAt(v, r) /\ c = <<v.id, v.value>>
      BY DEF ContentsAt
    <3>2. PICK w \in rows : VisibleAt(w, r) /\ d = <<w.id, w.value>>
      BY DEF ContentsAt
    <3>3. v.id = w.id
      BY <2>1, <3>1, <3>2
    <3>4. v = w
      BY <3>1, <3>2, <3>3 DEF OneVersion
    <3> QED BY <3>1, <3>2, <3>4
  <2> HIDE DEF C, M
  <2>2. f \in [C -> M]
    BY <1>4 DEF Surjection
  <2> QED BY <2>1, <2>2 DEF Injection, IsInjective
<1> HIDE DEF C, M, f
<1>6. Cardinality(C) = Cardinality(M)
  BY <1>3, <1>4, <1>5, FS_Injection
<1> QED BY <1>1, <1>3, <1>6 DEF M

\* Initially nothing has been asked.
LEMMA InitAInv == Init => AInv
<1> SUFFICES ASSUME Init PROVE AInv
  OBVIOUS
<1>1. Current = 0 /\ 1..0 = {}
  BY FS_EmptySet DEF Init, Current
<1>2. TimesIncrease /\ OneVersion
  BY <1>1 DEF Init, TimesIncrease, OneVersion
<1>3. RequestKept /\ CountTracks /\ DoneIsBound /\ ContinuationAccepted
  BY DEF Init, RequestKept, CountTracks, DoneIsBound, ContinuationAccepted, NothingSeen, NoTally
<1> QED BY <1>2, <1>3 DEF AInv

\* A commit closes the version it replaces and opens the new one at the same
\* revision; no snapshot that was read or counted changes.
LEMMA CommitAInv == PInv /\ AInv /\ CommitBatch => AInv'
<1> SUFFICES ASSUME PInv, AInv, CommitBatch PROVE AInv'
  OBVIOUS
<1> DEFINE rev == Current + 1
<1>1. PICK batch \in Batches, t \in 1..MaxTime :
        /\ \A r \in DOMAIN times : times[r] < t
        /\ Applicable(batch)
        /\ times' = [r \in 1..rev |-> IF r = rev THEN t ELSE times[r]]
        /\ rows' = CloseCurrent(rows, Changed(batch), rev)
                     \cup {NewRow(i, rev, batch[i]) :
                              i \in {j \in Changed(batch) : batch[j] # Gone}}
        /\ UNCHANGED <<req, seen, tally>>
  BY DEF CommitBatch
<1>2. /\ Current \in Nat /\ rev \in Nat /\ DOMAIN times = 1..Current
      /\ rows \in SUBSET VersionRow(Ids, Values)
  BY DEF PInv, Shape
<1>3. Current' = rev /\ DOMAIN times' = 1..rev
  <2>1. DOMAIN times' = 1..rev
    BY <1>1
  <2>2. Cardinality(1..rev) = rev
    BY <1>2, FS_Interval
  <2> QED BY <2>1, <2>2 DEF Current
<1>4. t \in Nat /\ times'[rev] = t /\ \A r \in 1..Current : r \in 1..rev /\ times'[r] = times[r]
  BY <1>1, <1>2, PagingAssumption
<1>5. TimesIncrease'
  <2>1. \A r \in 1..rev : r = rev \/ r \in 1..Current
    BY <1>2
  <2>2. \A r \in 1..rev : times'[r] \in Nat
    BY <1>4, <2>1 DEF AInv, TimesIncrease
  <2>3. ASSUME NEW r \in 1..rev, NEW q \in 1..rev, r < q PROVE times'[r] < times'[q]
    <3>1. r \in 1..Current
      BY <1>2, <2>3
    <3>2. CASE q = rev
      BY <1>1, <1>2, <1>4, <3>1, <3>2
    <3>3. CASE q \in 1..Current
      BY <1>4, <2>3, <3>1, <3>3 DEF AInv, TimesIncrease
    <3> QED BY <2>1, <3>2, <3>3
  <2> QED BY <1>3, <2>2, <2>3 DEF TimesIncrease
<1> DEFINE ids == Changed(batch)
           Closed(v) == IF v.id \in ids /\ IsCurrent(v) THEN [v EXCEPT !.valid_to = rev] ELSE v
           added == {NewRow(i, rev, batch[i]) : i \in {j \in ids : batch[j] # Gone}}
<1>6. rows' = {Closed(v) : v \in rows} \cup added
  BY <1>1 DEF CloseCurrent
<1>7. \A v \in rows :
        /\ v.valid_from \in Nat /\ v.valid_to \in Nat
        /\ v.valid_from <= Current /\ v.valid_to <= Current
        /\ Closed(v).id = v.id /\ Closed(v).valid_from = v.valid_from
        /\ Closed(v).valid_to = IF v.id \in ids /\ v.valid_to = 0 THEN rev ELSE v.valid_to
  BY <1>2 DEF AInv, OneVersion, VersionRow, IsCurrent, Null
<1>8. \A w \in added : w.id \in ids /\ w.valid_from = rev /\ w.valid_to = 0
  BY DEF NewRow, Null
<1>9. \A v, w \in added : v.id = w.id => v = w
  BY DEF NewRow
<1> HIDE DEF ids, added, Closed
<1>10. OneVersion'
  <2>1. ASSUME NEW v \in rows' PROVE v.valid_from <= rev /\ v.valid_to <= rev
    <3>1. CASE v \in added
      BY <1>2, <1>8, <3>1
    <3>2. CASE \E w \in rows : v = Closed(w)
      BY <1>2, <1>7, <3>2
    <3> QED BY <1>6, <3>1, <3>2
  <2>2. ASSUME NEW v \in rows, NEW r \in 0..rev, VisibleAt(Closed(v), r)
        PROVE  \/ r \in 0..Current /\ VisibleAt(v, r)
               \/ r = rev /\ v.id \notin ids /\ VisibleAt(v, Current)
    <3>1. r \in 0..Current \/ r = rev
      BY <1>2
    <3>2. CASE r \in 0..Current
      BY <1>2, <1>7, <2>2, <3>2 DEF VisibleAt, IsCurrent, Null
    <3>3. CASE r = rev
      BY <1>2, <1>7, <2>2, <3>3 DEF VisibleAt, IsCurrent, Null
    <3> QED BY <3>1, <3>2, <3>3
  <2>3. ASSUME NEW v \in added, NEW r \in 0..rev, VisibleAt(v, r) PROVE r = rev /\ v.id \in ids
    BY <1>2, <1>8, <2>3 DEF VisibleAt
  <2>4. ASSUME NEW v \in rows, NEW w \in rows, NEW r \in 0..rev, v.id = w.id,
               VisibleAt(Closed(v), r), VisibleAt(Closed(w), r)
        PROVE  v = w
    <3>1. Current \in 0..Current /\ rev \notin 0..Current
      BY <1>2
    <3>2. \E q \in 0..Current : VisibleAt(v, q) /\ VisibleAt(w, q)
      BY <2>2, <2>4, <3>1
    <3> QED BY <2>4, <3>2 DEF AInv, OneVersion
  <2>5. ASSUME NEW v \in rows', NEW w \in rows', NEW r \in 0..rev,
               v.id = w.id, VisibleAt(v, r), VisibleAt(w, r)
        PROVE  v = w
    <3>0. rev \notin 0..Current
      BY <1>2
    <3>1. CASE v \in added /\ w \in added
      BY <1>9, <2>5, <3>1
    <3>2. CASE v \in added /\ w \notin added
      <4>1. PICK x \in rows : w = Closed(x)
        BY <1>6, <3>2
      <4>2. r = rev /\ x.id \in ids
        BY <1>7, <2>3, <2>5, <3>2, <4>1
      <4> QED BY <2>2, <2>5, <3>0, <4>1, <4>2
    <3>3. CASE w \in added /\ v \notin added
      <4>1. PICK x \in rows : v = Closed(x)
        BY <1>6, <3>3
      <4>2. r = rev /\ x.id \in ids
        BY <1>7, <2>3, <2>5, <3>3, <4>1
      <4> QED BY <2>2, <2>5, <3>0, <4>1, <4>2
    <3>4. CASE v \notin added /\ w \notin added
      <4>1. PICK x \in rows : v = Closed(x)
        BY <1>6, <3>4
      <4>2. PICK y \in rows : w = Closed(y)
        BY <1>6, <3>4
      <4>3. x.id = y.id
        BY <1>7, <2>5, <4>1, <4>2
      <4>4. x = y
        BY <2>4, <2>5, <4>1, <4>2, <4>3
      <4> QED BY <4>1, <4>2, <4>4
    <3> QED BY <3>1, <3>2, <3>3, <3>4
  <2> QED BY <1>3, <2>1, <2>5 DEF OneVersion
<1>11. \A r \in 0..Current : \A p : MatchesAt(rows', r, p) = MatchesAt(rows, r, p)
  BY SnapshotKept DEF MatchesAt
<1>12. RequestKept'
  <2>1. req' = req /\ seen' = seen
    BY <1>1
  <2>2. ASSUME NEW q \in Nat, q <= Current, Fits(q) PROVE Fits(q)'
    <3>1. \A r \in 1..q : r \in 1..Current
      BY <1>2, <2>2
    <3> QED BY <1>4, <2>1, <2>2, <3>1 DEF Fits
  <2>3. seen.revision \in Nat /\ seen.revision <= Current /\ req.view \in Nat /\ req.view <= Current
    BY DEF PInv, Shape
  <2>4. /\ Fits(seen.revision) => Fits(seen.revision)'
        /\ Fits(req.view) => Fits(req.view)'
    BY <2>1, <2>2, <2>3 DEF Fits
  <2> QED BY <2>1, <2>4 DEF AInv, RequestKept
<1>13. CountTracks'
  <2>1. seen.revision \in 0..Current /\ req.view \in 0..Current
    BY <1>2 DEF PInv, Shape
  <2>2. req' = req /\ seen' = seen /\ tally' = tally
    BY <1>1
  <2> QED BY <1>11, <2>1, <2>2 DEF AInv, CountTracks
<1>14. DoneIsBound' /\ ContinuationAccepted'
  BY <1>1, <1>2, <1>3, <1>4 DEF AInv, DoneIsBound, ContinuationAccepted
<1> QED BY <1>5, <1>10, <1>12, <1>13, <1>14 DEF AInv

\* What the table and the clock are like is not the client's doing.
LEMMA TablesKept ==
    ASSUME AInv, UNCHANGED <<rows, times>>
    PROVE  TimesIncrease' /\ OneVersion' /\ Current' = Current
BY DEF AInv, TimesIncrease, OneVersion, Current

\* View: what the selector stands for now.
LEMMA ResolvedFact ==
    ASSUME PInv, AInv, Resolvable(EffectiveSelector)
    PROVE  LET view == Resolved(EffectiveSelector) IN
           /\ view \in 0..Current
           /\ HasCursor /\ req.selector.kind = "current" => view = req.cursor.revision
           /\ req.selector.kind # "current" => Fits(view)
           /\ req.selector.kind = "time" =>
                 \A q \in 0..Current : Fits(q) => q <= view
<1> DEFINE sel == EffectiveSelector
           view == Resolved(EffectiveSelector)
<1>1. Current \in Nat /\ DOMAIN times = 1..Current /\ req.cursor.revision \in 0..Current
  BY DEF PInv, Shape
<1>2. /\ req.selector.kind \in {"current", "revision", "time"}
      /\ req.selector.at \in Nat
  BY PagingAssumption DEF PInv, Shape, Selectors
<1>3. CASE req.selector.kind = "current"
  <2>1. CASE HasCursor
    <3>1. sel.kind = "revision" /\ sel.at = req.cursor.revision
      BY <1>3, <2>1 DEF EffectiveSelector
    <3> QED BY <1>1, <1>3, <3>1 DEF Resolved
  <2>2. CASE ~HasCursor
    <3>1. sel = req.selector
      BY <2>2 DEF EffectiveSelector
    <3> QED BY <1>1, <1>3, <2>2, <3>1 DEF Resolved
  <2> QED BY <2>1, <2>2
<1>4. CASE req.selector.kind = "revision"
  <2>1. sel = req.selector
    BY <1>4 DEF EffectiveSelector
  <2> QED BY <1>1, <1>2, <1>4, <2>1 DEF Resolved, Resolvable, Fits
<1>5. CASE req.selector.kind = "time"
  <2>1. sel = req.selector
    BY <1>5 DEF EffectiveSelector
  <2> DEFINE D == {r \in 1..Current : times[r] <= req.selector.at}
  <2>2. view = Cardinality(D)
    BY <1>1, <1>5, <2>1 DEF Resolved
  <2>3. \A r \in D : \A q \in 1..Current : q < r => q \in D
    <3> SUFFICES ASSUME NEW r \in D, NEW q \in 1..Current, q < r PROVE q \in D
      OBVIOUS
    <3>1. times[q] < times[r] /\ times[q] \in Nat /\ times[r] \in Nat
      BY DEF AInv, TimesIncrease
    <3> QED BY <1>2, <3>1
  <2>4. D \in SUBSET (1..Current)
    OBVIOUS
  <2>5. Cardinality(D) \in Nat /\ Cardinality(D) <= Current /\ D = 1..Cardinality(D)
    <3> HIDE DEF D
    <3> QED BY <1>1, <2>3, <2>4, InitialStretch
  <2> HIDE DEF view
  <2>6. D = 1..view /\ view \in 0..Current
    BY <1>1, <2>2, <2>5
  <2>7. Fits(view)
    <3>1. \A r \in 1..view : times[r] <= req.selector.at
      BY <2>6
    <3> QED BY <1>5, <3>1 DEF Fits
  <2>8. ASSUME NEW q \in 0..Current, Fits(q) PROVE q <= view
    <3>1. CASE q = 0
      BY <1>1, <2>6, <3>1
    <3>2. CASE q # 0
      <4>1. q \in 1..q /\ q \in 1..Current
        BY <1>1, <3>2
      <4>2. times[q] <= req.selector.at
        BY <1>5, <2>8, <4>1 DEF Fits
      <4>3. q \in 1..view
        BY <2>6, <4>1, <4>2
      <4> QED BY <1>1, <2>6, <4>3
    <3> QED BY <3>1, <3>2
  <2>9. /\ view \in 0..Current
        /\ Fits(view)
        /\ \A q \in 0..Current : Fits(q) => q <= view
    BY <2>6, <2>7, <2>8
  <2> QED BY <1>5, <2>9 DEF view
<1> QED BY <1>2, <1>3, <1>4, <1>5

\* Resolving a selector finds the bound revision again, or a later one by time.
LEMMA ResolveAInv == PInv /\ AInv /\ Resolve => AInv'
<1> SUFFICES ASSUME PInv, AInv, Resolve PROVE AInv'
  OBVIOUS
<1>1. /\ req.pc = "resolve" /\ UNCHANGED <<rows, times, seen, tally>>
      /\ req' = IF Resolvable(EffectiveSelector)
                THEN [req EXCEPT !.pc = "scan", !.view = Resolved(EffectiveSelector)]
                ELSE [req EXCEPT !.pc = "unknown"]
  BY DEF Resolve
<1>2. TimesIncrease' /\ OneVersion' /\ Current' = Current
  BY <1>1, TablesKept
<1>3. seen.revision \in 0..Current /\ Current \in Nat
  BY DEF PInv, Shape
<1>4. seen.bound => HasCursor /\ req.cursor.revision = seen.revision /\ req.cursor.revision <= Current
  BY <1>1 DEF PInv, CursorTracks, Shape, HasCursor
<1>5. CASE Resolvable(EffectiveSelector)
  <2> DEFINE view == Resolved(EffectiveSelector)
  <2>1. /\ view \in 0..Current
        /\ HasCursor /\ req.selector.kind = "current" => view = req.cursor.revision
        /\ req.selector.kind # "current" => Fits(view)
        /\ req.selector.kind = "time" => \A q \in 0..Current : Fits(q) => q <= view
    BY <1>5, ResolvedFact
  <2> HIDE DEF view
  <2>2. req'.pc = "scan" /\ req'.view = view /\ req'.selector = req.selector /\ req'.pred = req.pred
    BY <1>1, <1>5 DEF PInv, Shape, view
  <2>3. \A q : Fits(q)' <=> Fits(q)
    BY <1>1, <2>2 DEF Fits
  <2>4. Fits(view)
    BY <2>1 DEF Fits
  <2>5. ASSUME seen.swaps = 0, seen.bound
        PROVE  view = seen.revision \/ (req.selector.kind = "time" /\ seen.revision < view)
    <3>1. Fits(seen.revision)
      BY <2>5 DEF AInv, RequestKept
    <3>2. CASE req.selector.kind = "current"
      BY <1>4, <2>1, <2>5, <3>2
    <3>3. CASE req.selector.kind = "revision"
      BY <2>4, <3>1, <3>3 DEF Fits
    <3>4. CASE req.selector.kind = "time"
      BY <1>3, <2>1, <3>1, <3>4
    <3> QED BY <3>2, <3>3, <3>4 DEF PInv, Shape, Selectors
  <2>6. RequestKept'
    BY <1>1, <2>2, <2>3, <2>4, <2>5 DEF AInv, RequestKept
  <2>7. CountTracks' /\ DoneIsBound'
    BY <1>1, <2>2 DEF AInv, CountTracks, DoneIsBound
  <2>8. ContinuationAccepted'
    BY <1>1, <2>2 DEF ContinuationAccepted
  <2> QED BY <1>2, <2>6, <2>7, <2>8 DEF AInv
<1>6. CASE ~Resolvable(EffectiveSelector)
  <2>1. req' = [req EXCEPT !.pc = "unknown"]
    BY <1>1, <1>6
  <2>2. ~(seen.bound /\ seen.swaps = 0)
    <3> SUFFICES ASSUME seen.bound, seen.swaps = 0 PROVE FALSE
      OBVIOUS
    <3>1. EffectiveSelector.kind = "revision" /\ ~(EffectiveSelector.at <= Current)
      BY <1>6 DEF Resolvable
    <3>2. CASE req.selector.kind = "current"
      BY <1>4, <3>1, <3>2 DEF EffectiveSelector
    <3>3. CASE req.selector.kind = "revision"
      <4>1. EffectiveSelector = req.selector
        BY <3>3 DEF EffectiveSelector
      <4>2. seen.revision = req.selector.at
        BY <3>3 DEF AInv, RequestKept, Fits
      <4> QED BY <1>3, <3>1, <4>1, <4>2
    <3>4. CASE req.selector.kind = "time"
      BY <3>1, <3>4 DEF EffectiveSelector
    <3> QED BY <3>2, <3>3, <3>4 DEF PInv, Shape, Selectors
  <2>3. req'.pc = "unknown" /\ req'.selector = req.selector
    BY <2>1 DEF PInv, Shape
  <2>4. RequestKept' /\ ContinuationAccepted'
    <3>1. \A q : Fits(q)' <=> Fits(q)
      BY <1>1, <2>3 DEF Fits
    <3> QED BY <1>1, <2>2, <2>3, <3>1 DEF AInv, RequestKept, ContinuationAccepted
  <2>5. CountTracks' /\ DoneIsBound'
    BY <1>1, <2>3 DEF AInv, CountTracks, DoneIsBound
  <2> QED BY <1>2, <2>4, <2>5 DEF AInv
<1> QED BY <1>5, <1>6

\* The steps of the client itself.
LEMMA ClientAInv ==
    PInv /\ AInv /\ (Start \/ CountMatches \/ SwapRequest \/ Finish) => AInv'
<1> SUFFICES ASSUME PInv, AInv PROVE (Start \/ CountMatches \/ SwapRequest \/ Finish) => AInv'
  OBVIOUS
<1>1. ASSUME Start PROVE AInv'
  <2>1. PICK sel \in Selectors, p \in Predicates :
          /\ req.pc = "idle"
          /\ req' = [pc |-> "resolve", selector |-> sel, pred |-> p,
                     cursor |-> NoCursor, view |-> 0]
          /\ seen' = [NothingSeen EXCEPT !.pred = p]
          /\ UNCHANGED <<rows, times, tally>>
    BY <1>1 DEF Start
  <2>2. TimesIncrease' /\ OneVersion'
    BY <2>1, TablesKept
  <2>3. seen'.bound = FALSE /\ seen'.pred = p /\ req'.pc = "resolve" /\ req'.pred = p /\ ~tally'.taken
    BY <2>1 DEF NothingSeen, AInv, CountTracks
  <2> QED BY <2>2, <2>3 DEF AInv, RequestKept, CountTracks, DoneIsBound, ContinuationAccepted
<1>2. ASSUME CountMatches PROVE AInv'
  <2>1. /\ req.pc = "scan" /\ ~seen.bound
        /\ tally' = [taken |-> TRUE, n |-> CountAt(rows, req.view, req.pred)]
        /\ UNCHANGED <<rows, times, req, seen>>
    BY <1>2 DEF CountMatches
  <2>2. TimesIncrease' /\ OneVersion'
    BY <2>1, TablesKept
  <2>3. req.view \in 0..Current
    BY DEF PInv, Shape
  <2>4. tally'.n = Cardinality(MatchesAt(rows, req.view, req.pred))
    BY <2>1, <2>3, CountFact DEF AInv
  <2>5. CountTracks'
    BY <2>1, <2>4 DEF CountTracks
  <2>6. RequestKept' /\ DoneIsBound' /\ ContinuationAccepted'
    BY <2>1 DEF AInv, RequestKept, Fits, DoneIsBound, ContinuationAccepted
  <2> QED BY <2>2, <2>5, <2>6 DEF AInv
<1>3. ASSUME SwapRequest PROVE AInv'
  <2>1. PICK sel \in Selectors, p \in Predicates :
          /\ req.pc = "resolve" /\ HasCursor
          /\ req' = [req EXCEPT !.selector = sel, !.pred = p]
          /\ seen' = [seen EXCEPT !.swaps = @ + 1]
          /\ UNCHANGED <<rows, times, tally>>
    BY <1>3 DEF SwapRequest
  <2>2. TimesIncrease' /\ OneVersion'
    BY <2>1, TablesKept
  <2>3. /\ seen'.swaps # 0 /\ seen'.bound = seen.bound /\ seen'.revision = seen.revision
        /\ seen'.pred = seen.pred /\ req'.pc = req.pc
    BY <2>1 DEF PInv, Shape
  <2> QED BY <2>1, <2>2, <2>3 DEF AInv, RequestKept, CountTracks, DoneIsBound, ContinuationAccepted
<1>4. ASSUME Finish PROVE AInv'
  <2>1. /\ seen' = NothingSeen /\ tally' = NoTally /\ UNCHANGED <<rows, times>>
        /\ req'.pc = "idle"
    BY <1>4 DEF Finish, PInv, Shape
  <2>2. TimesIncrease' /\ OneVersion'
    BY <2>1, TablesKept
  <2> QED BY <2>1, <2>2 DEF AInv, RequestKept, CountTracks, DoneIsBound, ContinuationAccepted,
                            NothingSeen, NoTally
<1> QED BY <1>1, <1>2, <1>3, <1>4

\* A page binds the listing to the view it was read from, the view that was
\* counted; a cursor that does not match its view comes from a changed request
\* or from a time that a later revision has come to lie within.
LEMMA ScanAInv == PInv /\ AInv /\ Scan => AInv'
<1> SUFFICES ASSUME PInv, AInv, Scan PROVE AInv'
  OBVIOUS
<1>1. PICK asked \in Limits :
        /\ req.pc = "scan" /\ UNCHANGED <<rows, times, tally>>
        /\ \/ req' = [req EXCEPT !.pc = "toolarge"] /\ UNCHANGED seen
           \/ ~CursorMatches /\ req' = [req EXCEPT !.pc = "foreign"] /\ UNCHANGED seen
           \/ /\ CursorMatches
              /\ Answer(Found(rows, req.view, req.pred, req.cursor.after, PageLimit(asked)),
                        PageLimit(asked))
  BY DEF Scan
<1>2. TimesIncrease' /\ OneVersion' /\ Current' = Current
  BY <1>1, TablesKept
<1>3. /\ Current \in Nat /\ DOMAIN times = 1..Current /\ req.view \in Nat /\ req.view <= Current
      /\ seen.revision \in Nat
  BY DEF PInv, Shape
<1>4. CASE req' = [req EXCEPT !.pc = "toolarge"] /\ UNCHANGED seen
  <2>1. req'.pc = "toolarge" /\ req'.selector = req.selector
    BY <1>4 DEF PInv, Shape
  <2>2. \A q : Fits(q)' <=> Fits(q)
    BY <1>1, <2>1 DEF Fits
  <2> QED BY <1>1, <1>2, <1>4, <2>1, <2>2
        DEF AInv, RequestKept, CountTracks, DoneIsBound, ContinuationAccepted
<1>5. CASE ~CursorMatches /\ req' = [req EXCEPT !.pc = "foreign"] /\ UNCHANGED seen
  <2>1. req'.pc = "foreign" /\ req'.selector = req.selector
    BY <1>5 DEF PInv, Shape
  <2>2. \A q : Fits(q)' <=> Fits(q)
    BY <1>1, <2>1 DEF Fits
  <2>3. ASSUME seen.bound, seen.swaps = 0
        PROVE  /\ req.selector.kind = "time"
               /\ \E r \in DOMAIN times : r > seen.revision /\ times[r] <= req.selector.at
    <3>0. req.pc = "scan"
      BY <1>1
    <3>1. /\ req.cursor.revision = seen.revision /\ req.cursor.pred = seen.pred
          /\ req.pred = seen.pred
      BY <2>3, <3>0 DEF PInv, CursorTracks, AInv, RequestKept
    <3>2. req.view # seen.revision
      BY <1>5, <3>1 DEF CursorMatches
    <3>3. req.selector.kind = "time" /\ seen.revision < req.view /\ Fits(req.view)
      BY <2>3, <3>0, <3>2 DEF AInv, RequestKept
    <3>4. req.view \in 1..req.view /\ req.view \in DOMAIN times
      BY <1>3, <3>3
    <3>5. times[req.view] <= req.selector.at
      BY <3>3, <3>4 DEF Fits
    <3> QED BY <1>3, <3>3, <3>4, <3>5
  <2>4. RequestKept' /\ ContinuationAccepted'
    BY <1>1, <1>5, <2>1, <2>2, <2>3 DEF AInv, RequestKept, ContinuationAccepted
  <2>5. CountTracks' /\ DoneIsBound'
    BY <1>1, <1>5, <2>1 DEF AInv, CountTracks, DoneIsBound
  <2> QED BY <1>2, <2>4, <2>5 DEF AInv
<1>6. CASE CursorMatches /\ Answer(Found(rows, req.view, req.pred, req.cursor.after, PageLimit(asked)),
                                   PageLimit(asked))
  <2>1. /\ req'.pc \in {"resolve", "done"} /\ req'.selector = req.selector /\ req'.pred = req.pred
        /\ seen'.bound = TRUE /\ seen'.revision = (IF seen.bound THEN seen.revision ELSE req.view)
        /\ seen'.pred = seen.pred /\ seen'.swaps = seen.swaps
    BY <1>6 DEF Answer, PInv, Shape
  <2>2. \A q : Fits(q)' <=> Fits(q)
    BY <1>1, <2>1 DEF Fits
  <2>3. RequestKept'
    BY <1>1, <2>1, <2>2 DEF AInv, RequestKept
  <2>4. CountTracks'
    BY <1>1, <2>1 DEF AInv, CountTracks, PInv, CursorTracks
  <2>5. DoneIsBound' /\ ContinuationAccepted'
    BY <2>1 DEF DoneIsBound, ContinuationAccepted
  <2> QED BY <1>2, <2>3, <2>4, <2>5 DEF AInv
<1> QED BY <1>1, <1>4, <1>5, <1>6

\* What the two answers below rest on: sealed times increase, the cursor fits the
\* request it came from, and the tally was taken of the view the pages show.
THEOREM AnswerInvariance == Spec => []AInv
<1>1. PInv /\ AInv /\ [Next]_vars => AInv'
  <2> SUFFICES ASSUME PInv, AInv, [Next]_vars PROVE AInv'
    OBVIOUS
  <2>1. CASE UNCHANGED vars
    BY <2>1 DEF vars, AInv, TimesIncrease, OneVersion, Current, RequestKept, Fits, CountTracks,
                DoneIsBound, ContinuationAccepted
  <2>2. CASE Next
    BY <2>2, CommitAInv, ClientAInv, ResolveAInv, ScanAInv DEF Next
  <2> QED BY <2>1, <2>2
<1> QED BY <1>1, InitAInv, PagingInvariance, PTL DEF Spec

\* For every table, batch and clock: a client that keeps its request is refused
\* a continuation only when it selected by time and a revision it had not seen
\* lies within that time (EffectiveSelector, decodeGraphCursor).
THEOREM ContinuationsAccepted == Spec => []ContinuationAccepted
BY AnswerInvariance, PTL DEF AInv

\* ... and the number of matches it was told is the number it was then served
\* (countNodes against the pages of scanNodes).
THEOREM CountsAgree == Spec => []CountAgrees
<1>1. PInv /\ AInv => CountAgrees
  <2> SUFFICES ASSUME PInv, AInv, req.pc = "done", tally.taken PROVE tally.n = seen.served
    BY DEF CountAgrees
  <2>1. seen.bound /\ tally.n = Cardinality(MatchesAt(rows, seen.revision, seen.pred))
    BY DEF AInv, DoneIsBound, CountTracks
  <2>2. seen.ids = MatchesAt(rows, seen.revision, seen.pred)
    BY <2>1 DEF PInv, PagesAreOneSnapshot
  <2> QED BY <2>1, <2>2 DEF PInv, NoEntityTwice
<1> QED BY <1>1, PagingInvariance, AnswerInvariance, PTL

-----------------------------------------------------------------------------
(* Identifiers.                                                            *)

\* The last identifier is a time and one natural per digit.
IdsInv ==
    /\ wall \in Nat
    /\ last \in [millis : Nat, payload : [DOMAIN DigitLimits -> Nat]]

\* Max of a non-empty set of digit positions is its greatest element.
LEMMA MaxFact ==
    ASSUME NEW N \in Nat, NEW S \in SUBSET (1..N), S # {}
    PROVE  Identifiers!Max(S) \in S /\ \A y \in S : y <= Identifiers!Max(S)
<1>1. \E x \in S : \A y \in S : y <= x
  <2>1. S \in SUBSET Nat /\ \A x \in S : x <= N
    OBVIOUS
  <2> QED BY <2>1, GreatestElement
<1>2. \E x \in S : \A y \in S : x >= y
  BY <1>1
<1>3. Identifiers!Max(S) \in S /\ \A y \in S : Identifiers!Max(S) >= y
  BY <1>2 DEF Identifiers!Max
<1> QED BY <1>3

\* incrementUUIDv7Payload keeps the digits natural; and when a digit can be
\* increased, the result follows the payload in lexicographic order.
LEMMA IncrementFact ==
    ASSUME NEW p \in [DOMAIN DigitLimits -> Nat]
    PROVE  LET next == Identifiers!incrementUUIDv7Payload(p) IN
           /\ next.payload \in [DOMAIN DigitLimits -> Nat]
           /\ next.ok => \E i \in DOMAIN DigitLimits :
                             /\ p[i] < next.payload[i]
                             /\ \A j \in 1..i-1 : p[j] = next.payload[j]
<1> DEFINE D == DOMAIN DigitLimits
           stop == {i \in D : ~Identifiers!Carries(p, i)}
           first == IF stop = {} THEN 1 ELSE Identifiers!Max(stop)
           q == [i \in D |-> IF i < first THEN p[i] ELSE (p[i] + 1) % (DigitLimits[i] + 1)]
           next == Identifiers!incrementUUIDv7Payload(p)
<1>1. D = 1..Len(DigitLimits) /\ Len(DigitLimits) \in Nat /\ \A i \in D : DigitLimits[i] \in Nat
  BY DigitAssumption
<1>2. next = [ok |-> stop # {}, payload |-> q]
  BY DEF Identifiers!incrementUUIDv7Payload, Identifiers!Digits
<1>3. q \in [D -> Nat]
  <2>1. \A i \in D : (p[i] + 1) % (DigitLimits[i] + 1) \in Nat
    BY <1>1
  <2> QED BY <2>1
<1>4. ASSUME stop # {}
      PROVE  \E i \in D : p[i] < q[i] /\ \A j \in 1..i-1 : p[j] = q[j]
  <2>1. stop \in SUBSET (1..Len(DigitLimits))
    BY <1>1
  <2>2. first \in stop
    <3>1. first = Identifiers!Max(stop)
      BY <1>4
    <3> HIDE DEF stop, first
    <3>2. Identifiers!Max(stop) \in stop
      BY <1>1, <1>4, <2>1, MaxFact
    <3> QED BY <3>1, <3>2
  <2> HIDE DEF first
  <2>3. first \in D /\ p[first] + 1 <= DigitLimits[first] /\ p[first] \in Nat /\ DigitLimits[first] \in Nat
    BY <1>1, <2>2 DEF Identifiers!Carries
  <2>4. q[first] = p[first] + 1
    <3>1. q[first] = (p[first] + 1) % (DigitLimits[first] + 1)
      BY <1>1, <2>3
    <3> QED BY <2>3, <3>1
  <2>5. \A j \in 1..first-1 : p[j] = q[j]
    <3>1. \A j \in 1..first-1 : j \in D /\ j < first
      BY <1>1, <2>3
    <3> QED BY <3>1
  <2> QED BY <2>3, <2>4, <2>5
<1>5. next.ok = (stop # {}) /\ next.payload = q
  BY <1>2
<1> HIDE DEF q, stop, next
<1>6. /\ next.payload \in [D -> Nat]
      /\ next.ok => \E i \in D : p[i] < next.payload[i] /\ \A j \in 1..i-1 : p[j] = next.payload[j]
  BY <1>3, <1>4, <1>5
<1> QED BY <1>6 DEF next

\* A random payload has one natural per digit.
LEMMA PayloadsType == \A random \in Identifiers!Payloads : random \in [DOMAIN DigitLimits -> Nat]
<1>1. \A M : \A x \in 0..M : x \in Nat
  OBVIOUS
<1> QED BY <1>1 DEF Identifiers!Payloads, Identifiers!Digits

\* One call of newUUIDv7 returns an identifier, and a greater one than the last.
LEMMA GenerateFact ==
    ASSUME IdsInv, NEW random \in Identifiers!Payloads
    PROVE  /\ Identifiers!newUUIDv7(random) \in [millis : Nat, payload : [DOMAIN DigitLimits -> Nat]]
           /\ issued => Identifiers!Less(last, Identifiers!newUUIDv7(random))
<1> DEFINE next == Identifiers!incrementUUIDv7Payload(last.payload)
           new == Identifiers!newUUIDv7(random)
<1>1. last.payload \in [DOMAIN DigitLimits -> Nat] /\ last.millis \in Nat /\ wall \in Nat
  BY DEF IdsInv
<1>2. next.payload \in [DOMAIN DigitLimits -> Nat]
  BY <1>1, IncrementFact
<1>3. random \in [DOMAIN DigitLimits -> Nat]
  BY PayloadsType
<1>4. CASE ~issued \/ wall > last.millis
  <2>1. new = [millis |-> wall, payload |-> random]
    BY <1>4 DEF Identifiers!newUUIDv7
  <2> QED BY <1>1, <1>3, <1>4, <2>1 DEF Identifiers!Less
<1>5. CASE ~(~issued \/ wall > last.millis) /\ next.ok
  <2>1. new = [millis |-> last.millis, payload |-> next.payload]
    BY <1>5 DEF Identifiers!newUUIDv7
  <2>2. \E i \in DOMAIN DigitLimits :
            last.payload[i] < next.payload[i] /\ \A j \in 1..i-1 : last.payload[j] = next.payload[j]
    BY <1>1, <1>5, IncrementFact
  <2> HIDE DEF next, new
  <2>3. new.millis = last.millis /\ new.payload = next.payload
    BY <2>1
  <2>4. Identifiers!Less(last, new)
    BY <2>2, <2>3 DEF Identifiers!Less, Identifiers!Digits
  <2> QED BY <1>1, <1>2, <2>1, <2>4 DEF new
<1>6. CASE ~(~issued \/ wall > last.millis) /\ ~next.ok
  <2>1. new = [millis |-> last.millis + 1, payload |-> random]
    BY <1>6 DEF Identifiers!newUUIDv7
  <2> QED BY <1>1, <1>3, <2>1 DEF Identifiers!Less
<1> QED BY <1>4, <1>5, <1>6

\* Initially there is no identifier.
LEMMA IdsInit == PagingInit => IdsInv
<1> SUFFICES ASSUME Identifiers!Init PROVE IdsInv
  BY DEF PagingInit
<1> QED BY DEF Identifiers!Init, Identifiers!Digits, IdsInv

\* Generating keeps the types.
LEMMA IdsStep == IdsInv /\ [ListGraph \/ WalkHistory \/ GenerateIds]_allVars => IdsInv'
<1> SUFFICES ASSUME IdsInv, [ListGraph \/ WalkHistory \/ GenerateIds]_allVars PROVE IdsInv'
  OBVIOUS
<1>1. CASE UNCHANGED <<wall, last>>
  BY <1>1 DEF IdsInv
<1>2. CASE Identifiers!Tick
  BY <1>2, DigitAssumption DEF Identifiers!Tick, IdsInv
<1>3. CASE Identifiers!Generate
  <2>1. PICK random \in Identifiers!Payloads : last' = Identifiers!newUUIDv7(random) /\ wall' = wall
    BY <1>3 DEF Identifiers!Generate
  <2>2. last' \in [millis : Nat, payload : [DOMAIN DigitLimits -> Nat]]
    BY <2>1, GenerateFact
  <2> QED BY <2>1, <2>2 DEF IdsInv
<1> QED BY <1>1, <1>2, <1>3 DEF ListGraph, WalkHistory, GenerateIds, Identifiers!Next, allVars

\* Every identifier a process generates is greater than the one before, for
\* every number and size of the digits of a payload, also when the clock goes
\* back, when a digit carries and when a payload is used up (newUUIDv7).
THEOREM IdentifiersIncrease == PagingSpec => []IdsIncrease
<1>1. IdsInv => IdsIncrease
  BY GenerateFact DEF IdsIncrease, Identifiers!IdsIncrease
<1> QED BY <1>1, IdsInit, IdsStep, PTL DEF PagingSpec

-----------------------------------------------------------------------------
(* The walk of the revision history.                                       *)

\* Types, and that a walk never gets ahead of what is sealed.
WalkShape ==
    /\ sealed \in Nat
    /\ walk \in [pc : {"idle", "ask", "end", "refused"}, order : History!Orders,
                 cursor : [order : History!Orders, boundary : Nat],
                 got : SUBSET Nat, served : Nat, from : Nat]
    /\ walk.got \subseteq 1..sealed
    /\ walk.cursor.boundary <= sealed
    /\ walk.from <= sealed

\* A walk that asks without a boundary has read nothing; one with a boundary
\* has read what WalkHasNoGap says, and that is not nothing.
WalkFront ==
    walk.pc = "ask" =>
        IF walk.cursor.boundary = 0
        THEN walk.got = {}
        ELSE walk.cursor.order = "descending" => walk.cursor.boundary <= walk.from

WalkInv == WalkShape /\ WalkFront /\ WalkIsExact

\* HistoryWalk's cardinality is that of FiniteSets, and the size of a stretch.
LEMMA WalkCardinality == \A S : History!Cardinality(S) = Cardinality(S)
BY DEF History!Cardinality, Cardinality

\* The number of elements of a stretch of naturals ...
LEMMA StretchSize ==
    \A a, c \in Int : /\ IsFiniteSet(a..c)
                      /\ History!Cardinality(a..c) = IF a > c THEN 0 ELSE c - a + 1
<1> SUFFICES ASSUME NEW a \in Int, NEW c \in Int
             PROVE  IsFiniteSet(a..c) /\ History!Cardinality(a..c) = IF a > c THEN 0 ELSE c - a + 1
  OBVIOUS
<1>1. History!Cardinality(a..c) = Cardinality(a..c)
  BY WalkCardinality
<1> QED BY <1>1, FS_Interval

\* ... and of one that is empty at most by one.
LEMMA StretchOf == \A a, c \in Nat : a <= c + 1 => History!Cardinality(a..c) = c - a + 1
<1> SUFFICES ASSUME NEW a \in Nat, NEW c \in Nat, a <= c + 1
             PROVE  History!Cardinality(a..c) = c - a + 1
  OBVIOUS
<1>1. History!Cardinality(a..c) = IF a > c THEN 0 ELSE c - a + 1
  BY StretchSize
<1> QED BY <1>1

\* ORDER BY ... LIMIT on a stretch of consecutive revisions keeps the first k
\* of them in that order.
LEMMA TakeFact ==
    ASSUME NEW a \in Nat, NEW c \in Nat, NEW k \in Nat
    PROVE  /\ History!Take(a..c, "ascending", k) = {r \in a..c : r - a < k}
           /\ History!Take(a..c, "descending", k) = {r \in a..c : c - r < k}
<1>1. ASSUME NEW r \in a..c
      PROVE  /\ History!Cardinality({x \in a..c : History!Before("ascending", x, r)}) = r - a
             /\ History!Cardinality({x \in a..c : History!Before("descending", x, r)}) = c - r
  <2>1. {x \in a..c : History!Before("ascending", x, r)} = a..(r - 1)
    BY DEF History!Before
  <2>2. {x \in a..c : History!Before("descending", x, r)} = (r + 1)..c
    BY DEF History!Before
  <2>3. a \in Int /\ c \in Int /\ r \in Int /\ a <= r /\ r <= c
    OBVIOUS
  <2>4. History!Cardinality(a..(r - 1)) = r - a
    <3> DEFINE d == r - 1
    <3>1. d \in Int /\ d - a + 1 = r - a /\ (a > d => r - a = 0)
      BY <2>3
    <3> HIDE DEF d
    <3>2. History!Cardinality(a..d) = IF a > d THEN 0 ELSE d - a + 1
      BY <2>3, <3>1, StretchSize
    <3> QED BY <3>1, <3>2 DEF d
  <2>5. History!Cardinality((r + 1)..c) = c - r
    <3> DEFINE d == r + 1
    <3>1. d \in Int /\ c - d + 1 = c - r /\ (d > c => c - r = 0)
      BY <2>3
    <3> HIDE DEF d
    <3>2. History!Cardinality(d..c) = IF d > c THEN 0 ELSE c - d + 1
      BY <2>3, <3>1, StretchSize
    <3> QED BY <3>1, <3>2 DEF d
  <2> QED BY <2>1, <2>2, <2>4, <2>5
<1> QED BY <1>1 DEF History!Take

\* An ascending page continues after its boundary; when it is not the last,
\* its cursor names its newest revision.
LEMMA AscendingPage ==
    ASSUME NEW N \in Nat, NEW b \in Nat, b <= N, NEW limit \in Nat \ {0}
    PROVE  LET page == History!RevisionPage(N, "ascending", b, limit) IN
           IF N - b > limit
           THEN page.revisions = (b + 1)..(b + limit) /\ page.next = b + limit
           ELSE page.revisions = (b + 1)..N /\ page.next = 0
<1> DEFINE infos == History!Take(History!Beyond(N, "ascending", b), "ascending", limit + 1)
           more == History!Cardinality(infos) > limit
           page == IF more THEN History!Take(infos, "ascending", limit) ELSE infos
           next == CHOOSE r \in page : \A x \in page : r = x \/ History!Before("ascending", x, r)
<1>1. History!Beyond(N, "ascending", b) = (b + 1)..N
  BY DEF History!Beyond
<1>2. infos = {r \in (b + 1)..N : r - (b + 1) < limit + 1}
  BY <1>1, TakeFact
<1> HIDE DEF infos
<1>3. CASE N - b > limit
  <2>1. infos = (b + 1)..(b + 1 + limit)
    BY <1>2, <1>3
  <2>2. History!Cardinality((b + 1)..(b + 1 + limit)) = limit + 1
    BY StretchSize
  <2>3. more
    BY <2>1, <2>2
  <2>4. page = (b + 1)..(b + limit)
    <3>1. History!Take((b + 1)..(b + 1 + limit), "ascending", limit)
            = {r \in (b + 1)..(b + 1 + limit) : r - (b + 1) < limit}
      BY TakeFact
    <3>2. page = {r \in (b + 1)..(b + 1 + limit) : r - (b + 1) < limit}
      BY <2>1, <2>3, <3>1
    <3> HIDE DEF page
    <3> QED BY <3>2
  <2> HIDE DEF page
  <2>5. \A r \in page : (\A x \in page : r = x \/ History!Before("ascending", x, r)) <=> r = b + limit
    BY <2>4 DEF History!Before
  <2>6. b + limit \in page
    BY <2>4
  <2>7. next = b + limit
    BY <2>5, <2>6
  <2> HIDE DEF next
  <2>8. History!RevisionPage(N, "ascending", b, limit) = [revisions |-> page, next |-> next]
    BY <2>3 DEF History!RevisionPage, infos, page, next
  <2> QED BY <1>3, <2>4, <2>7, <2>8
<1>4. CASE ~(N - b > limit)
  <2>1. infos = (b + 1)..N
    BY <1>2, <1>4
  <2>2. History!Cardinality((b + 1)..N) = N - b
    <3> DEFINE d == b + 1
    <3>1. d \in Int /\ N - d + 1 = N - b /\ (d > N => N - b = 0)
      OBVIOUS
    <3> HIDE DEF d
    <3>2. History!Cardinality(d..N) = IF d > N THEN 0 ELSE N - d + 1
      BY <3>1, StretchSize
    <3> QED BY <3>1, <3>2 DEF d
  <2>3. ~more
    BY <1>4, <2>1, <2>2
  <2>4. History!RevisionPage(N, "ascending", b, limit) = [revisions |-> infos, next |-> 0]
    BY <2>3 DEF History!RevisionPage, infos
  <2> QED BY <1>4, <2>1, <2>4
<1> QED BY <1>3, <1>4

\* A descending page starts below its boundary, or at the newest revision.
LEMMA DescendingPage ==
    ASSUME NEW N \in Nat, NEW b \in Nat, b <= N, NEW limit \in Nat \ {0}
    PROVE  LET page == History!RevisionPage(N, "descending", b, limit)
               top == IF b = 0 THEN N ELSE b - 1
           IN
           IF top > limit
           THEN page.revisions = (top - limit + 1)..top /\ page.next = top - limit + 1
           ELSE page.revisions = 1..top /\ page.next = 0
<1> DEFINE infos == History!Take(History!Beyond(N, "descending", b), "descending", limit + 1)
           more == History!Cardinality(infos) > limit
           page == IF more THEN History!Take(infos, "descending", limit) ELSE infos
           next == CHOOSE r \in page : \A x \in page : r = x \/ History!Before("descending", x, r)
           top == IF b = 0 THEN N ELSE b - 1
<1>0. top \in Nat
  OBVIOUS
<1>1. History!Beyond(N, "descending", b) = 1..top
  BY DEF History!Beyond
<1> HIDE DEF top
<1>2. infos = {r \in 1..top : top - r < limit + 1}
  BY <1>0, <1>1, TakeFact
<1> HIDE DEF infos
<1>3. CASE top > limit
  <2>1. infos = (top - limit)..top
    BY <1>0, <1>2, <1>3
  <2>2. History!Cardinality((top - limit)..top) = limit + 1
    BY <1>0, StretchSize
  <2>3. more
    BY <2>1, <2>2
  <2>4. page = (top - limit + 1)..top
    <3>1. History!Take((top - limit)..top, "descending", limit)
            = {r \in (top - limit)..top : top - r < limit}
      BY <1>0, <1>3, TakeFact
    <3>2. page = {r \in (top - limit)..top : top - r < limit}
      BY <2>1, <2>3, <3>1
    <3>3. \A r : r \in (top - limit)..top /\ top - r < limit <=> r \in (top - limit + 1)..top
      BY <1>0
    <3> HIDE DEF page
    <3> QED BY <3>2, <3>3
  <2> HIDE DEF page
  <2>5. \A r \in page :
          (\A x \in page : r = x \/ History!Before("descending", x, r)) <=> r = top - limit + 1
    BY <1>0, <2>4 DEF History!Before
  <2>6. top - limit + 1 \in page
    BY <1>0, <1>3, <2>4
  <2>7. next = top - limit + 1
    BY <2>5, <2>6
  <2> HIDE DEF next
  <2>8. History!RevisionPage(N, "descending", b, limit) = [revisions |-> page, next |-> next]
    BY <2>3 DEF History!RevisionPage, infos, page, next
  <2> QED BY <1>3, <2>4, <2>7, <2>8 DEF top
<1>4. CASE ~(top > limit)
  <2>1. infos = 1..top
    <3>1. \A r \in 1..top : top - r < limit + 1
      BY <1>0, <1>4
    <3> QED BY <1>2, <3>1
  <2>2. History!Cardinality(1..top) = top
    BY <1>0, StretchSize
  <2>3. ~more
    BY <1>4, <2>1, <2>2
  <2>4. History!RevisionPage(N, "descending", b, limit) = [revisions |-> infos, next |-> 0]
    BY <2>3 DEF History!RevisionPage, infos
  <2> QED BY <1>4, <2>1, <2>4 DEF top
<1> QED BY <1>3, <1>4

\* Initially no walk has begun.
LEMMA WalkInit == PagingInit => WalkInv
<1> SUFFICES ASSUME History!Init PROVE WalkInv
  BY DEF PagingInit
<1>1. sealed = 0 /\ walk = [pc |-> "idle", order |-> "ascending",
                            cursor |-> [order |-> "ascending", boundary |-> 0],
                            got |-> {}, served |-> 0, from |-> 0]
  BY DEF History!Init, History!NoWalk, History!Start, History!CursorOf
<1>2. WalkShape /\ WalkFront
  BY <1>1 DEF WalkShape, WalkFront, History!Orders
<1>3. History!WalkHasNoGap
  BY <1>1 DEF History!WalkHasNoGap
<1>4. History!NoRevisionTwice
  BY <1>1, WalkCardinality, FS_EmptySet DEF History!NoRevisionTwice
<1> QED BY <1>2, <1>3, <1>4 DEF WalkInv, WalkIsExact

\* Another commit moves no page that was read and no cursor.
LEMMA WalkCommit == ASSUME WalkInv, History!Commit PROVE WalkInv'
<1>1. sealed' = sealed + 1 /\ walk' = walk /\ sealed \in Nat
  BY DEF History!Commit, WalkInv, WalkShape
<1>2. 1..sealed \subseteq 1..(sealed + 1)
  BY <1>1
<1>3. WalkShape'
  BY <1>1, <1>2 DEF WalkInv, WalkShape
<1>4. WalkFront' /\ History!NoRevisionTwice'
  BY <1>1 DEF WalkInv, WalkIsExact, WalkFront, History!NoRevisionTwice
<1>5. History!WalkHasNoGap'
  <2>1. walk.from..sealed \subseteq walk.from..(sealed + 1)
    BY <1>1 DEF WalkInv, WalkShape
  <2> QED BY <1>1, <2>1 DEF WalkInv, WalkIsExact, History!WalkHasNoGap
<1> QED BY <1>3, <1>4, <1>5 DEF WalkInv, WalkIsExact

\* The steps that only turn the client from one walk to another.
LEMMA WalkTurns ==
    ASSUME WalkInv, History!Begin \/ History!Refused \/ History!TurnRound \/ History!Forget
    PROVE  WalkInv'
<1> USE DEF WalkInv, WalkIsExact, WalkFront, WalkShape
<1>0. History!NoWalk = [pc |-> "idle", order |-> "ascending",
                        cursor |-> [order |-> "ascending", boundary |-> 0],
                        got |-> {}, served |-> 0, from |-> 0]
  BY DEF History!NoWalk, History!Start, History!CursorOf
<1>00. History!Cardinality({}) = 0
  BY WalkCardinality, FS_EmptySet
<1>1. CASE History!Begin
  <2>1. PICK order \in History!Orders :
          /\ walk' = [pc |-> "ask", order |-> order,
                      cursor |-> [order |-> order, boundary |-> 0],
                      got |-> {}, served |-> 0, from |-> 0]
          /\ sealed' = sealed
    BY <1>0, <1>1 DEF History!Begin, History!Start, History!CursorOf
  <2>2. WalkShape' /\ WalkFront'
    BY <2>1
  <2>3. History!WalkHasNoGap' /\ History!NoRevisionTwice'
    BY <1>00, <2>1 DEF History!WalkHasNoGap, History!NoRevisionTwice
  <2> QED BY <2>2, <2>3
<1>2. CASE History!Refused
  BY <1>2 DEF History!Refused, History!WalkHasNoGap, History!NoRevisionTwice
<1>3. CASE History!TurnRound
  <2>1. PICK order \in History!Orders :
          walk' = [walk EXCEPT !.order = order] /\ sealed' = sealed /\ walk.pc = "ask"
    <3>1. \E o \in History!Orders : o # walk.order
      BY DEF History!Orders
    <3> QED BY <1>3, <3>1 DEF History!TurnRound
  <2> QED BY <2>1 DEF History!WalkHasNoGap, History!NoRevisionTwice
<1>4. CASE History!Forget
  <2>1. walk' = History!NoWalk /\ sealed' = sealed
    BY <1>4 DEF History!Forget
  <2>2. WalkShape' /\ WalkFront'
    BY <1>0, <2>1 DEF History!Orders
  <2>3. History!WalkHasNoGap' /\ History!NoRevisionTwice'
    BY <1>0, <1>00, <2>1 DEF History!WalkHasNoGap, History!NoRevisionTwice
  <2> QED BY <2>2, <2>3
<1> QED BY <1>1, <1>2, <1>3, <1>4

\* A cursor of an older release stands for the walk up to its boundary.
LEMMA WalkResume == ASSUME WalkInv, History!ResumeLegacy PROVE WalkInv'
<1>1. PICK boundary \in 1..sealed :
        /\ walk' = [pc |-> "ask", order |-> "ascending",
                    cursor |-> [order |-> "ascending", boundary |-> boundary],
                    got |-> 1..boundary, served |-> boundary, from |-> sealed]
        /\ sealed' = sealed
  BY DEF History!ResumeLegacy, History!NoWalk, History!Start, History!CursorOf
<1>2. sealed \in Nat /\ boundary \in Nat /\ boundary # 0 /\ boundary <= sealed
  BY DEF WalkInv, WalkShape
<1>3. 1..boundary \subseteq 1..sealed /\ 1..boundary \in SUBSET Nat
  BY <1>2
<1>4. WalkShape' /\ WalkFront'
  BY <1>1, <1>2, <1>3 DEF WalkShape, WalkFront, History!Orders
<1>5. History!WalkHasNoGap'
  BY <1>1, <1>2 DEF History!WalkHasNoGap
<1>6. History!NoRevisionTwice'
  BY <1>1, <1>2, StretchSize DEF History!NoRevisionTwice
<1> QED BY <1>4, <1>5, <1>6 DEF WalkInv, WalkIsExact

\* The next page continues the stretch that has been read, without a gap and
\* without reading a revision again.
LEMMA WalkReads == ASSUME WalkInv, History!ReadPage PROVE WalkInv'
<1> DEFINE b == walk.cursor.boundary
           Page(limit) == History!RevisionPage(sealed, walk.order, b, limit)
<1>1. PICK limit \in WalkLimits :
        /\ walk.pc = "ask"
        /\ b = 0 \/ walk.cursor.order = walk.order
        /\ walk' = [walk EXCEPT
                !.pc = IF Page(limit).next = 0 THEN "end" ELSE "ask",
                !.cursor = [order |-> walk.order, boundary |-> Page(limit).next],
                !.got = @ \cup Page(limit).revisions,
                !.served = @ + History!Cardinality(Page(limit).revisions),
                !.from = IF walk.got = {} THEN sealed ELSE @]
        /\ sealed' = sealed
  BY DEF History!ReadPage, History!CursorAccepted, History!CursorOf
<1>2. limit \in Nat \ {0}
  BY WalkAssumption
<1>3. /\ sealed \in Nat /\ b \in Nat /\ b <= sealed /\ walk.from \in Nat /\ walk.from <= sealed
      /\ walk.order \in {"ascending", "descending"} /\ walk.served \in Nat
      /\ walk.served = History!Cardinality(walk.got)
  BY DEF WalkInv, WalkIsExact, WalkShape, History!Orders, History!NoRevisionTwice
<1> DEFINE page == Page(limit)
           from == IF walk.got = {} THEN sealed ELSE walk.from
<1> HIDE DEF page
<1>4. /\ walk'.pc = (IF page.next = 0 THEN "end" ELSE "ask")
      /\ walk'.order = walk.order
      /\ walk'.cursor = [order |-> walk.order, boundary |-> page.next]
      /\ walk'.got = walk.got \cup page.revisions
      /\ walk'.served = walk.served + History!Cardinality(page.revisions)
      /\ walk'.from = from
      /\ DOMAIN walk' = DOMAIN walk
  BY <1>1 DEF page, WalkInv, WalkShape
<1>5. from \in Nat /\ from <= sealed
  BY <1>3
<1>6. ASSUME page.next \in Nat, page.next <= sealed,
             walk.got \cup page.revisions \subseteq 1..sealed,
             walk.served + History!Cardinality(page.revisions) \in Nat
      PROVE  WalkShape'
  <2>1. walk.got \cup page.revisions \in SUBSET Nat
    BY <1>3, <1>6
  <2> HIDE DEF from
  <2>3. walk' = [walk EXCEPT !.pc = walk'.pc, !.cursor = walk'.cursor, !.got = walk'.got,
                             !.served = walk'.served, !.from = walk'.from]
    <3>1. walk \in [pc : {"idle", "ask", "end", "refused"}, order : History!Orders,
                    cursor : [order : History!Orders, boundary : Nat],
                    got : SUBSET Nat, served : Nat, from : Nat]
      BY DEF WalkInv, WalkShape
    <3> QED BY <1>1, <3>1
  <2>4. walk'.pc \in {"idle", "ask", "end", "refused"} /\ walk'.from \in Nat
    BY <1>4, <1>5
  <2>5. walk'.cursor \in [order : History!Orders, boundary : Nat]
    BY <1>3, <1>4, <1>6 DEF History!Orders
  <2>6. walk'.got \in SUBSET Nat /\ walk'.served \in Nat
    BY <1>4, <1>6, <2>1
  <2>2. walk' \in [pc : {"idle", "ask", "end", "refused"}, order : History!Orders,
                   cursor : [order : History!Orders, boundary : Nat],
                   got : SUBSET Nat, served : Nat, from : Nat]
    BY <2>3, <2>4, <2>5, <2>6 DEF WalkInv, WalkShape
  <2> QED BY <1>1, <1>3, <1>4, <1>5, <1>6, <2>2 DEF WalkShape
<1>7. CASE walk.order = "ascending"
  <2>1. walk.got = 1..b
    <3>1. CASE b = 0
      BY <1>1, <3>1 DEF WalkInv, WalkFront
    <3>2. CASE b # 0
      BY <1>1, <1>7, <3>2 DEF WalkInv, WalkIsExact, History!WalkHasNoGap
    <3> QED BY <3>1, <3>2
  <2>2. walk.served = b
    <3> HIDE DEF b
    <3>1. History!Cardinality(1..b) = b - 1 + 1
      BY <1>3, StretchOf
    <3> QED BY <1>3, <2>1, <3>1
  <2>3. IF sealed - b > limit
        THEN page.revisions = (b + 1)..(b + limit) /\ page.next = b + limit
        ELSE page.revisions = (b + 1)..sealed /\ page.next = 0
    <3> HIDE DEF b
    <3>1. page = History!RevisionPage(sealed, "ascending", b, limit)
      BY <1>7 DEF page, b
    <3> QED BY <1>2, <1>3, <3>1, AscendingPage
  <2> DEFINE e == IF sealed - b > limit THEN b + limit ELSE sealed
             d == b + 1
  <2>4. /\ e \in Nat /\ e <= sealed /\ d \in Nat /\ b <= e
        /\ page.revisions = d..e /\ page.next = (IF sealed - b > limit THEN e ELSE 0)
        /\ (sealed - b > limit => e # 0)
        /\ (sealed - b > limit \/ e = sealed)
    BY <1>2, <1>3, <2>3
  <2>5. History!Cardinality(d..e) = e - b
    <3>1. d <= e + 1 /\ e - d + 1 = e - b
      BY <1>3, <2>4
    <3> HIDE DEF d, e
    <3>2. History!Cardinality(d..e) = e - d + 1
      BY <2>4, <3>1, StretchOf
    <3> QED BY <3>1, <3>2
  <2>6. walk.got \cup page.revisions = 1..e
    <3>1. \A x : x \in 1..b \/ x \in d..e <=> x \in 1..e
      BY <1>3, <2>4
    <3> HIDE DEF b, d, e
    <3> QED BY <2>1, <2>4, <3>1
  <2> HIDE DEF d, e
  <2>7. walk.served + History!Cardinality(page.revisions) = e
    BY <1>3, <2>2, <2>4, <2>5
  <2>8. WalkShape'
    BY <1>3, <1>6, <2>4, <2>6, <2>7
  <2>9. WalkFront'
    BY <1>4, <1>7, <2>4 DEF WalkFront
  <2>10. History!NoRevisionTwice'
    <3>1. History!Cardinality(1..e) = e - 1 + 1
      BY <2>4, StretchOf
    <3>2. e - 1 + 1 = e
      BY <2>4
    <3>3. walk'.got = 1..e /\ walk'.served = e
      BY <1>4, <2>6, <2>7
    <3> QED BY <3>1, <3>2, <3>3 DEF History!NoRevisionTwice
  <2>11. History!WalkHasNoGap'
    <3>1. CASE sealed - b > limit
      BY <1>4, <1>7, <2>4, <2>6, <3>1 DEF History!WalkHasNoGap
    <3>2. CASE ~(sealed - b > limit)
      <4>1. sealed \in from..sealed /\ walk'.got = 1..sealed /\ walk'.pc = "end"
        BY <1>3, <1>4, <1>5, <2>4, <2>6, <3>2
      <4> QED BY <1>1, <1>4, <1>7, <4>1 DEF History!WalkHasNoGap
    <3> QED BY <3>1, <3>2
  <2> QED BY <2>8, <2>9, <2>10, <2>11 DEF WalkInv, WalkIsExact
<1>8. CASE walk.order = "descending"
  <2> DEFINE top == IF b = 0 THEN sealed ELSE b - 1
             above == top + 1
  <2>1. top \in Nat /\ above \in Nat /\ top <= from /\ walk.got = above..from
    <3>1. CASE b = 0
      <4>1. walk.got = {}
        BY <1>1, <3>1 DEF WalkInv, WalkFront
      <4>2. top = sealed /\ from = sealed
        BY <3>1, <4>1
      <4>3. (sealed + 1)..sealed = {}
        BY <1>3
      <4> HIDE DEF top, from
      <4> QED BY <1>3, <4>1, <4>2, <4>3
    <3>2. CASE b # 0
      <4>1. walk.got = b..walk.from /\ b <= walk.from
        BY <1>1, <1>8, <3>2 DEF WalkInv, WalkFront, WalkIsExact, History!WalkHasNoGap
      <4>2. b \in walk.got
        BY <1>3, <4>1
      <4> QED BY <1>3, <3>2, <4>1, <4>2
    <3> QED BY <3>1, <3>2
  <2>2. walk.served = from - top
    <3>1. above <= from + 1 /\ from - above + 1 = from - top
      BY <1>5, <2>1
    <3> HIDE DEF above, top, from
    <3>2. History!Cardinality(above..from) = from - above + 1
      BY <1>5, <2>1, <3>1, StretchOf
    <3> QED BY <1>3, <2>1, <3>1, <3>2
  <2>3. IF top > limit
        THEN page.revisions = (top - limit + 1)..top /\ page.next = top - limit + 1
        ELSE page.revisions = 1..top /\ page.next = 0
    <3>1. page = History!RevisionPage(sealed, "descending", b, limit)
      BY <1>8 DEF page
    <3>2. /\ b \in Nat /\ b <= sealed /\ sealed \in Nat /\ limit \in Nat \ {0}
      BY <1>2, <1>3
    <3> HIDE DEF b, page
    <3>3. LET q == History!RevisionPage(sealed, "descending", b, limit)
              u == IF b = 0 THEN sealed ELSE b - 1
          IN IF u > limit
             THEN q.revisions = (u - limit + 1)..u /\ q.next = u - limit + 1
             ELSE q.revisions = 1..u /\ q.next = 0
      BY <3>2, DescendingPage
    <3> QED BY <3>1, <3>3
  <2> DEFINE e == IF top > limit THEN top - limit + 1 ELSE 1
  <2>4. /\ e \in Nat /\ 1 <= e /\ e <= top + 1
        /\ page.revisions = e..top /\ page.next = (IF top > limit THEN e ELSE 0)
        /\ (top > limit => e <= top)
        /\ (top > limit \/ e = 1)
    BY <1>2, <2>1, <2>3
  <2> HIDE DEF top, e, from
  <2>5. History!Cardinality(e..top) = top - e + 1
    BY <2>1, <2>4, StretchOf
  <2>6. walk.got \cup page.revisions = e..from
    <3>1. \A x : x \in above..from \/ x \in e..top <=> x \in e..from
      BY <1>5, <2>1, <2>4
    <3> HIDE DEF above
    <3> QED BY <2>1, <2>4, <3>1
  <2>7. walk.served + History!Cardinality(page.revisions) = from - e + 1
        /\ from - e + 1 \in Nat
    BY <1>3, <1>5, <2>1, <2>2, <2>4, <2>5
  <2>8. WalkShape'
    <3>1. e..from \subseteq 1..sealed
      BY <1>3, <1>5, <2>4
    <3>2. page.next \in Nat /\ page.next <= sealed
      BY <1>3, <1>5, <2>1, <2>4
    <3> QED BY <1>6, <2>6, <2>7, <3>1, <3>2
  <2>9. WalkFront'
    BY <1>4, <1>5, <1>8, <2>1, <2>4 DEF WalkFront
  <2>10. History!NoRevisionTwice'
    <3>1. e <= from + 1
      BY <1>5, <2>1, <2>4
    <3>2. History!Cardinality(e..from) = from - e + 1
      BY <1>5, <2>4, <3>1, StretchOf
    <3> QED BY <1>4, <2>6, <2>7, <3>2 DEF History!NoRevisionTwice
  <2>11. History!WalkHasNoGap'
    BY <1>4, <1>8, <2>4, <2>6 DEF History!WalkHasNoGap
  <2> QED BY <2>8, <2>9, <2>10, <2>11 DEF WalkInv, WalkIsExact
<1> QED BY <1>3, <1>7, <1>8

\* Every step keeps the invariant of the walk.
LEMMA WalkStep == WalkInv /\ [ListGraph \/ WalkHistory \/ GenerateIds]_allVars => WalkInv'
<1> SUFFICES ASSUME WalkInv, [ListGraph \/ WalkHistory \/ GenerateIds]_allVars PROVE WalkInv'
  OBVIOUS
<1>1. CASE UNCHANGED <<sealed, walk>>
  BY <1>1 DEF WalkInv, WalkShape, WalkFront, WalkIsExact, History!WalkHasNoGap,
              History!NoRevisionTwice
<1>2. CASE History!Next
  BY <1>2, WalkCommit, WalkTurns, WalkResume, WalkReads DEF History!Next
<1> QED BY <1>1, <1>2 DEF ListGraph, WalkHistory, GenerateIds, allVars

\* For every page limit and number of commits: what a walk of the history has
\* read is everything on one side of its cursor and nothing twice, whatever is
\* committed between two of its pages, also when the client turns round or
\* resumes with a cursor of an older release (ListRevisionPage,
\* decodeRevisionCursor, upgradeLegacyRevisionCursor).
THEOREM WalksExact == PagingSpec => []WalkIsExact
<1>1. WalkInv => WalkIsExact
  BY DEF WalkInv
<1> QED BY <1>1, WalkInit, WalkStep, PTL DEF PagingSpec
=============================================================================
