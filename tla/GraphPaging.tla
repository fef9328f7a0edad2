---------------------------- MODULE GraphPaging -----------------------------
(***************************************************************************)
(* Filtered, paged reading of one version table while writers commit.      *)
(*                                                                         *)
(* A client calls Store.ListNodes (ListEdges has the same shape) until a   *)
(* page comes back without a Next cursor.  One call is two separate SQL    *)
(* statements, View resolving the selector to a revision and scanNodes     *)
(* reading that revision, and other processes may commit between any two   *)
(* statements.  The cursor is the only memory that survives from one call  *)
(* to the next: it names the revision, the predicate and the last id.      *)
(*                                                                         *)
(* An entity's content has a scalar part, which the SQL text can filter on *)
(* (labels, types, ids, indexed scalar properties), and a nested part (map *)
(* and list properties), which only the Go loop over the rows can.         *)
(***************************************************************************)
EXTENDS VersionTable, FiniteSets

CONSTANTS MaxId,        \* bound: number of entity ids
          Scalars,      \* scalar parts of contents
          Nesteds,      \* nested parts of contents
          Free,          \* a predicate that does not constrain a part
          Gone,         \* in a batch: the entity is deleted
          Batches,      \* net effects of commits: partial maps from Ids
          Predicates,   \* the predicates clients ask with
          Limits,       \* page limits clients ask for
          DefaultPageSize, MaxPageSize,
          MaxRevision,  \* bound: number of commits
          MaxTime,      \* bound: clock readings
          MaxSwaps      \* bound: pages asked for with another predicate or selector

\* Entity ids; their byte order is the order of the numbers, and 0 stands for
\* the empty string, which precedes every id.
Ids == 1..MaxId

Values == [scalar : Scalars, nested : Nesteds]

ASSUME PagingAssumption ==
    /\ MaxId \in Nat
    /\ \A b \in Batches : \E D \in SUBSET Ids : b \in [D -> Values \cup {Gone}]
    /\ Gone \notin Values
    /\ Predicates \subseteq [scalar : Scalars \cup {Free}, nested : Nesteds \cup {Free}]
    /\ Limits \subseteq Nat
    /\ DefaultPageSize \in Nat \ {0}
    /\ MaxPageSize \in Nat
    /\ MaxRevision \in Nat
    /\ MaxTime \in Nat
    /\ MaxSwaps \in Nat

VARIABLES rows,   \* the version table
          times,  \* committed_ns of each sealed revision; DOMAIN times = 1..n
          req,    \* the client's call in progress
          seen,   \* what the client has gathered over the pages so far
          tally   \* what it was told when it asked for the number of matches

vars == <<rows, times, req, seen, tally>>

-----------------------------------------------------------------------------
(* Writers: a whole batch of another process, seen at its COMMIT.          *)

Current == Cardinality(DOMAIN times)

\* Ids are never reused: a batch sets the content of a current entity or of
\* one that never existed.
Applicable(batch) ==
    \A i \in DOMAIN batch :
        IF batch[i] = Gone
        THEN i \in CurrentIds(rows)
        ELSE CurrentRows(rows, i) # {} \/ \A v \in rows : v.id # i

Changed(batch) ==
    {i \in DOMAIN batch : \A v \in CurrentRows(rows, i) : v.value # batch[i]}

CommitBatch ==
    \E batch \in Batches, t \in 1..MaxTime :
        /\ Current < MaxRevision
        /\ \A r \in DOMAIN times : times[r] < t
        /\ Applicable(batch)
        /\ Changed(batch) # {}
        /\ times' = [r \in 1..(Current + 1) |-> IF r = Current + 1 THEN t ELSE times[r]]
        /\ rows' = CloseCurrent(rows, Changed(batch), Current + 1)
                     \cup {NewRow(i, Current + 1, batch[i]) :
                              i \in {j \in Changed(batch) : batch[j] # Gone}}
        /\ UNCHANGED <<req, seen, tally>>

-----------------------------------------------------------------------------
(* Predicates, and the two statements of one call.                         *)

SqlMatch(p, value) == p.scalar \in {Free, value.scalar}

HasResidual(p) == p.nested # Free

\* matchesProperties: the Go loop compares every property, the nested included.
Matches(p, value) == SqlMatch(p, value) /\ p.nested \in {Free, value.nested}

\* The ids a call for predicate p at revision r is to find.
MatchesAt(T, r, p) == {c[1] : c \in {d \in ContentsAt(T, r) : Matches(p, d[2])}}

\* The first n ids of S in byte order: ORDER BY id LIMIT n.
FirstN(S, n) == {i \in S : Cardinality({j \in S : j < i}) < n}

\* Mutated: the SQL bound is applied although the loop drops rows.
FetchedBounded(p, S, limit) == FirstN(S, limit + 1)

\* The rows the query hands to the loop.  The SQL limit is left off when the
\* loop has a residual filter.
Fetched(p, S, limit) == IF HasResidual(p) THEN S ELSE FirstN(S, limit + 1)

\* Mutated: the row of the key itself is read again.
FoundInclusive(T, r, p, after, limit) ==
    LET sql == {c \in ContentsAt(T, r) : SqlMatch(p, c[2]) /\ c[1] >= after}
        fetched == Fetched(p, {c[1] : c \in sql}, limit)
    IN FirstN({c[1] : c \in {d \in sql : d[1] \in fetched /\ Matches(p, d[2])}}, limit + 1)

\* The loop over the rows after key `after`: at most one more than the limit.
Found(T, r, p, after, limit) ==
    LET sql == {c \in ContentsAt(T, r) : SqlMatch(p, c[2]) /\ c[1] > after}
        fetched == Fetched(p, {c[1] : c \in sql}, limit)
    IN FirstN({c[1] : c \in {d \in sql : d[1] \in fetched /\ Matches(p, d[2])}}, limit + 1)

\* Mutated: COUNT(*) is used with a residual filter too.
CountAtSql(T, r, p) == Cardinality({c \in ContentsAt(T, r) : SqlMatch(p, c[2])})

\* countNodes: COUNT(*) in SQL, or the loop when there is a residual filter.
CountAt(T, r, p) ==
    IF HasResidual(p)
    THEN Cardinality({c \in ContentsAt(T, r) : SqlMatch(p, c[2]) /\ Matches(p, c[2])})
    ELSE Cardinality({c \in ContentsAt(T, r) : SqlMatch(p, c[2])})

Selectors == [kind : {"current"}, at : {0}]
               \cup [kind : {"revision"}, at : 0..(MaxRevision + 1)]
               \cup [kind : {"time"}, at : 0..MaxTime]

\* revision and after are those of the page that carried the cursor.
NoCursor == [revision |-> 0, pred |-> [scalar |-> Free, nested |-> Free], after |-> 0]

HasCursor == req.cursor.after # 0

\* ResolveSnapshot finds the revision, or there is none with that number.
Resolvable(sel) == sel.kind = "revision" => sel.at <= Current

Resolved(sel) ==
    CASE sel.kind = "current"  -> Current
      [] sel.kind = "revision" -> sel.at
      [] sel.kind = "time"     -> Cardinality({r \in DOMAIN times : times[r] <= sel.at})

\* Mutated: a current read with a cursor looks at the newest revision again.
EffectiveSelectorUnbound == req.selector

\* A current read that carries a cursor is bound to the cursor's revision.
EffectiveSelector ==
    IF req.selector.kind = "current" /\ HasCursor
    THEN [kind |-> "revision", at |-> req.cursor.revision]
    ELSE req.selector

\* pageLimit: 0 asks for the default.
PageLimit(limit) == IF limit = 0 THEN DefaultPageSize ELSE limit

-----------------------------------------------------------------------------
(* The client.                                                             *)

NothingSeen ==
    [ids |-> {}, served |-> 0, bound |-> FALSE, revision |-> 0, pred |-> NoCursor.pred,
     swaps |-> 0]

NoTally == [taken |-> FALSE, n |-> 0]

Init ==
    /\ rows = {}
    /\ times = [r \in {} |-> 0]
    /\ req = [pc |-> "idle", selector |-> [kind |-> "current", at |-> 0],
              pred |-> NoCursor.pred, cursor |-> NoCursor, view |-> 0]
    /\ seen = NothingSeen
    /\ tally = NoTally

Start ==
    \E sel \in Selectors, p \in Predicates :
        /\ req.pc = "idle"
        /\ req' = [pc |-> "resolve", selector |-> sel, pred |-> p,
                   cursor |-> NoCursor, view |-> 0]
        /\ seen' = [NothingSeen EXCEPT !.pred = p]
        /\ UNCHANGED <<rows, times, tally>>

\* Mutated: an unknown revision is asked for again and again.
ResolveAgain ==
    /\ req.pc = "resolve"
    /\ req' = IF Resolvable(EffectiveSelector)
              THEN [req EXCEPT !.pc = "scan", !.view = Resolved(EffectiveSelector)]
              ELSE req
    /\ UNCHANGED <<rows, times, seen, tally>>

\* View: one statement that turns the selector into a revision.
Resolve ==
    /\ req.pc = "resolve"
    /\ req' = IF Resolvable(EffectiveSelector)
              THEN [req EXCEPT !.pc = "scan", !.view = Resolved(EffectiveSelector)]
              ELSE [req EXCEPT !.pc = "unknown"]
    /\ UNCHANGED <<rows, times, seen, tally>>

\* CountNodes on the view that the first page is about to be read from.
CountMatches ==
    /\ req.pc = "scan" /\ ~seen.bound /\ ~tally.taken
    /\ tally' = [taken |-> TRUE, n |-> CountAt(rows, req.view, req.pred)]
    /\ UNCHANGED <<rows, times, req, seen>>

\* decodeGraphCursor: the cursor belongs to this view and this predicate.
CursorMatches ==
    ~HasCursor \/ (req.cursor.revision = req.view /\ req.cursor.pred = req.pred)

\* The answer: the ids found become a page; a row beyond the limit means that
\* there is more, and the page's last id goes into the cursor.
Answer(found, limit) ==
    LET more == Cardinality(found) > limit
        page == IF more THEN FirstN(found, limit) ELSE found
        last == CHOOSE i \in page : \A j \in page : j <= i
    IN
    /\ req' = IF more
              THEN [req EXCEPT !.pc = "resolve",
                               !.cursor = [revision |-> req.view, pred |-> req.pred, after |-> last]]
              ELSE [req EXCEPT !.pc = "done"]
    /\ seen' = [seen EXCEPT !.ids = @ \cup page,
                            !.served = @ + Cardinality(page),
                            !.revision = IF seen.bound THEN @ ELSE req.view,
                            !.bound = TRUE]

\* scanNodes: one statement at the view's revision.
Scan ==
    \E asked \in Limits :
        /\ req.pc = "scan"
        /\ \/ /\ asked > MaxPageSize
              /\ req' = [req EXCEPT !.pc = "toolarge"]
              /\ UNCHANGED seen
           \/ /\ asked <= MaxPageSize
              /\ ~CursorMatches
              /\ req' = [req EXCEPT !.pc = "foreign"]
              /\ UNCHANGED seen
           \/ /\ asked <= MaxPageSize
              /\ CursorMatches
              /\ Answer(Found(rows, req.view, req.pred, req.cursor.after, PageLimit(asked)),
                        PageLimit(asked))
        /\ UNCHANGED <<rows, times, tally>>

\* Between two pages the client changes what it asks for but keeps the cursor.
SwapRequest ==
    \E sel \in Selectors, p \in Predicates :
        /\ req.pc = "resolve" /\ HasCursor
        /\ seen.swaps < MaxSwaps
        /\ <<sel, p>> # <<req.selector, req.pred>>
        /\ req' = [req EXCEPT !.selector = sel, !.pred = p]
        /\ seen' = [seen EXCEPT !.swaps = @ + 1]
        /\ UNCHANGED <<rows, times, tally>>

Ended == {"done", "unknown", "foreign", "toolarge"}

\* The client has its answer; another listing may begin.
Finish ==
    /\ req.pc \in Ended
    /\ req' = [req EXCEPT !.pc = "idle", !.pred = NoCursor.pred, !.cursor = NoCursor, !.view = 0,
                          !.selector = [kind |-> "current", at |-> 0]]
    /\ seen' = NothingSeen
    /\ tally' = NoTally
    /\ UNCHANGED <<rows, times>>

Next == \/ CommitBatch \/ Start \/ Resolve \/ CountMatches \/ Scan
        \/ SwapRequest \/ Finish

Spec == Init /\ [][Next]_vars

\* The loop of allNodes runs on: a call that was made returns, and as long as
\* there is a Next cursor the next call is made.
FairSpec == Spec /\ WF_vars(Resolve) /\ WF_vars(Scan)

-----------------------------------------------------------------------------
(* Properties.                                                             *)

\* Types of the variables; a view is always of a sealed revision.
TypeOK ==
    /\ rows \subseteq VersionRow(Ids, Values)
    /\ times \in [1..Current -> 1..MaxTime]
    /\ req \in [pc : {"idle", "resolve", "scan"} \cup Ended,
                selector : Selectors,
                pred : Predicates \cup {NoCursor.pred},
                cursor : [revision : 0..Current, pred : Predicates \cup {NoCursor.pred},
                          after : Ids \cup {0}],
                view : 0..Current]
    /\ seen \in [ids : SUBSET Ids, served : Nat, bound : BOOLEAN, revision : 0..Current,
                 pred : Predicates \cup {NoCursor.pred}, swaps : 0..MaxSwaps]
    /\ tally \in [taken : BOOLEAN, n : Nat]

\* The pages gathered so far are, whatever was committed or asked for between
\* them, exactly the matches of the first page's predicate at the first page's
\* revision up to the last key served, and all of them once there is no Next
\* cursor: nothing skipped, nothing from another revision (ListNodes binding
\* a cursor to its revision, decodeGraphCursor, scanNodes reading limit + 1).
PagesAreOneSnapshot ==
    seen.bound =>
        seen.ids = {i \in MatchesAt(rows, seen.revision, seen.pred) :
                        req.pc = "done" \/ i <= req.cursor.after}

\* No entity is on two pages (the keyset condition id > after).
NoEntityTwice == seen.served = Cardinality(seen.ids)

\* What CountNodes says of a view is the number of entities that paging
\* through the same view delivers, whichever of SQL and the Go loop counts.
CountAgrees == req.pc = "done" /\ tally.taken => tally.n = seen.served

\* A client that keeps its request is refused a continuation only when it
\* selected by time and a revision it had not seen turned out to lie at or
\* before that time; a listing by current or by exact revision always goes on.
ContinuationAccepted ==
    seen.bound /\ seen.swaps = 0 =>
        /\ req.pc # "unknown"
        /\ req.pc = "foreign" =>
              /\ req.selector.kind = "time"
              /\ \E r \in DOMAIN times : r > seen.revision /\ times[r] <= req.selector.at

\* Every listing that was begun ends: each page moves the key forward although
\* commits keep coming (the loops of allNodes and allEdges).
ListingEnds == (req.pc = "resolve") ~> (req.pc \in Ended)
=============================================================================
