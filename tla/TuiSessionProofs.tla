-------------------------- MODULE TuiSessionProofs --------------------------
(***************************************************************************)
(* For sessions of any length, any number of answers under way and any     *)
(* page size: a live screen never goes back to an earlier revision, a      *)
(* stale one says so, only the user changes what is selected, a form is    *)
(* open on a live screen only and runs only when it was completed, and the *)
(* timeline has no hole.                                                   *)
(*                                                                         *)
(* The invariant has a part for each numbered command.  At most one answer *)
(* carries the latest number; it is the one that the loop waits for, and   *)
(* what is on screen when it arrives is still what it was asked under.     *)
(***************************************************************************)
EXTENDS TuiSession, FiniteSetTheorems, TLAPS

Answers == {"none", "ok", "error"}

LoadRecords == [serial : Nat, target : Snapshots, revision : 0..db, answer : Answers]

PageRecords == [serial : Nat, older : BOOLEAN, cursor : 0..db, revisions : SUBSET (1..db),
                next : 0..db, answer : Answers]

RunRecords == [serial : Nat, op : Operations, revision : 0..db,
               answer : Answers \cup {"changed", "unchanged", "nomatch", "cancelled"}]

\* The types, one part for each command and its variables.
StoreTypes ==
    /\ budget \in BudgetRecords
    /\ db \in 0..budget.revisions
    /\ poll \in [phase : {"waiting", "answered"}, revision : 0..db, failed : BOOLEAN]

ViewTypes == view \in [snapshot : Snapshots, loaded : 0..db, live : 0..db]

LoadTypes ==
    /\ load \in [seq : Nat, loading : BOOLEAN, target : Snapshots, failed : BOOLEAN]
    /\ loads \subseteq LoadRecords
    /\ \A c \in loads : c.serial <= load.seq

HistRecords(N) ==
    [seq : Nat, loading : BOOLEAN, failed : BOOLEAN, ready : BOOLEAN,
     end : BOOLEAN, cursor : 0..N, capacity : Nat, revisions : SUBSET (1..N)]

PageTypes ==
    /\ hist \in HistRecords(db)
    /\ pages \subseteq PageRecords
    /\ \A c \in pages : c.serial <= hist.seq

RunTypes ==
    /\ exec \in [seq : Nat, executing : BOOLEAN, pending : Operations \cup {None},
                 overlay : {"none", "form", "error"}]
    /\ exec.overlay = "error" => exec.pending \in Operations
    /\ runs \subseteq RunRecords
    /\ \A c \in runs : c.serial <= exec.seq

Types == StoreTypes /\ ViewTypes /\ LoadTypes /\ PageTypes /\ RunTypes

\* The load that is waited for: there is one, it is for the target of the last
\* request, and a live graph it read is no older than the one on screen.
LoadAwaited ==
    /\ \A c, d \in loads : c.serial = d.serial => c = d
    /\ \A c \in loads : c.serial = load.seq =>
          /\ load.loading /\ c.target = load.target
          /\ c.answer = "ok" /\ c.target = Live => c.revision >= view.loaded

\* The submit message of the form that is held is under way only once that form
\* was completed; no message is from a form yet to be opened.
FormAwaited ==
    /\ form \in [seq : Nat, state : {"none", "normal", "completed"}]
    /\ submits \subseteq 1..form.seq
    /\ form.state # "none" => form.seq # 0
    /\ form.seq \in submits => form.state # "normal"

\* The execution that is waited for is the only one with the latest number.
RunAwaited ==
    /\ \A c, d \in runs : c.serial = d.serial => c = d
    /\ \A c \in runs : c.serial = exec.seq => exec.executing

\* A form that is open is open on a live screen.
FormIsLive == exec.overlay = "form" => ~Historical

\* Where the part of the timeline that is continued by the cursor begins.
Low == IF hist.cursor = 0 THEN 1 ELSE hist.cursor

\* From its cursor up the timeline is one stretch, no longer than its capacity.
TimelineStretch ==
    /\ hist.ready => /\ hist.end <=> hist.cursor = 0
                     /\ \E top \in 0..db :
                          /\ {r \in hist.revisions : r >= Low} = Low..top
                          /\ top - Low + 1 <= hist.capacity
                          /\ top + 1 >= Low
    /\ ~hist.ready => hist.revisions = {}
    /\ hist.capacity # 0 => hist.capacity >= TimelinePageSize

\* The page that is waited for continues the timeline from its cursor, or was read
\* when nothing was newer than what it has on top.
PageAwaited ==
    /\ \A c, d \in pages : c.serial = d.serial => c = d
    /\ \A c \in pages : c.serial = hist.seq =>
          /\ IF c.older THEN hist.ready /\ hist.cursor # 0 /\ c.cursor = hist.cursor
                        ELSE c.cursor = 0
          /\ c.answer = "ok" =>
                \E n \in 0..db :
                    LET page == RevisionPage(n, "descending", c.cursor, TimelinePageSize) IN
                    /\ hist.revisions \subseteq 1..n /\ c.cursor <= n
                    /\ c.revisions = page.revisions /\ c.next = page.next

UInv == Types /\ FormAwaited /\ RunAwaited /\ LoadAwaited /\ FormIsLive /\ StaleIsMarked
        /\ TimelineStretch /\ PageAwaited

-----------------------------------------------------------------------------
(* Types *)

Later == db \in Nat /\ db' \in Nat /\ db <= db'

\* More revisions make no type narrower.
LEMMA ViewKept == ASSUME ViewTypes, Later, UNCHANGED view PROVE ViewTypes'
BY DEF ViewTypes, Later, Snapshots

\* What is true of loads under way stays true when the store moves on.
LEMMA LoadKept == ASSUME LoadTypes, Later, UNCHANGED <<load, loads>> PROVE LoadTypes'
BY DEF LoadTypes, Later, Snapshots, LoadRecords

\* ... of history pages ...
LEMMA PageKept == ASSUME PageTypes, Later, UNCHANGED <<hist, pages>> PROVE PageTypes'
<1>1. SUBSET (1..db) \subseteq SUBSET (1..db') /\ 0..db \subseteq 0..db'
  BY DEF Later
<1>2. hist' \in HistRecords(db')
  BY <1>1 DEF PageTypes, HistRecords
<1>3. pages' \subseteq PageRecords'
  BY <1>1 DEF PageTypes, PageRecords
<1> QED BY <1>2, <1>3 DEF PageTypes

\* ... and of executions.
LEMMA RunKept == ASSUME RunTypes, Later, UNCHANGED <<exec, runs>> PROVE RunTypes'
BY DEF RunTypes, Later, RunRecords, Operations

\* The fields of a timeline for which a page is asked.
LEMMA HistStarts ==
    ASSUME NEW N \in Nat, NEW h \in HistRecords(N)
    PROVE  LET started == [h EXCEPT !.seq = @ + 1, !.loading = TRUE, !.failed = FALSE] IN
           /\ started \in HistRecords(N)
           /\ started.seq = h.seq + 1 /\ started.ready = h.ready /\ started.end = h.end
           /\ started.cursor = h.cursor /\ started.capacity = h.capacity
           /\ started.revisions = h.revisions
<1> DEFINE h1 == [h EXCEPT !.seq = @ + 1]
           h2 == [h1 EXCEPT !.loading = TRUE]
           h3 == [h2 EXCEPT !.failed = FALSE]
<1>1. /\ h1 \in HistRecords(N) /\ h1.seq = h.seq + 1 /\ h1.ready = h.ready /\ h1.end = h.end
      /\ h1.cursor = h.cursor /\ h1.capacity = h.capacity /\ h1.revisions = h.revisions
  BY DEF HistRecords
<1> HIDE DEF h1
<1>2. /\ h2 \in HistRecords(N) /\ h2.seq = h1.seq /\ h2.ready = h1.ready /\ h2.end = h1.end
      /\ h2.cursor = h1.cursor /\ h2.capacity = h1.capacity /\ h2.revisions = h1.revisions
  BY <1>1 DEF HistRecords
<1> HIDE DEF h2
<1>3. /\ h3 \in HistRecords(N) /\ h3.seq = h2.seq /\ h3.ready = h2.ready /\ h3.end = h2.end
      /\ h3.cursor = h2.cursor /\ h3.capacity = h2.capacity /\ h3.revisions = h2.revisions
  BY <1>2 DEF HistRecords
<1> HIDE DEF h3
<1> QED BY <1>1, <1>2, <1>3 DEF h1, h2, h3

\* What starting a command does to the types.
LEMMA LoadStarts ==
    ASSUME LoadTypes, UNCHANGED db, NEW target \in Snapshots, StartSnapshotLoad(target), db \in Nat
    PROVE  LoadTypes'
<1>1. load.seq \in Nat /\ loads \subseteq LoadRecords /\ \A c \in loads : c.serial <= load.seq
  BY DEF LoadTypes
<1> DEFINE new == [serial |-> load.seq + 1, target |-> target, revision |-> 0, answer |-> "none"]
<1>2. new \in LoadRecords /\ new.serial = load.seq + 1
  BY <1>1 DEF LoadRecords, Answers
<1>3. loads' = loads \cup {new}
      /\ load' = [seq |-> load.seq + 1, loading |-> TRUE, target |-> target, failed |-> FALSE]
  BY DEF StartSnapshotLoad
<1> HIDE DEF new
<1>4. Snapshots' = Snapshots /\ LoadRecords' = LoadRecords
  BY DEF Snapshots, LoadRecords
<1>5. \A c \in loads' : c.serial <= load.seq + 1
  BY <1>1, <1>2, <1>3 DEF LoadRecords
<1>6. load'.seq = load.seq + 1
      /\ load' \in [seq : Nat, loading : BOOLEAN, target : Snapshots, failed : BOOLEAN]
  BY <1>1, <1>3
<1> QED BY <1>1, <1>2, <1>3, <1>4, <1>5, <1>6 DEF LoadTypes

\* Asking for a page of the timeline.
LEMMA PageStarts ==
    ASSUME PageTypes, UNCHANGED db, NEW older \in BOOLEAN, StartHistoryPage(older), db \in Nat
    PROVE  PageTypes'
<1>1. /\ hist \in HistRecords(db) /\ hist.seq \in Nat /\ hist.cursor \in 0..db
      /\ pages \subseteq PageRecords /\ \A c \in pages : c.serial <= hist.seq
  BY DEF PageTypes, HistRecords
<1> DEFINE from == IF older THEN hist.cursor ELSE 0
           new == [serial |-> hist.seq + 1, older |-> older, cursor |-> from,
                   revisions |-> {}, next |-> 0, answer |-> "none"]
<1>2. new \in PageRecords /\ new.serial = hist.seq + 1
  <2>1. from \in 0..db /\ 0 \in 0..db /\ {} \in SUBSET (1..db)
    BY <1>1
  <2> HIDE DEF from
  <2> QED BY <1>1, <2>1 DEF PageRecords, Answers
<1>3. pages' = pages \cup {new}
      /\ hist' = [hist EXCEPT !.seq = @ + 1, !.loading = TRUE, !.failed = FALSE]
  BY DEF StartHistoryPage
<1> HIDE DEF new
<1>4. PageRecords' = PageRecords
  BY DEF PageRecords
<1>5. \A c \in pages' : c.serial <= hist.seq + 1
  BY <1>1, <1>2, <1>3 DEF PageRecords
<1>6. hist'.seq = hist.seq + 1 /\ hist' \in HistRecords(db)
  BY <1>1, <1>3, HistStarts
<1> QED BY <1>1, <1>2, <1>3, <1>4, <1>5, <1>6 DEF PageTypes

\* Starting an execution.
LEMMA RunStarts ==
    ASSUME RunTypes, UNCHANGED db, NEW op \in Operations, StartExecution(op), db \in Nat
    PROVE  RunTypes'
<1>1. /\ exec.seq \in Nat
      /\ runs \subseteq RunRecords /\ \A c \in runs : c.serial <= exec.seq
  BY DEF RunTypes
<1> DEFINE new == [serial |-> exec.seq + 1, op |-> op, revision |-> 0, answer |-> "none"]
<1>2. new \in RunRecords /\ new.serial = exec.seq + 1
  BY <1>1 DEF RunRecords, Answers
<1>3. runs' = runs \cup {new}
      /\ exec' = [seq |-> exec.seq + 1, executing |-> TRUE, pending |-> op, overlay |-> "none"]
  BY DEF StartExecution
<1> HIDE DEF new
<1>4. RunRecords' = RunRecords
  BY DEF RunRecords, Operations
<1>5. \A c \in runs' : c.serial <= exec.seq + 1
  BY <1>1, <1>2, <1>3 DEF RunRecords
<1>6. /\ exec'.seq = exec.seq + 1 /\ exec'.overlay = "none"
      /\ exec' \in [seq : Nat, executing : BOOLEAN, pending : Operations \cup {None},
                    overlay : {"none", "form", "error"}]
  BY <1>1, <1>3
<1> QED BY <1>1, <1>2, <1>3, <1>4, <1>5, <1>6 DEF RunTypes

-----------------------------------------------------------------------------
(* Pages of the timeline *)

\* ORDER BY revision DESC LIMIT k on a stretch keeps the newest k.
LEMMA TakeFact ==
    ASSUME NEW a \in Nat, NEW c \in Nat, NEW k \in Nat
    PROVE  Take(a..c, "descending", k) = {r \in a..c : c - r < k}
<1>1. ASSUME NEW r \in a..c
      PROVE  Cardinality({x \in a..c : Before("descending", x, r)}) = c - r
  <2> DEFINE d == r + 1
  <2>1. {x \in a..c : Before("descending", x, r)} = d..c
    BY DEF Before
  <2>2. d \in Int /\ c - d + 1 = c - r /\ (d > c => c - r = 0)
    OBVIOUS
  <2> HIDE DEF d
  <2>3. Cardinality(d..c) = IF d > c THEN 0 ELSE c - d + 1
    BY <2>2, FS_Interval
  <2> QED BY <2>1, <2>2, <2>3
<1> QED BY <1>1 DEF Take

\* A page of the newest revisions up to one.
IsNewest(page, top, limit) ==
    IF top > limit
    THEN page.revisions = (top - limit + 1)..top /\ page.next = top - limit + 1
    ELSE page.revisions = 1..top /\ page.next = 0

\* A descending page starts below its boundary, or at the newest revision.
LEMMA DescendingPage ==
    ASSUME NEW N \in Nat, NEW b \in Nat, b <= N, NEW limit \in Nat \ {0}
    PROVE  IsNewest(RevisionPage(N, "descending", b, limit),
                    IF b = 0 THEN N ELSE b - 1, limit)
<1> DEFINE infos == Take(Beyond(N, "descending", b), "descending", limit + 1)
           more == Cardinality(infos) > limit
           page == IF more THEN Take(infos, "descending", limit) ELSE infos
           next == CHOOSE r \in page : \A x \in page : r = x \/ Before("descending", x, r)
           top == IF b = 0 THEN N ELSE b - 1
<1>0. top \in Nat
  OBVIOUS
<1>1. Beyond(N, "descending", b) = 1..top
  BY DEF Beyond
<1> HIDE DEF top
<1>2. infos = {r \in 1..top : top - r < limit + 1}
  BY <1>0, <1>1, TakeFact
<1> HIDE DEF infos
<1>3. CASE top > limit
  <2>1. infos = (top - limit)..top
    BY <1>0, <1>2, <1>3
  <2>2. Cardinality((top - limit)..top) = limit + 1
    BY <1>0, FS_Interval
  <2>3. more
    BY <2>1, <2>2
  <2>4. page = (top - limit + 1)..top
    <3>1. Take((top - limit)..top, "descending", limit)
            = {r \in (top - limit)..top : top - r < limit}
      BY <1>0, <1>3, TakeFact
    <3>2. page = {r \in (top - limit)..top : top - r < limit}
      BY <2>1, <2>3, <3>1
    <3>3. \A r : r \in (top - limit)..top /\ top - r < limit <=> r \in (top - limit + 1)..top
      BY <1>0
    <3> HIDE DEF page
    <3> QED BY <3>2, <3>3
  <2> HIDE DEF page
  <2>5. \A r \in page :
          (\A x \in page : r = x \/ Before("descending", x, r)) <=> r = top - limit + 1
    BY <1>0, <2>4 DEF Before
  <2>6. top - limit + 1 \in page
    BY <1>0, <1>3, <2>4
  <2>7. next = top - limit + 1
    BY <2>5, <2>6
  <2> HIDE DEF next
  <2>8. RevisionPage(N, "descending", b, limit) = [revisions |-> page, next |-> next]
    BY <2>3 DEF RevisionPage, infos, page, next
  <2> QED BY <1>3, <2>4, <2>7, <2>8 DEF top, IsNewest
<1>4. CASE ~(top > limit)
  <2>1. infos = 1..top
    <3>1. \A r \in 1..top : top - r < limit + 1
      BY <1>0, <1>4
    <3> QED BY <1>2, <3>1
  <2>2. Cardinality(1..top) = top
    BY <1>0, FS_Interval
  <2>3. ~more
    BY <1>4, <2>1, <2>2
  <2>4. RevisionPage(N, "descending", b, limit) = [revisions |-> infos, next |-> 0]
    BY <2>3 DEF RevisionPage, infos
  <2> QED BY <1>4, <2>1, <2>4 DEF top, IsNewest
<1> QED BY <1>3, <1>4

\* What the fields of a page are in, and how long it is.
LEMMA PageFact ==
    ASSUME NEW N \in Nat, NEW b \in Nat, b <= N, NEW limit \in Nat \ {0}
    PROVE  LET page == RevisionPage(N, "descending", b, limit) IN
           /\ page.revisions \in SUBSET (1..N) /\ page.next \in 0..N
           /\ IsFiniteSet(page.revisions) /\ Cardinality(page.revisions) \in Nat
<1> DEFINE page == RevisionPage(N, "descending", b, limit)
           top == IF b = 0 THEN N ELSE b - 1
<1>1. top \in Nat /\ top <= N
  OBVIOUS
<1>2. IF top > limit
      THEN page.revisions = (top - limit + 1)..top /\ page.next = top - limit + 1
      ELSE page.revisions = 1..top /\ page.next = 0
  BY DescendingPage DEF IsNewest
<1> HIDE DEF page, top
<1>3. PICK low \in 1..N + 1 : page.revisions = low..top /\ page.next \in {0, low}
           /\ (page.next = low => low <= N)
  BY <1>1, <1>2
<1>4. page.revisions \in SUBSET (1..N) /\ page.next \in 0..N
  BY <1>1, <1>3
<1>5. IsFiniteSet(low..top) /\ Cardinality(low..top) \in Nat
  BY <1>1, <1>3, FS_Interval, FS_CardinalityType
<1> QED BY <1>3, <1>4, <1>5 DEF page

-----------------------------------------------------------------------------
(* The types are kept *)

\* An answered command keeps its number and what it was asked for.
LEMMA LoadFails ==
    ASSUME NEW c \in LoadRecords, NEW a \in Answers
    PROVE  LET e == [c EXCEPT !.answer = a] IN
           /\ e \in LoadRecords /\ e.serial = c.serial /\ e.target = c.target
           /\ e.answer = a /\ e.revision = c.revision
BY DEF LoadRecords

\* An answered page command is still one.
LEMMA PageFails ==
    ASSUME NEW c \in PageRecords, NEW a \in Answers
    PROVE  LET e == [c EXCEPT !.answer = a] IN
           /\ e \in PageRecords /\ e.serial = c.serial /\ e.older = c.older
           /\ e.cursor = c.cursor /\ e.answer = a
BY DEF PageRecords

\* A budget is spent on failures and actions only.
LEMMA BudgetSpent ==
    ASSUME budget \in BudgetRecords,
           \/ UNCHANGED budget
           \/ MayFail /\ Fail
           \/ \E name \in {"form", "query", "retry", "open", "live", "refresh", "older"} : Acts(name)
    PROVE  budget' \in BudgetRecords /\ budget'.revisions = budget.revisions
BY DEF BudgetRecords, MayFail, Fail, Acts

\* Types hold initially.
LEMMA InitTypes == ASSUME Init PROVE Types
<1>1. budget \in BudgetRecords /\ db \in 0..budget.revisions /\ db \in Nat
  BY TuiAssumption DEF Init, BudgetRecords
<1>2. StoreTypes /\ ViewTypes
  BY <1>1 DEF Init, StoreTypes, ViewTypes, Snapshots
<1>3. LoadTypes
  BY <1>1 DEF Init, LoadTypes, LoadRecords, Snapshots, Answers
<1>4. PageTypes
  <2>1. hist \in HistRecords(db) /\ hist.seq = 1
    BY <1>1 DEF Init, HistRecords
  <2>2. pages \subseteq PageRecords /\ \A c \in pages : c.serial = 1
    BY <1>1 DEF Init, PageRecords, Answers
  <2> QED BY <2>1, <2>2 DEF PageTypes
<1>5. RunTypes
  BY DEF Init, RunTypes
<1> QED BY <1>2, <1>3, <1>4, <1>5 DEF Types

\* The commands outside the loop.
LEMMA RunLoadTypes == ASSUME Types, RunLoad PROVE Types'
<1>1. PICK c \in loads :
        /\ \/ /\ loads' = (loads \ {c}) \cup
                   {[c EXCEPT !.answer = "ok", !.revision = IF c.target = Live THEN db ELSE c.target]}
              /\ UNCHANGED budget
           \/ /\ MayFail /\ Fail
              /\ loads' = (loads \ {c}) \cup {[c EXCEPT !.answer = "error"]}
        /\ UNCHANGED <<db, view, load, hist, exec, poll, pages, runs>>
  BY DEF RunLoad
<1>2. db \in Nat /\ Later /\ budget \in BudgetRecords
  BY <1>1 DEF Types, StoreTypes, BudgetRecords, Later
<1>3. c \in LoadRecords /\ c.serial <= load.seq
  BY DEF Types, LoadTypes
<1> DEFINE r == IF c.target = Live THEN db ELSE c.target
           d == [c EXCEPT !.answer = "ok", !.revision = r]
           e == [c EXCEPT !.answer = "error"]
<1>4. r \in 0..db
  BY <1>2, <1>3 DEF LoadRecords, Snapshots
<1>5. loads' = (loads \ {c}) \cup {d} \/ loads' = (loads \ {c}) \cup {e}
  BY <1>1
<1> HIDE DEF r
<1>6. d \in LoadRecords /\ d.serial = c.serial /\ e \in LoadRecords /\ e.serial = c.serial
  <2>1. "ok" \in Answers /\ "error" \in Answers
    BY DEF Answers
  <2>2. d \in LoadRecords /\ d.serial = c.serial
    <3> DEFINE f == [c EXCEPT !.answer = "ok"]
               g == [f EXCEPT !.revision = r]
    <3>1. f \in LoadRecords /\ f.serial = c.serial
      BY <1>3, <2>1, LoadFails
    <3>2. d = g
      OBVIOUS
    <3> HIDE DEF f, d
    <3>3. g \in LoadRecords /\ g.serial = f.serial
      BY <1>4, <3>1 DEF LoadRecords
    <3> QED BY <3>1, <3>2, <3>3
  <2>3. e \in LoadRecords /\ e.serial = c.serial
    BY <1>3, <2>1, LoadFails
  <2> QED BY <2>2, <2>3
<1> HIDE DEF d, e
<1>7. LoadTypes'
  BY <1>1, <1>3, <1>5, <1>6 DEF Types, LoadTypes, LoadRecords, Snapshots
<1>8. StoreTypes'
  BY <1>1, <1>2, BudgetSpent DEF Types, StoreTypes
<1> QED BY <1>1, <1>2, <1>7, <1>8, ViewKept, PageKept, RunKept DEF Types

\* The command that reads a page.
LEMMA RunHistoryPageTypes == ASSUME Types, RunHistoryPage PROVE Types'
<1> DEFINE Page(c) == RevisionPage(db, "descending", c.cursor, TimelinePageSize)
<1>1. PICK c \in pages :
        /\ \/ /\ pages' = (pages \ {c}) \cup
                   {[c EXCEPT !.answer = "ok", !.revisions = Page(c).revisions, !.next = Page(c).next]}
              /\ UNCHANGED budget
           \/ /\ MayFail /\ Fail
              /\ pages' = (pages \ {c}) \cup {[c EXCEPT !.answer = "error"]}
        /\ UNCHANGED <<db, view, load, hist, exec, poll, loads, runs>>
  BY DEF RunHistoryPage
<1>2. db \in Nat /\ Later /\ budget \in BudgetRecords
  BY <1>1 DEF Types, StoreTypes, BudgetRecords, Later
<1>3. c \in PageRecords /\ c.serial <= hist.seq /\ c.cursor \in Nat /\ c.cursor <= db
  BY <1>2 DEF Types, PageTypes, PageRecords
<1> DEFINE R == Page(c).revisions
           x == Page(c).next
           d == [c EXCEPT !.answer = "ok", !.revisions = R, !.next = x]
           e == [c EXCEPT !.answer = "error"]
<1>4. R \in SUBSET (1..db) /\ x \in 0..db
  BY <1>2, <1>3, PageFact, TuiAssumption
<1>5. pages' = (pages \ {c}) \cup {d} \/ pages' = (pages \ {c}) \cup {e}
  BY <1>1
<1> HIDE DEF R, x
<1>6. d \in PageRecords /\ d.serial = c.serial /\ e \in PageRecords /\ e.serial = c.serial
  <2>1. "ok" \in Answers /\ "error" \in Answers
    BY DEF Answers
  <2>2. d \in PageRecords /\ d.serial = c.serial
    <3> DEFINE f == [c EXCEPT !.answer = "ok"]
               g == [f EXCEPT !.revisions = R]
               h == [g EXCEPT !.next = x]
    <3>1. f \in PageRecords /\ f.serial = c.serial
      BY <1>3, <2>1, PageFails
    <3>2. d = h
      OBVIOUS
    <3> HIDE DEF f, d
    <3>3. g \in PageRecords /\ g.serial = f.serial
      BY <1>4, <3>1 DEF PageRecords
    <3> HIDE DEF g
    <3>4. h \in PageRecords /\ h.serial = g.serial
      BY <1>4, <3>3 DEF PageRecords
    <3> QED BY <3>1, <3>2, <3>3, <3>4
  <2>3. e \in PageRecords /\ e.serial = c.serial
    BY <1>3, <2>1, PageFails
  <2> QED BY <2>2, <2>3
<1> HIDE DEF d, e
<1>7. PageTypes'
  <2>1. PageRecords' = PageRecords /\ hist' = hist /\ db' = db
    BY <1>1 DEF PageRecords
  <2> QED BY <1>3, <1>5, <1>6, <2>1 DEF Types, PageTypes
<1>8. StoreTypes'
  BY <1>1, <1>2, BudgetSpent DEF Types, StoreTypes
<1> QED BY <1>1, <1>2, <1>7, <1>8, ViewKept, LoadKept, RunKept DEF Types

\* The command that executes.
LEMMA RunExecutionTypes == ASSUME Types, RunExecution PROVE Types'
<1>1. PICK c \in runs :
        /\ \/ /\ db < budget.revisions /\ db' = db + 1
              /\ runs' = (runs \ {c}) \cup {[c EXCEPT !.answer = "changed", !.revision = db + 1]}
              /\ UNCHANGED budget
           \/ /\ \E a \in {"unchanged", "nomatch", "cancelled", "error"} :
                    runs' = (runs \ {c}) \cup {[c EXCEPT !.answer = a]}
              /\ UNCHANGED db
              /\ UNCHANGED budget \/ (MayFail /\ Fail)
        /\ UNCHANGED <<view, load, hist, exec, poll, loads, pages>>
  BY DEF RunExecution
<1>2. db \in Nat /\ budget \in BudgetRecords /\ db \in 0..budget.revisions
      /\ budget.revisions \in Nat
  BY DEF Types, StoreTypes, BudgetRecords
<1>3. budget' \in BudgetRecords /\ budget'.revisions = budget.revisions
  BY <1>1, <1>2, BudgetSpent
<1>4. Later /\ db' \in 0..budget'.revisions
  BY <1>1, <1>2, <1>3 DEF Later
<1>5. c \in RunRecords /\ c.serial <= exec.seq
  BY DEF Types, RunTypes
<1>6. PICK d \in RunRecords' : runs' = (runs \ {c}) \cup {d} /\ d.serial = c.serial
  <2>1. CASE /\ db' = db + 1
             /\ runs' = (runs \ {c}) \cup {[c EXCEPT !.answer = "changed", !.revision = db + 1]}
    <3> DEFINE f == [c EXCEPT !.answer = "changed"]
               g == [f EXCEPT !.revision = db + 1]
    <3>1. db + 1 \in 0..db' /\ 0..db \subseteq 0..db'
      BY <1>2, <2>1
    <3>2. f \in RunRecords /\ f.serial = c.serial
      BY <1>5 DEF RunRecords
    <3> HIDE DEF f
    <3>3. g \in RunRecords' /\ g.serial = f.serial
      BY <3>1, <3>2 DEF RunRecords, Operations
    <3>4. runs' = (runs \ {c}) \cup {g}
      BY <2>1 DEF f
    <3> HIDE DEF g
    <3> QED BY <3>2, <3>3, <3>4
  <2>2. ASSUME NEW a \in {"unchanged", "nomatch", "cancelled", "error"}, UNCHANGED db,
               runs' = (runs \ {c}) \cup {[c EXCEPT !.answer = a]}
        PROVE  \E d \in RunRecords' : runs' = (runs \ {c}) \cup {d} /\ d.serial = c.serial
    <3>1. [c EXCEPT !.answer = a] \in RunRecords' /\ [c EXCEPT !.answer = a].serial = c.serial
      BY <1>5, <2>2 DEF RunRecords, Operations, Answers
    <3> QED BY <2>2, <3>1
  <2> QED BY <1>1, <2>1, <2>2
<1>7. RunTypes'
  <2>1. RunRecords \subseteq RunRecords'
    BY <1>4 DEF Later, RunRecords, Operations
  <2> QED BY <1>1, <1>5, <1>6, <2>1 DEF Types, RunTypes, Operations
<1>8. StoreTypes'
  BY <1>1, <1>3, <1>4 DEF Types, StoreTypes, Later
<1> QED BY <1>1, <1>4, <1>7, <1>8, ViewKept, LoadKept, PageKept DEF Types

\* The poller's query, other processes, and stuttering.
LEMMA OutsideTypes == ASSUME Types, RunPoll \/ ExternalCommit \/ UNCHANGED vars PROVE Types'
<1>1. db \in Nat /\ budget \in BudgetRecords /\ db \in 0..budget.revisions
      /\ budget.revisions \in Nat
  BY DEF Types, StoreTypes, BudgetRecords
<1>2. UNCHANGED <<view, load, hist, exec, loads, pages, runs>>
  BY DEF RunPoll, ExternalCommit, vars
<1>3. budget' \in BudgetRecords /\ budget'.revisions = budget.revisions
  BY <1>1, BudgetSpent DEF RunPoll, ExternalCommit, vars
<1>4. Later /\ db' \in 0..budget'.revisions
  BY <1>1, <1>3 DEF Later, RunPoll, ExternalCommit, vars
<1>5. poll' \in [phase : {"waiting", "answered"}, revision : 0..db', failed : BOOLEAN]
  <2>1. CASE RunPoll
    <3>1. /\ db' = db
          /\ \/ poll' = [phase |-> "answered", revision |-> db, failed |-> FALSE]
             \/ poll' = [phase |-> "answered", revision |-> 0, failed |-> TRUE]
      BY <2>1 DEF RunPoll
    <3>2. db \in 0..db /\ 0 \in 0..db
      BY <1>1
    <3>3. CASE poll' = [phase |-> "answered", revision |-> db, failed |-> FALSE]
      BY <3>1, <3>2, <3>3
    <3>4. CASE poll' = [phase |-> "answered", revision |-> 0, failed |-> TRUE]
      BY <3>1, <3>2, <3>4
    <3> QED BY <3>1, <3>3, <3>4
  <2>2. CASE UNCHANGED poll
    BY <1>4, <2>2 DEF Types, StoreTypes, Later
  <2> QED BY <2>1, <2>2 DEF ExternalCommit, vars
<1>6. StoreTypes'
  BY <1>3, <1>4, <1>5 DEF StoreTypes
<1> QED BY <1>2, <1>4, <1>6, ViewKept, LoadKept, PageKept, RunKept DEF Types

\* The loop applies an answer.
LEMMA SnapshotTypes == ASSUME Types, ApplySnapshotLoaded PROVE Types'
<1>1. PICK c \in loads :
        /\ loads' = loads \ {c}
        /\ \/ UNCHANGED <<view, load>>
           \/ load' = LoadFailed /\ UNCHANGED view
           \/ /\ load' = [load EXCEPT !.loading = FALSE, !.failed = FALSE]
              /\ view' = [snapshot |-> c.target, loaded |-> c.revision,
                          live |-> IF c.target = Live THEN c.revision ELSE view.live]
        /\ UNCHANGED <<db, hist, exec, poll, pages, runs, budget>>
  BY DEF ApplySnapshotLoaded
<1>2. Later /\ c \in LoadRecords
  BY <1>1 DEF Types, StoreTypes, BudgetRecords, Later, LoadTypes
<1>3. Snapshots' = Snapshots /\ LoadRecords' = LoadRecords /\ db' = db
  BY <1>1 DEF Snapshots, LoadRecords
<1>4. load' \in [seq : Nat, loading : BOOLEAN, target : Snapshots, failed : BOOLEAN]
      /\ load'.seq = load.seq
  BY <1>1 DEF Types, LoadTypes, LoadFailed
<1>5. LoadTypes'
  BY <1>1, <1>3, <1>4 DEF Types, LoadTypes
<1>6. ViewTypes'
  <2>1. CASE UNCHANGED view
    BY <1>2, <2>1, ViewKept DEF Types
  <2>2. CASE view' = [snapshot |-> c.target, loaded |-> c.revision,
                      live |-> IF c.target = Live THEN c.revision ELSE view.live]
    <3> DEFINE l == IF c.target = Live THEN c.revision ELSE view.live
    <3>1. l \in 0..db
      BY <1>2 DEF Types, ViewTypes, LoadRecords
    <3>2. view' = [snapshot |-> c.target, loaded |-> c.revision, live |-> l]
      BY <2>2
    <3> HIDE DEF l
    <3> QED BY <1>2, <1>3, <3>1, <3>2 DEF ViewTypes, LoadRecords
  <2> QED BY <1>1, <2>1, <2>2
<1>7. StoreTypes'
  BY <1>1 DEF Types, StoreTypes
<1> QED BY <1>1, <1>2, <1>5, <1>6, <1>7, PageKept, RunKept DEF Types

\* The fields of a timeline that takes a page.
Taken(h, cursor, end, cap, R) ==
    [h EXCEPT !.loading = FALSE, !.failed = FALSE, !.ready = TRUE,
              !.cursor = cursor, !.end = end, !.capacity = cap, !.revisions = R]

\* The timeline that takes over a page.
LEMMA HistTakes ==
    ASSUME NEW N \in Nat, NEW h \in HistRecords(N), NEW cursor \in 0..N, NEW end \in BOOLEAN,
           NEW cap \in Nat, NEW R \in SUBSET (1..N)
    PROVE  LET taken == Taken(h, cursor, end, cap, R) IN
           /\ taken \in HistRecords(N) /\ taken.seq = h.seq
           /\ taken.ready /\ taken.cursor = cursor /\ taken.end = end
           /\ taken.capacity = cap /\ taken.revisions = R
<1> DEFINE h1 == [h EXCEPT !.loading = FALSE]
           h2 == [h1 EXCEPT !.failed = FALSE]
           h3 == [h2 EXCEPT !.ready = TRUE]
           h4 == [h3 EXCEPT !.cursor = cursor]
           h5 == [h4 EXCEPT !.end = end]
           h6 == [h5 EXCEPT !.capacity = cap]
           h7 == [h6 EXCEPT !.revisions = R]
<1>1. h1 \in HistRecords(N) /\ h1.seq = h.seq
  BY DEF HistRecords
<1> HIDE DEF h1
<1>2. h2 \in HistRecords(N) /\ h2.seq = h1.seq
  BY <1>1 DEF HistRecords
<1> HIDE DEF h2
<1>3. h3 \in HistRecords(N) /\ h3.seq = h2.seq /\ h3.ready
  BY <1>2 DEF HistRecords
<1> HIDE DEF h3
<1>4. h4 \in HistRecords(N) /\ h4.seq = h3.seq /\ h4.ready = h3.ready /\ h4.cursor = cursor
  BY <1>3 DEF HistRecords
<1> HIDE DEF h4
<1>5. /\ h5 \in HistRecords(N) /\ h5.seq = h4.seq /\ h5.ready = h4.ready
      /\ h5.cursor = h4.cursor /\ h5.end = end
  BY <1>4 DEF HistRecords
<1> HIDE DEF h5
<1>6. /\ h6 \in HistRecords(N) /\ h6.seq = h5.seq /\ h6.ready = h5.ready
      /\ h6.cursor = h5.cursor /\ h6.end = h5.end /\ h6.capacity = cap
  BY <1>5 DEF HistRecords
<1> HIDE DEF h6
<1>7. /\ h7 \in HistRecords(N) /\ h7.seq = h6.seq /\ h7.ready = h6.ready
      /\ h7.cursor = h6.cursor /\ h7.end = h6.end /\ h7.capacity = h6.capacity
      /\ h7.revisions = R
  BY <1>6 DEF HistRecords
<1> HIDE DEF h7
<1> QED BY <1>1, <1>2, <1>3, <1>4, <1>5, <1>6, <1>7 DEF h1, h2, h3, h4, h5, h6, h7, Taken

\* The timeline that is told of an error.
LEMMA HistFails ==
    ASSUME NEW N \in Nat, NEW h \in HistRecords(N)
    PROVE  LET failed == [h EXCEPT !.loading = FALSE, !.failed = TRUE] IN
           /\ failed \in HistRecords(N) /\ failed.seq = h.seq /\ failed.ready = h.ready
           /\ failed.end = h.end /\ failed.cursor = h.cursor /\ failed.capacity = h.capacity
           /\ failed.revisions = h.revisions
<1> DEFINE h1 == [h EXCEPT !.loading = FALSE]
           h2 == [h1 EXCEPT !.failed = TRUE]
<1>1. /\ h1 \in HistRecords(N) /\ h1.seq = h.seq /\ h1.ready = h.ready /\ h1.end = h.end
      /\ h1.cursor = h.cursor /\ h1.capacity = h.capacity /\ h1.revisions = h.revisions
  BY DEF HistRecords
<1> HIDE DEF h1
<1>2. /\ h2 \in HistRecords(N) /\ h2.seq = h1.seq /\ h2.ready = h1.ready /\ h2.end = h1.end
      /\ h2.cursor = h1.cursor /\ h2.capacity = h1.capacity /\ h2.revisions = h1.revisions
  BY <1>1 DEF HistRecords
<1> HIDE DEF h2
<1> QED BY <1>1, <1>2 DEF h1, h2

\* Merging keeps what is listed or new, and nothing else; the capacity grows by
\* the length of an older page.
LEMMA MergeTypes ==
    ASSUME Types, NEW c \in pages, NEW protected
    PROVE  /\ MergeRevisionHistory(hist.revisions, c.revisions, GrownCapacity(c), protected)
                \in SUBSET (1..db)
           /\ GrownCapacity(c) \in Nat
           /\ hist \in HistRecords(db) /\ c \in PageRecords /\ db \in Nat
           /\ IsFiniteSet(c.revisions) /\ Cardinality(c.revisions) \in Nat
<1>1. hist \in HistRecords(db) /\ c \in PageRecords /\ db \in Nat
  BY DEF Types, StoreTypes, PageTypes, BudgetRecords
<1>2. c.revisions \subseteq 1..db /\ hist.revisions \subseteq 1..db /\ hist.capacity \in Nat
  BY <1>1 DEF PageRecords, HistRecords
<1>3. IsFiniteSet(1..db)
  BY <1>1, FS_Interval
<1>4. IsFiniteSet(c.revisions) /\ Cardinality(c.revisions) \in Nat
  BY <1>2, <1>3, FS_Subset, FS_CardinalityType
<1>5. GrownCapacity(c) \in Nat
  BY <1>2, <1>4, TuiAssumption DEF GrownCapacity
<1>6. MergeRevisionHistory(hist.revisions, c.revisions, GrownCapacity(c), protected)
        \subseteq 1..db
  BY <1>2 DEF MergeRevisionHistory, Take
<1> QED BY <1>1, <1>4, <1>5, <1>6

\* What ApplyHistoryLoaded does to the timeline: an answer that is late, one that
\* is not taken, and one that is.
Takes(c, picked) ==
    hist' = [hist EXCEPT
        !.loading = FALSE, !.failed = FALSE, !.ready = TRUE,
        !.cursor = c.next, !.end = (c.next = 0),
        !.capacity = GrownCapacity(c),
        !.revisions = MergeRevisionHistory(hist.revisions, c.revisions,
                          GrownCapacity(c), {picked, SelectedSnapshot})]

\* What is taken over of a page is typed.
LEMMA TakesFact ==
    ASSUME Types, NEW c \in pages, NEW picked, Takes(c, picked)
    PROVE  /\ hist' \in HistRecords(db) /\ hist'.seq = hist.seq
           /\ hist'.ready /\ hist'.cursor = c.next /\ hist'.end = (c.next = 0)
           /\ hist'.capacity = GrownCapacity(c)
           /\ hist'.revisions = MergeRevisionHistory(hist.revisions, c.revisions,
                                    GrownCapacity(c), {picked, SelectedSnapshot})
<1> DEFINE R == MergeRevisionHistory(hist.revisions, c.revisions,
                    GrownCapacity(c), {picked, SelectedSnapshot})
           cap == GrownCapacity(c)
           end == (c.next = 0)
<1>1. R \in SUBSET (1..db) /\ cap \in Nat /\ hist \in HistRecords(db) /\ db \in Nat
  BY MergeTypes
<1>2. c.next \in 0..db /\ end \in BOOLEAN
  BY MergeTypes DEF PageRecords
<1>3. hist' = Taken(hist, c.next, end, cap, R)
  BY DEF Takes, Taken
<1> HIDE DEF R, cap, end
<1>4. /\ hist' \in HistRecords(db) /\ hist'.seq = hist.seq
      /\ hist'.ready /\ hist'.cursor = c.next /\ hist'.end = end
      /\ hist'.capacity = cap /\ hist'.revisions = R
  BY <1>1, <1>2, <1>3, HistTakes
<1> QED BY <1>4 DEF R, cap, end

\* The message of a page.
LEMMA HistoryTypes == ASSUME Types, ApplyHistoryLoaded PROVE Types'
<1>1. PICK c \in pages :
        /\ pages' = pages \ {c}
        /\ \/ UNCHANGED hist
           \/ hist' = [hist EXCEPT !.loading = FALSE, !.failed = TRUE]
           \/ \E picked \in {0} \cup hist.revisions : Takes(c, picked)
        /\ UNCHANGED <<db, view, load, exec, poll, loads, runs, budget>>
  BY DEF ApplyHistoryLoaded, Takes
<1>2. Later /\ hist \in HistRecords(db) /\ db \in Nat
  BY <1>1 DEF Types, StoreTypes, BudgetRecords, Later, PageTypes
<1>3. PageRecords' = PageRecords /\ db' = db
  BY <1>1 DEF PageRecords
<1>4. hist' \in HistRecords(db) /\ hist'.seq = hist.seq
  <2>1. CASE UNCHANGED hist
    BY <1>2, <2>1
  <2>2. CASE hist' = [hist EXCEPT !.loading = FALSE, !.failed = TRUE]
    BY <1>2, <2>2, HistFails
  <2>3. CASE \E picked \in {0} \cup hist.revisions : Takes(c, picked)
    BY <2>3, TakesFact
  <2> QED BY <1>1, <2>1, <2>2, <2>3
<1>5. PageTypes'
  BY <1>1, <1>3, <1>4 DEF Types, PageTypes
<1>6. StoreTypes'
  BY <1>1 DEF Types, StoreTypes
<1> QED BY <1>1, <1>2, <1>5, <1>6, ViewKept, LoadKept, RunKept DEF Types

\* The message of the poller.
LEMMA RevisionTypes == ASSUME Types, ApplyRevisionChecked PROVE Types'
<1>1. /\ poll' = [phase |-> "waiting", revision |-> 0, failed |-> FALSE]
      /\ UNCHANGED <<db, exec, runs, budget>>
  BY DEF ApplyRevisionChecked
<1>2. Later /\ db \in Nat
  BY <1>1 DEF Types, StoreTypes, BudgetRecords, Later
<1>3. StoreTypes'
  <2>1. 0 \in 0..db
    BY <1>2
  <2> QED BY <1>1, <2>1 DEF Types, StoreTypes
<1>4. RunTypes'
  BY <1>1, <1>2, RunKept DEF Types
<1>5. CASE UNCHANGED <<view, load, hist, loads, pages>>
  BY <1>2, <1>3, <1>4, <1>5, ViewKept, LoadKept, PageKept DEF Types
<1>6. CASE /\ view' = [view EXCEPT !.live = poll.revision]
           /\ StartHistoryPage(FALSE)
           /\ \/ StartSnapshotLoad(Live)
              \/ UNCHANGED <<load, loads>>
  <2>1. ViewTypes'
    BY <1>1, <1>6 DEF Types, ViewTypes, StoreTypes, Snapshots
  <2>2. PageTypes'
    BY <1>1, <1>2, <1>6, PageStarts DEF Types
  <2>3. LoadTypes'
    BY <1>1, <1>2, <1>6, LoadKept, LoadStarts DEF Types, Snapshots
  <2> QED BY <1>3, <1>4, <2>1, <2>2, <2>3 DEF Types
<1> QED BY <1>5, <1>6 DEF ApplyRevisionChecked

\* The message of an execution.
LEMMA ExecutionTypes == ASSUME Types, ApplyExecutionFinished PROVE Types'
<1>1. PICK c \in runs :
        /\ runs' = runs \ {c}
        /\ \/ UNCHANGED <<view, load, hist, exec, loads, pages>>
           \/ /\ exec' = [exec EXCEPT !.executing = FALSE, !.pending = c.op, !.overlay = "error"]
              /\ UNCHANGED <<view, load, hist, loads, pages>>
           \/ /\ exec' = [exec EXCEPT !.executing = FALSE, !.pending = None, !.overlay = "none"]
              /\ \/ UNCHANGED <<view, load, hist, loads, pages>>
                 \/ /\ view' = [view EXCEPT !.live = c.revision]
                    /\ StartSnapshotLoad(Live)
                    /\ StartHistoryPage(FALSE)
        /\ UNCHANGED <<db, poll, budget>>
  BY DEF ApplyExecutionFinished
<1>2. Later /\ db \in Nat
  BY <1>1 DEF Types, StoreTypes, BudgetRecords, Later
<1>3. StoreTypes'
  BY <1>1 DEF Types, StoreTypes
<1>4. c \in RunRecords
  BY DEF Types, RunTypes
<1>5. RunTypes'
  <2>1. RunRecords' = RunRecords
    BY <1>1 DEF RunRecords, Operations
  <2>2. c.op \in Operations
    BY <1>4 DEF RunRecords
  <2>3. /\ exec' \in [seq : Nat, executing : BOOLEAN, pending : Operations \cup {None},
                      overlay : {"none", "form", "error"}]
        /\ exec'.seq = exec.seq
        /\ exec'.overlay = "error" => exec'.pending \in Operations
    <3>1. exec \in [seq : Nat, executing : BOOLEAN, pending : Operations \cup {None},
                    overlay : {"none", "form", "error"}]
          /\ (exec.overlay = "error" => exec.pending \in Operations)
      BY DEF Types, RunTypes
    <3>2. CASE UNCHANGED exec
      BY <3>1, <3>2
    <3>3. CASE exec' = [exec EXCEPT !.executing = FALSE, !.pending = c.op, !.overlay = "error"]
      BY <2>2, <3>1, <3>3
    <3>4. CASE exec' = [exec EXCEPT !.executing = FALSE, !.pending = None, !.overlay = "none"]
      BY <3>1, <3>4
    <3> QED BY <1>1, <3>2, <3>3, <3>4
  <2> QED BY <1>1, <2>1, <2>3 DEF Types, RunTypes
<1>6. CASE UNCHANGED <<view, load, hist, loads, pages>>
  BY <1>2, <1>3, <1>5, <1>6, ViewKept, LoadKept, PageKept DEF Types
<1>7. CASE /\ view' = [view EXCEPT !.live = c.revision]
           /\ StartSnapshotLoad(Live) /\ StartHistoryPage(FALSE)
  <2>1. ViewTypes'
    BY <1>1, <1>4, <1>7 DEF Types, ViewTypes, RunRecords, Snapshots
  <2>2. PageTypes'
    BY <1>1, <1>2, <1>7, PageStarts DEF Types
  <2>3. LoadTypes'
    BY <1>1, <1>2, <1>7, LoadStarts DEF Types, Snapshots
  <2> QED BY <1>3, <1>5, <2>1, <2>2, <2>3 DEF Types
<1> QED BY <1>1, <1>6, <1>7

\* The user's actions.
UserActs ==
    \/ OpenForm \/ CompleteForm \/ CloseForm \/ ApplyFormSubmitted \/ RunQuery \/ Retry
    \/ Dismiss \/ OpenRevision \/ ReturnLive \/ Refresh \/ LoadOlder

\* What may be asked for can be shown.
LEMMA SelectedType == ASSUME Types PROVE SelectedSnapshot \in Snapshots /\ Listed \subseteq Snapshots
<1>1. SelectedSnapshot \in Snapshots
  BY DEF Types, ViewTypes, LoadTypes, SelectedSnapshot
<1>2. hist.revisions \subseteq 1..db /\ db \in Nat
  BY DEF Types, StoreTypes, BudgetRecords, PageTypes, HistRecords
<1> QED BY <1>1, <1>2 DEF Listed, Snapshots

\* What the user does.
LEMMA UserTypes == ASSUME Types, UserActs PROVE Types'
<1>1. UNCHANGED <<db, view, poll>>
  BY DEF UserActs, OpenForm, CompleteForm, CloseForm, ApplyFormSubmitted, RunQuery, Retry,
         Dismiss, OpenRevision, ReturnLive, Refresh, LoadOlder
<1>2. Later /\ db \in Nat /\ budget \in BudgetRecords
  BY <1>1 DEF Types, StoreTypes, BudgetRecords, Later
<1>3. StoreTypes'
  <2>1. budget' \in BudgetRecords /\ budget'.revisions = budget.revisions
    BY <1>2, BudgetSpent
    DEF UserActs, OpenForm, CompleteForm, CloseForm, ApplyFormSubmitted, RunQuery, Retry,
        Dismiss, OpenRevision, ReturnLive, Refresh, LoadOlder
  <2> QED BY <1>1, <2>1 DEF Types, StoreTypes
<1>4. ViewTypes'
  BY <1>1, <1>2, ViewKept DEF Types
<1>5. CASE OpenRevision \/ ReturnLive \/ Refresh
  <2>1. UNCHANGED <<exec, runs>> /\ \E target \in Snapshots : StartSnapshotLoad(target)
    BY <1>5, SelectedType DEF OpenRevision, ReturnLive, Refresh, Snapshots
  <2>2. LoadTypes'
    BY <1>1, <1>2, <2>1, LoadStarts DEF Types
  <2>3. UNCHANGED <<hist, pages>> \/ StartHistoryPage(FALSE)
    BY <1>5 DEF OpenRevision, ReturnLive, Refresh
  <2>4. PageTypes'
    BY <1>1, <1>2, <2>3, PageKept, PageStarts DEF Types
  <2> QED BY <1>2, <1>3, <1>4, <2>1, <2>2, <2>4, RunKept DEF Types
<1>6. CASE LoadOlder
  <2>1. UNCHANGED <<exec, runs, load, loads>> /\ StartHistoryPage(TRUE)
    BY <1>6 DEF LoadOlder
  <2> QED BY <1>1, <1>2, <1>3, <1>4, <2>1, LoadKept, PageStarts, RunKept DEF Types
<1>7. CASE UNCHANGED <<load, loads, hist, pages>> /\ \E op \in Operations : StartExecution(op)
  BY <1>1, <1>2, <1>3, <1>4, <1>7, LoadKept, PageKept, RunStarts DEF Types
<1>8. CASE /\ UNCHANGED <<load, loads, hist, pages, runs>>
           /\ \/ exec' = [exec EXCEPT !.overlay = "form"]
              \/ exec' = [exec EXCEPT !.overlay = "none"]
              \/ exec' = [exec EXCEPT !.overlay = "none", !.pending = None]
  <2>1. /\ exec' \in [seq : Nat, executing : BOOLEAN, pending : Operations \cup {None},
                      overlay : {"none", "form", "error"}]
        /\ exec'.seq = exec.seq /\ exec'.overlay # "error"
    BY <1>8 DEF Types, RunTypes
  <2>2. RunTypes'
    BY <1>1, <1>8, <2>1 DEF Types, RunTypes, RunRecords, Operations
  <2> QED BY <1>2, <1>3, <1>4, <1>8, <2>2, LoadKept, PageKept DEF Types
<1>9. CASE UNCHANGED <<load, loads, hist, pages, exec, runs>>
  BY <1>2, <1>3, <1>4, <1>9, LoadKept, PageKept, RunKept DEF Types
<1>10. exec.seq + 1 \in Nat /\ (exec.overlay = "error" => exec.pending \in Operations)
  BY DEF Types, RunTypes
<1>11. CASE OpenForm \/ CloseForm \/ Dismiss
  BY <1>8, <1>11 DEF OpenForm, CloseForm, Dismiss
<1>12. CASE CompleteForm
  BY <1>9, <1>12 DEF CompleteForm
<1>13. CASE RunQuery
  BY <1>7, <1>10, <1>13 DEF RunQuery, Operations
<1>14. CASE Retry
  BY <1>7, <1>10, <1>14 DEF Retry
<1>15. CASE ApplyFormSubmitted
  <2>1. /\ UNCHANGED <<load, loads, hist, pages>>
        /\ \/ UNCHANGED <<exec, runs>>
           \/ StartExecution([id |-> exec.seq + 1, kind |-> "mutation"])
           \/ exec' = [exec EXCEPT !.overlay = "none"] /\ UNCHANGED runs
    BY <1>15 DEF ApplyFormSubmitted
  <2>2. [id |-> exec.seq + 1, kind |-> "mutation"] \in Operations
    BY <1>10 DEF Operations
  <2> QED BY <1>7, <1>8, <1>9, <2>1, <2>2
<1> QED BY <1>5, <1>6, <1>11, <1>12, <1>13, <1>14, <1>15 DEF UserActs

\* Every step keeps the types.
LEMMA TypesStep == ASSUME Types, [Next]_vars PROVE Types'
BY RunLoadTypes, RunHistoryPageTypes, RunExecutionTypes, OutsideTypes, SnapshotTypes,
   HistoryTypes, RevisionTypes, ExecutionTypes, UserTypes DEF Next, UserActs

-----------------------------------------------------------------------------
(* The form *)

\* A new form has a number that no message carries; a message that is handled is gone.
LEMMA FormStep == ASSUME FormAwaited, [Next]_vars PROVE FormAwaited'
<1>1. form.seq \in Nat /\ submits \subseteq 1..form.seq /\ form.seq + 1 \notin submits
  BY DEF FormAwaited
<1>2. CASE OpenForm
  <2>1. /\ form' = [seq |-> form.seq + 1, state |-> "normal"] /\ submits' = submits
    BY <1>2 DEF OpenForm
  <2> QED BY <1>1, <2>1 DEF FormAwaited
<1>3. CASE CompleteForm
  <2>1. /\ form' = [form EXCEPT !.state = "completed"] /\ submits' = submits \cup {form.seq}
        /\ form.state = "normal"
    BY <1>3 DEF CompleteForm
  <2>2. form.seq \in 1..form.seq
    BY <1>1, <2>1 DEF FormAwaited
  <2> QED BY <1>1, <2>1, <2>2 DEF FormAwaited
<1>4. CASE CloseForm
  <2>1. form' = [form EXCEPT !.state = "none"] /\ submits' = submits
    BY <1>4 DEF CloseForm
  <2> QED BY <1>1, <2>1 DEF FormAwaited
<1>5. CASE ApplyFormSubmitted
  <2>1. PICK s \in submits :
          /\ submits' = submits \ {s}
          /\ \/ UNCHANGED form
             \/ /\ s = form.seq
                /\ \/ form' = [form EXCEPT !.state = "none"]
                   \/ form' = [form EXCEPT !.state = "normal"]
    BY <1>5 DEF ApplyFormSubmitted, SubmitIsCurrent
  <2>2. CASE UNCHANGED form
    BY <1>1, <2>1, <2>2 DEF FormAwaited
  <2>3. CASE s = form.seq /\ form' = [form EXCEPT !.state = "none"]
    BY <1>1, <2>1, <2>3 DEF FormAwaited
  <2>4. CASE s = form.seq /\ form' = [form EXCEPT !.state = "normal"]
    BY <1>1, <2>1, <2>4 DEF FormAwaited
  <2> QED BY <2>1, <2>2, <2>3, <2>4
<1>6. CASE UNCHANGED forms
  BY <1>6 DEF FormAwaited, forms
<1>7. OpenForm \/ CompleteForm \/ CloseForm \/ ApplyFormSubmitted \/ UNCHANGED forms
  BY DEF Next, RunLoad, RunHistoryPage, RunExecution, RunPoll, ExternalCommit,
         ApplySnapshotLoaded, ApplyHistoryLoaded, ApplyRevisionChecked,
         ApplyExecutionFinished, RunQuery, Retry, Dismiss, OpenRevision, ReturnLive, Refresh,
         LoadOlder, vars
<1> QED BY <1>2, <1>3, <1>4, <1>5, <1>6, <1>7

\* A new execution is the only one with its number; one that is answered keeps its own.
LEMMA RunStep == ASSUME Types, RunAwaited, [Next]_vars PROVE RunAwaited'
<1>1. /\ exec.seq \in Nat /\ runs \subseteq RunRecords /\ \A c \in runs : c.serial <= exec.seq
      /\ exec \in [seq : Nat, executing : BOOLEAN, pending : Operations \cup {None},
                   overlay : {"none", "form", "error"}]
  BY DEF Types, RunTypes
<1>2. CASE \E op : StartExecution(op)
  <2>1. PICK op : StartExecution(op)
    BY <1>2
  <2> DEFINE new == [serial |-> exec.seq + 1, op |-> op, revision |-> 0, answer |-> "none"]
  <2>2. /\ runs' = runs \cup {new} /\ new.serial = exec.seq + 1
        /\ exec'.seq = exec.seq + 1 /\ exec'.executing
    BY <2>1 DEF StartExecution
  <2> HIDE DEF new
  <2>3. \A c \in runs : c.serial # exec.seq + 1
    BY <1>1 DEF RunRecords
  <2> QED BY <2>2, <2>3 DEF RunAwaited
<1>3. CASE RunExecution
  <2>1. PICK c \in runs : \E d :
          /\ runs' = (runs \ {c}) \cup {d} /\ d.serial = c.serial /\ UNCHANGED exec
    <3>1. PICK c \in runs :
            /\ \/ runs' = (runs \ {c}) \cup {[c EXCEPT !.answer = "changed", !.revision = db + 1]}
               \/ \E a : runs' = (runs \ {c}) \cup {[c EXCEPT !.answer = a]}
            /\ UNCHANGED exec
      BY <1>3 DEF RunExecution
    <3>2. c \in RunRecords
      BY <1>1
    <3>3. [c EXCEPT !.answer = "changed", !.revision = db + 1].serial = c.serial
      BY <3>2 DEF RunRecords
    <3>4. \A a : [c EXCEPT !.answer = a].serial = c.serial
      BY <3>2 DEF RunRecords
    <3> QED BY <3>1, <3>3, <3>4
  <2> QED BY <2>1 DEF RunAwaited
<1>4. CASE ApplyExecutionFinished
  <2>1. PICK c \in runs :
          /\ runs' = runs \ {c}
          /\ \/ UNCHANGED exec
             \/ /\ c.serial = exec.seq
                /\ \/ exec' = [exec EXCEPT !.executing = FALSE, !.pending = c.op, !.overlay = "error"]
                   \/ exec' = [exec EXCEPT !.executing = FALSE, !.pending = None, !.overlay = "none"]
    BY <1>4 DEF ApplyExecutionFinished
  <2>2. exec'.seq = exec.seq
    BY <1>1, <2>1
  <2>3. UNCHANGED exec \/ c.serial = exec.seq
    BY <2>1
  <2> QED BY <2>1, <2>2, <2>3 DEF RunAwaited
<1>5. CASE /\ UNCHANGED runs
           /\ \/ UNCHANGED exec
              \/ exec' = [exec EXCEPT !.overlay = "form"]
              \/ exec' = [exec EXCEPT !.overlay = "none"]
              \/ exec' = [exec EXCEPT !.overlay = "none", !.pending = None]
  <2>1. exec'.seq = exec.seq /\ exec'.executing = exec.executing
    BY <1>1, <1>5
  <2> QED BY <1>5, <2>1 DEF RunAwaited
<1>6. CASE ApplyFormSubmitted
  <2>1. \/ \E op : StartExecution(op)
        \/ UNCHANGED runs /\ (UNCHANGED exec \/ exec' = [exec EXCEPT !.overlay = "none"])
    BY <1>6 DEF ApplyFormSubmitted
  <2> QED BY <1>2, <1>5, <2>1
<1>7. RunQuery \/ Retry => \E op : StartExecution(op)
  BY DEF RunQuery, Retry
<1>8. OpenForm \/ CloseForm \/ Dismiss => <1>5!1
  BY DEF OpenForm, CloseForm, Dismiss
<1>9. \/ RunExecution \/ ApplyExecutionFinished \/ ApplyFormSubmitted \/ RunQuery \/ Retry
      \/ OpenForm \/ CloseForm \/ Dismiss \/ UNCHANGED <<exec, runs>>
  BY DEF Next, RunLoad, RunHistoryPage, RunPoll, ExternalCommit, ApplySnapshotLoaded,
         ApplyHistoryLoaded, ApplyRevisionChecked, CompleteForm, OpenRevision, ReturnLive,
         Refresh, LoadOlder, vars
<1> QED BY <1>2, <1>3, <1>4, <1>5, <1>6, <1>7, <1>8, <1>9

-----------------------------------------------------------------------------
(* The screen *)

Screen == LoadAwaited /\ FormIsLive /\ StaleIsMarked

\* A new load is the only one with its number.
LEMMA AwaitStarts ==
    ASSUME Types, LoadAwaited, NEW target, StartSnapshotLoad(target)
    PROVE  /\ LoadAwaited'
           /\ load'.loading /\ load'.target = target
<1>1. load.seq \in Nat /\ loads \subseteq LoadRecords /\ \A c \in loads : c.serial <= load.seq
  BY DEF Types, LoadTypes
<1> DEFINE new == [serial |-> load.seq + 1, target |-> target, revision |-> 0, answer |-> "none"]
<1>2. new.serial = load.seq + 1 /\ new.target = target /\ new.answer = "none"
  OBVIOUS
<1>3. /\ loads' = loads \cup {new}
      /\ load' = [seq |-> load.seq + 1, loading |-> TRUE, target |-> target, failed |-> FALSE]
  BY DEF StartSnapshotLoad
<1> HIDE DEF new
<1>4. load'.seq = load.seq + 1 /\ load'.loading /\ load'.target = target
  BY <1>3
<1>5. \A c \in loads : c.serial # load.seq + 1
  BY <1>1 DEF LoadRecords
<1>6. \A c, d \in loads' : c.serial = d.serial => c = d
  BY <1>2, <1>3, <1>5 DEF LoadAwaited
<1>7. \A c \in loads' : c.serial = load'.seq => c = new
  BY <1>3, <1>4, <1>5
<1> QED BY <1>2, <1>4, <1>6, <1>7 DEF LoadAwaited

\* Initially no form is open and the first load is under way.
LEMMA InitScreen == ASSUME Init PROVE Screen
BY DEF Init, Screen, LoadAwaited, FormIsLive, StaleIsMarked

\* Steps that touch neither the screen nor its loads.
LEMMA ScreenKept ==
    ASSUME Screen, UNCHANGED <<view, load, loads>>,
           exec'.overlay = "form" => exec.overlay = "form" \/ ~Historical
    PROVE  Screen'
<1>1. LoadAwaited' /\ StaleIsMarked'
  BY DEF Screen, LoadAwaited, StaleIsMarked
<1>2. Historical' <=> Historical
  BY DEF Historical
<1> QED BY <1>1, <1>2 DEF Screen, FormIsLive

\* A load reads the newest revision, which is no older than the screen.
LEMMA RunLoadScreen == ASSUME Types, Screen, RunLoad PROVE Screen'
<1>1. PICK c \in loads :
        /\ \/ loads' = (loads \ {c}) \cup
                {[c EXCEPT !.answer = "ok", !.revision = IF c.target = Live THEN db ELSE c.target]}
           \/ loads' = (loads \ {c}) \cup {[c EXCEPT !.answer = "error"]}
        /\ UNCHANGED <<db, view, load, hist, exec, poll, pages, runs>>
  BY DEF RunLoad
<1>2. c \in LoadRecords /\ view.loaded <= db
  BY DEF Types, LoadTypes, ViewTypes, StoreTypes, BudgetRecords
<1>3. PICK d : /\ loads' = (loads \ {c}) \cup {d}
               /\ d.serial = c.serial /\ d.target = c.target
               /\ d.answer = "ok" /\ d.target = Live => d.revision >= view.loaded
  <2>1. CASE loads' = (loads \ {c}) \cup
               {[c EXCEPT !.answer = "ok", !.revision = IF c.target = Live THEN db ELSE c.target]}
    <3> DEFINE r == IF c.target = Live THEN db ELSE c.target
               f == [c EXCEPT !.answer = "ok"]
               g == [f EXCEPT !.revision = r]
    <3>1. loads' = (loads \ {c}) \cup {g}
      BY <2>1
    <3>2. f \in LoadRecords /\ f.serial = c.serial /\ f.target = c.target
      BY <1>2, LoadFails DEF Answers
    <3> HIDE DEF f
    <3>3. g.serial = f.serial /\ g.target = f.target /\ g.revision = r
      BY <3>2 DEF LoadRecords
    <3>4. c.target = Live => r >= view.loaded
      BY <1>2 DEF Types, StoreTypes, BudgetRecords, ViewTypes
    <3> HIDE DEF g, r
    <3> QED BY <3>1, <3>2, <3>3, <3>4
  <2>2. CASE loads' = (loads \ {c}) \cup {[c EXCEPT !.answer = "error"]}
    <3> DEFINE e == [c EXCEPT !.answer = "error"]
    <3>1. e.serial = c.serial /\ e.target = c.target /\ e.answer = "error"
      BY <1>2, LoadFails DEF Answers
    <3> HIDE DEF e
    <3> QED BY <2>2, <3>1 DEF e
  <2> QED BY <1>1, <2>1, <2>2
<1>4. \A x, y \in loads' : x.serial = y.serial => x = y
  BY <1>3 DEF Screen, LoadAwaited
<1>5. \A x \in loads' : x.serial = load'.seq =>
        /\ load'.loading /\ x.target = load'.target
        /\ x.answer = "ok" /\ x.target = Live => x.revision >= view'.loaded
  BY <1>1, <1>3 DEF Screen, LoadAwaited
<1>6. FormIsLive' /\ StaleIsMarked'
  BY <1>1 DEF Screen, FormIsLive, StaleIsMarked, Historical
<1> QED BY <1>4, <1>5, <1>6 DEF Screen, LoadAwaited

\* The message of a load: one with an old number is dropped.
LEMMA SnapshotScreen == ASSUME Types, Screen, ApplySnapshotLoaded PROVE Screen'
<1>1. PICK c \in loads :
        /\ loads' = loads \ {c}
        /\ \/ /\ ~LoadIsCurrent(c)
              /\ UNCHANGED <<view, load>>
           \/ /\ LoadIsCurrent(c) /\ c.answer = "error"
              /\ load' = LoadFailed
              /\ UNCHANGED view
           \/ /\ LoadIsCurrent(c) /\ c.answer = "ok"
              /\ load' = [load EXCEPT !.loading = FALSE, !.failed = FALSE]
              /\ view' = [snapshot |-> c.target, loaded |-> c.revision,
                          live |-> IF c.target = Live THEN c.revision ELSE view.live]
        /\ UNCHANGED <<db, hist, exec, poll, pages, runs, budget>>
  BY DEF ApplySnapshotLoaded
<1>2. load \in [seq : Nat, loading : BOOLEAN, target : Snapshots, failed : BOOLEAN]
  BY DEF Types, LoadTypes
<1>3. CASE ~LoadIsCurrent(c) /\ UNCHANGED <<view, load>>
  BY <1>1, <1>3 DEF Screen, LoadAwaited, FormIsLive, StaleIsMarked, Historical
<1>4. ASSUME LoadIsCurrent(c), load'.seq = load.seq
      PROVE  /\ LoadAwaited'
             /\ load.loading /\ c.target = load.target
             /\ FormIsLive /\ (exec.overlay = "form" => c.target = Live /\ view.snapshot = Live)
  <2>1. load.loading /\ c.target = load.target /\ FormIsLive
    BY <1>1, <1>4 DEF Screen, LoadAwaited, LoadIsCurrent
  <2>2. \A d \in loads' : d.serial # load'.seq
    BY <1>1, <1>4 DEF Screen, LoadAwaited, LoadIsCurrent
  <2>3. LoadAwaited'
    BY <1>1, <2>2 DEF Screen, LoadAwaited
  <2> QED BY <2>1, <2>3 DEF FormIsLive, Historical
<1>5. CASE LoadIsCurrent(c) /\ load' = LoadFailed /\ UNCHANGED view
  <2>1. load'.seq = load.seq /\ ~load'.loading /\ load'.failed
    BY <1>2, <1>5 DEF LoadFailed
  <2> QED BY <1>1, <1>4, <1>5, <2>1 DEF Screen, FormIsLive, StaleIsMarked, Historical
<1>6. CASE /\ LoadIsCurrent(c)
           /\ load' = [load EXCEPT !.loading = FALSE, !.failed = FALSE]
           /\ view' = [snapshot |-> c.target, loaded |-> c.revision,
                       live |-> IF c.target = Live THEN c.revision ELSE view.live]
  <2>1. load'.seq = load.seq /\ ~load'.loading
    BY <1>2, <1>6
  <2>2. /\ view'.snapshot = c.target /\ view'.loaded = c.revision
        /\ c.target = Live => view'.live = c.revision
    BY <1>6
  <2> QED BY <1>1, <1>4, <1>6, <2>1, <2>2 DEF Screen, FormIsLive, StaleIsMarked, Historical
<1> QED BY <1>1, <1>3, <1>5, <1>6

\* A live load that starts leaves an open form on a live screen.
LEMMA LiveLoadScreen ==
    ASSUME Types, Screen, StartSnapshotLoad(Live),
           view'.snapshot = view.snapshot,
           exec'.overlay = "form" => exec.overlay = "form"
    PROVE  Screen'
<1>1. LoadAwaited' /\ load'.loading /\ load'.target = Live
  BY AwaitStarts DEF Screen
<1> QED BY <1>1 DEF Screen, FormIsLive, StaleIsMarked, Historical

\* The message of the poller starts a load unless history is selected.
LEMMA RevisionScreen == ASSUME Types, Screen, ApplyRevisionChecked PROVE Screen'
<1>1. UNCHANGED exec
  BY DEF ApplyRevisionChecked
<1>2. CASE UNCHANGED <<view, load, hist, loads, pages>>
  BY <1>1, <1>2, ScreenKept
<1>3. CASE /\ view' = [view EXCEPT !.live = poll.revision]
           /\ IF SelectedSnapshot = Live THEN StartSnapshotLoad(Live)
                                         ELSE UNCHANGED <<load, loads>>
  <2>1. view'.snapshot = view.snapshot /\ view'.loaded = view.loaded
    BY <1>3 DEF Types, ViewTypes
  <2>2. CASE SelectedSnapshot = Live
    BY <1>1, <1>3, <2>1, <2>2, LiveLoadScreen
  <2>3. CASE SelectedSnapshot # Live
    BY <1>1, <1>3, <2>1, <2>3
    DEF Screen, LoadAwaited, FormIsLive, StaleIsMarked, Historical, SelectedSnapshot
  <2> QED BY <2>2, <2>3
<1> QED BY <1>2, <1>3 DEF ApplyRevisionChecked

\* The message of an execution that changed the graph starts a load.
LEMMA ExecutionScreen == ASSUME Types, Screen, ApplyExecutionFinished PROVE Screen'
<1>1. PICK c \in runs :
        \/ UNCHANGED <<view, load, hist, exec, loads, pages>>
        \/ /\ exec' = [exec EXCEPT !.executing = FALSE, !.pending = c.op, !.overlay = "error"]
           /\ UNCHANGED <<view, load, hist, loads, pages>>
        \/ /\ exec' = [exec EXCEPT !.executing = FALSE, !.pending = None, !.overlay = "none"]
           /\ \/ UNCHANGED <<view, load, hist, loads, pages>>
              \/ /\ view' = [view EXCEPT !.live = c.revision]
                 /\ StartSnapshotLoad(Live)
  BY DEF ApplyExecutionFinished
<1>2. exec'.overlay = "form" => exec.overlay = "form"
  BY <1>1 DEF Types, RunTypes
<1>3. CASE UNCHANGED <<view, load, loads>>
  BY <1>2, <1>3, ScreenKept
<1>4. CASE view' = [view EXCEPT !.live = c.revision] /\ StartSnapshotLoad(Live)
  <2>1. view'.snapshot = view.snapshot
    BY <1>4 DEF Types, ViewTypes
  <2> QED BY <1>2, <1>4, <2>1, LiveLoadScreen
<1> QED BY <1>1, <1>3, <1>4

\* What the user does to the screen.
LEMMA UserScreen == ASSUME Types, Screen, UserActs PROVE Screen'
<1>1. CASE \/ OpenForm \/ CompleteForm \/ CloseForm \/ ApplyFormSubmitted \/ RunQuery
           \/ Retry \/ Dismiss \/ LoadOlder
  <2>1. UNCHANGED <<view, load, loads>>
    BY <1>1 DEF OpenForm, CompleteForm, CloseForm, ApplyFormSubmitted, RunQuery, Retry,
                Dismiss, LoadOlder
  <2>2. exec'.overlay = "form" => exec.overlay = "form" \/ ~Historical
    <3>1. CASE OpenForm \/ CompleteForm \/ LoadOlder
      BY <3>1 DEF OpenForm, CompleteForm, LoadOlder
    <3>2. CASE RunQuery \/ Retry
      BY <3>2 DEF RunQuery, Retry, StartExecution
    <3>3. CASE CloseForm \/ Dismiss
      BY <3>3 DEF CloseForm, Dismiss, Types, RunTypes
    <3>4. CASE ApplyFormSubmitted
      BY <3>4 DEF ApplyFormSubmitted, StartExecution, Types, RunTypes
    <3> QED BY <1>1, <3>1, <3>2, <3>3, <3>4
  <2> QED BY <2>1, <2>2, ScreenKept
<1>2. CASE ReturnLive
  BY <1>2, LiveLoadScreen DEF ReturnLive
<1>3. CASE OpenRevision
  <2>1. /\ exec.overlay = "none" /\ UNCHANGED <<view, exec>>
        /\ \E target : StartSnapshotLoad(target)
    BY <1>3 DEF OpenRevision
  <2>2. LoadAwaited' /\ load'.loading
    BY <2>1, AwaitStarts DEF Screen
  <2> QED BY <2>1, <2>2 DEF Screen, FormIsLive, StaleIsMarked
<1>4. CASE Refresh
  <2>1. UNCHANGED <<view, exec>> /\ StartSnapshotLoad(SelectedSnapshot)
    BY <1>4 DEF Refresh
  <2>2. LoadAwaited' /\ load'.loading /\ load'.target = SelectedSnapshot
    BY <2>1, AwaitStarts DEF Screen
  <2>3. ~Historical => SelectedSnapshot = Live
    BY DEF Historical, SelectedSnapshot
  <2> QED BY <2>1, <2>2, <2>3 DEF Screen, FormIsLive, StaleIsMarked, Historical
<1> QED BY <1>1, <1>2, <1>3, <1>4 DEF UserActs

\* Every step keeps the screen part.
LEMMA ScreenStep == ASSUME Types, Screen, [Next]_vars PROVE Screen'
<1>1. CASE RunHistoryPage \/ RunExecution \/ RunPoll \/ ExternalCommit \/ ApplyHistoryLoaded
           \/ UNCHANGED vars
  <2>1. UNCHANGED <<view, load, loads, exec>>
    BY <1>1 DEF RunHistoryPage, RunExecution, RunPoll, ExternalCommit, ApplyHistoryLoaded, vars
  <2> QED BY <2>1, ScreenKept
<1> QED BY <1>1, RunLoadScreen, SnapshotScreen, RevisionScreen, ExecutionScreen, UserScreen
        DEF Next, UserActs

-----------------------------------------------------------------------------
(* The timeline *)

Timeline == TimelineStretch /\ PageAwaited

\* The members of R from `low` up are those up to `top`.
Stretch(R, low, top) == {r \in R : r >= low} = low..top

\* Trimming to the capacity keeps a stretch at the top that is not longer.
LEMMA MergeKeeps ==
    ASSUME NEW N \in Nat, NEW S \in SUBSET (1..N), NEW T \in SUBSET (1..N), NEW protected,
           NEW low \in Nat, NEW top \in Nat, NEW cap \in Nat,
           Stretch(S \cup T, low, top), top - low + 1 <= cap
    PROVE  Stretch(MergeRevisionHistory(S, T, cap, protected), low, top)
<1> DEFINE merged == S \cup T
<1>1. merged \subseteq 1..N
  OBVIOUS
<1>2. {r \in merged : r >= low} = low..top
  BY DEF Stretch
<1>3. ASSUME NEW r \in low..top
      PROVE  r \in Take(merged, "descending", cap)
  <2> DEFINE above == {x \in merged : Before("descending", x, r)}
             d == r + 1
  <2>1. r \in merged /\ r \in Nat /\ d \in Nat
    BY <1>3, <1>2
  <2>2. above \subseteq d..top
    <3>1. \A x \in merged : x >= low => x \in low..top
      BY <1>2
    <3>2. \A x \in above : x \in merged /\ x > r /\ x \in Nat
      BY <1>1 DEF Before
    <3>3. low <= r
      BY <1>3
    <3> HIDE DEF merged, above
    <3>4. ASSUME NEW x \in above PROVE x \in d..top
      <4>1. x \in low..top /\ x > r /\ x \in Nat
        BY <2>1, <3>1, <3>2, <3>3
      <4> QED BY <2>1, <4>1
    <3> QED BY <3>4
  <2>3. top - d + 1 = top - r /\ top - r < cap /\ (d > top => top - r = 0)
    BY <1>3
  <2> HIDE DEF d, above
  <2>4. IsFiniteSet(d..top) /\ Cardinality(d..top) = IF d > top THEN 0 ELSE top - d + 1
    BY <2>1, FS_Interval
  <2>5. Cardinality(d..top) < cap
    BY <2>3, <2>4
  <2>6. Cardinality(above) \in Nat /\ Cardinality(above) <= Cardinality(d..top)
        /\ Cardinality(d..top) \in Nat
    BY <2>2, <2>4, FS_Subset, FS_CardinalityType
  <2>7. Cardinality(above) < cap
    BY <2>5, <2>6
  <2> QED BY <2>1, <2>7 DEF Take, above
<1>4. Take(merged, "descending", cap) \subseteq merged
  BY DEF Take
<1> HIDE DEF merged
<1>5. MergeRevisionHistory(S, T, cap, protected)
        = Take(merged, "descending", cap) \cup (merged \cap protected)
  BY DEF MergeRevisionHistory, merged
<1> QED BY <1>3, <1>4, <1>5, <1>2 DEF Stretch

\* What is listed from the new cursor up when the awaited page is merged: the page
\* alone when it was read from the top, and the page and the old stretch otherwise.
LEMMA NewStretch ==
    ASSUME Types, Timeline, NEW c \in pages, c.serial = hist.seq, c.answer = "ok"
    PROVE  LET low == IF c.next = 0 THEN 1 ELSE c.next IN
           \E top \in 0..db :
              /\ {r \in hist.revisions \cup c.revisions : r >= low} = low..top
              /\ top - low + 1 <= GrownCapacity(c)
              /\ top + 1 >= low
<1> DEFINE P == TimelinePageSize
           low == IF c.next = 0 THEN 1 ELSE c.next
           cap0 == IF hist.capacity = 0 THEN P ELSE hist.capacity
<1>1. /\ db \in Nat /\ P \in Nat \ {0} /\ hist.capacity \in Nat /\ hist.cursor \in 0..db
      /\ hist.revisions \subseteq 1..db /\ c \in PageRecords
      /\ GrownCapacity(c) = cap0 + (IF c.older THEN Cardinality(c.revisions) ELSE 0)
  BY TuiAssumption DEF Types, StoreTypes, BudgetRecords, PageTypes, HistRecords, GrownCapacity
<1>2. cap0 \in Nat /\ cap0 >= P /\ cap0 >= hist.capacity
  BY <1>1 DEF Timeline, TimelineStretch
<1>3. PICK n \in 0..db :
        /\ hist.revisions \subseteq 1..n /\ c.cursor <= n
        /\ c.revisions = RevisionPage(n, "descending", c.cursor, P).revisions
        /\ c.next = RevisionPage(n, "descending", c.cursor, P).next
  BY DEF Timeline, PageAwaited
<1>4. c.cursor \in Nat /\ n \in Nat /\ n <= db
  BY <1>1, <1>3 DEF PageRecords
<1> HIDE DEF P, cap0
<1> DEFINE t == IF c.cursor = 0 THEN n ELSE c.cursor - 1
<1>5. t \in Nat /\ t <= n
  BY <1>3, <1>4
<1>6. IF t > P
      THEN c.revisions = (t - P + 1)..t /\ c.next = t - P + 1
      ELSE c.revisions = 1..t /\ c.next = 0
  <2> DEFINE page == RevisionPage(n, "descending", c.cursor, P)
  <2>0. n \in Nat /\ c.cursor <= n /\ P \in Nat \ {0}
    BY <1>1, <1>3, <1>4
  <2>1. IF t > P
        THEN page.revisions = (t - P + 1)..t /\ page.next = t - P + 1
        ELSE page.revisions = 1..t /\ page.next = 0
    <3>1. PICK b \in Nat : b = c.cursor
      BY <1>4
    <3>2. b <= n
      BY <2>0, <3>1
    <3>3. t = IF b = 0 THEN n ELSE b - 1
      BY <3>1
    <3>4. page = RevisionPage(n, "descending", b, P)
      BY <3>1
    <3> HIDE DEF t, page
    <3>5. IsNewest(RevisionPage(n, "descending", b, P), IF b = 0 THEN n ELSE b - 1, P)
      BY <2>0, <3>2, DescendingPage
    <3> QED BY <3>3, <3>4, <3>5 DEF IsNewest
  <2>2. c.revisions = page.revisions /\ c.next = page.next
    BY <1>3
  <2> HIDE DEF page, t
  <2> QED BY <2>1, <2>2
<1>7. /\ low \in Nat \ {0} /\ c.revisions = low..t /\ low <= t + 1
      /\ t - low + 1 <= P
  <2> HIDE DEF t
  <2>1. CASE t > P
    BY <1>1, <1>5, <1>6, <2>1
  <2>2. CASE ~(t > P)
    BY <1>1, <1>5, <1>6, <2>2
  <2> QED BY <2>1, <2>2
<1> HIDE DEF low
<1>8. CASE ~c.older
  <2>1. t = n
    BY <1>8 DEF Timeline, PageAwaited
  <2>2. {r \in hist.revisions \cup c.revisions : r >= low} = low..n
    BY <1>3, <1>4, <1>7, <2>1
  <2>3. GrownCapacity(c) = cap0
    BY <1>1, <1>2, <1>8
  <2>4. n - low + 1 <= GrownCapacity(c) /\ n + 1 >= low /\ n \in 0..db
    BY <1>1, <1>2, <1>4, <1>7, <2>1, <2>3
  <2> QED BY <2>2, <2>4 DEF low
<1>9. CASE c.older
  <2>1. hist.ready /\ hist.cursor # 0 /\ c.cursor = hist.cursor
    BY <1>9 DEF Timeline, PageAwaited
  <2>2. t + 1 = hist.cursor /\ Low = hist.cursor
    BY <1>1, <2>1 DEF Low
  <2>3. PICK top \in 0..db :
          /\ {r \in hist.revisions : r >= hist.cursor} = hist.cursor..top
          /\ top - hist.cursor + 1 <= hist.capacity
          /\ top + 1 >= hist.cursor
    BY <2>1, <2>2 DEF Timeline, TimelineStretch
  <2> HIDE DEF t
  <2>4. Cardinality(c.revisions) = t - low + 1
    <3>1. Cardinality(low..t) = IF low > t THEN 0 ELSE t - low + 1
      BY <1>5, <1>7, FS_Interval
    <3> QED BY <1>5, <1>7, <3>1
  <2>5. GrownCapacity(c) = cap0 + (t - low + 1)
    BY <1>1, <1>9, <2>4
  <2>6. top - low + 1 <= GrownCapacity(c) /\ top + 1 >= low
    <3>1. PICK x \in Nat, h \in Nat : x = low /\ h = hist.capacity
      BY <1>1, <1>7
    <3>2. top \in Nat /\ top - (t + 1) + 1 <= h /\ top + 1 >= t + 1
      BY <1>1, <2>2, <2>3, <3>1
    <3>3. GrownCapacity(c) = cap0 + (t - x + 1) /\ cap0 \in Nat /\ h <= cap0
      BY <1>2, <2>5, <3>1
    <3>4. t \in Nat /\ x <= t + 1
      BY <1>5, <1>7, <3>1
    <3> QED BY <3>1, <3>2, <3>3, <3>4
  <2>7. ASSUME NEW r
        PROVE  (r \in hist.revisions \cup c.revisions /\ r >= low) <=> r \in low..top
    <3>1. ASSUME r \in hist.revisions, r >= low PROVE r \in low..top
      <4>1. r \in Nat
        BY <1>1, <3>1
      <4>2. CASE r >= hist.cursor
        BY <1>7, <2>3, <3>1, <4>1, <4>2
      <4>3. CASE ~(r >= hist.cursor)
        BY <1>1, <1>5, <1>7, <2>2, <2>3, <3>1, <4>1, <4>3
      <4> QED BY <4>2, <4>3
    <3>2. ASSUME r \in c.revisions PROVE r \in low..top /\ r >= low
      BY <1>1, <1>5, <1>7, <2>2, <2>3, <3>2
    <3>3. ASSUME r \in low..top PROVE r \in hist.revisions \cup c.revisions /\ r >= low
      <4>1. r \in Nat /\ r >= low /\ r <= top
        BY <1>7, <2>3, <3>3
      <4>2. CASE r >= hist.cursor
        BY <1>1, <2>3, <4>1, <4>2
      <4>3. CASE ~(r >= hist.cursor)
        BY <1>1, <1>5, <1>7, <2>2, <4>1, <4>3
      <4> QED BY <4>1, <4>2, <4>3
    <3> QED BY <3>1, <3>2, <3>3
  <2>8. {r \in hist.revisions \cup c.revisions : r >= low} = low..top
    BY <2>7
  <2> QED BY <2>6, <2>8 DEF low
<1> QED BY <1>8, <1>9

\* The awaited page continues the timeline without a hole.
LEMMA TakesStretch ==
    ASSUME Types, Timeline, NEW c \in pages, c.serial = hist.seq, c.answer = "ok",
           NEW picked, Takes(c, picked), UNCHANGED db
    PROVE  TimelineStretch'
<1> DEFINE low == IF c.next = 0 THEN 1 ELSE c.next
           cap == GrownCapacity(c)
<1>1. PICK top \in 0..db :
        /\ {r \in hist.revisions \cup c.revisions : r >= low} = low..top
        /\ top - low + 1 <= cap
        /\ top + 1 >= low
  BY NewStretch
<1>2. /\ hist'.ready /\ hist'.cursor = c.next /\ hist'.end = (c.next = 0)
      /\ hist'.capacity = cap
      /\ hist'.revisions = MergeRevisionHistory(hist.revisions, c.revisions,
                               cap, {picked, SelectedSnapshot})
  BY TakesFact
<1>3. /\ db \in Nat /\ cap \in Nat /\ c \in PageRecords /\ hist \in HistRecords(db)
      /\ Cardinality(c.revisions) \in Nat
  BY MergeTypes
<1>4. /\ low \in Nat /\ top \in Nat
      /\ hist.revisions \in SUBSET (1..db) /\ c.revisions \in SUBSET (1..db)
  BY <1>1, <1>3 DEF PageRecords, HistRecords
<1>5. cap >= TimelinePageSize
  BY <1>3, TuiAssumption DEF GrownCapacity, Timeline, TimelineStretch, HistRecords
<1>6. Low' = low
  BY <1>2 DEF Low
<1> HIDE DEF low, cap
<1>7. {r \in hist'.revisions : r >= low} = low..top
  <2> DEFINE S == hist.revisions
             T == c.revisions
  <2>1. Stretch(S \cup T, low, top) /\ top - low + 1 <= cap
    BY <1>1 DEF Stretch
  <2>2. S \in SUBSET (1..db) /\ T \in SUBSET (1..db)
    BY <1>4
  <2>3. hist'.revisions = MergeRevisionHistory(S, T, cap, {picked, SelectedSnapshot})
    BY <1>2
  <2>4. db \in Nat /\ low \in Nat /\ top \in Nat /\ cap \in Nat
    BY <1>3, <1>4
  <2> HIDE DEF S, T
  <2>5. Stretch(MergeRevisionHistory(S, T, cap, {picked, SelectedSnapshot}), low, top)
    BY <2>1, <2>2, <2>4, MergeKeeps
  <2> QED BY <2>3, <2>5 DEF Stretch
<1> QED BY <1>1, <1>2, <1>5, <1>6, <1>7 DEF TimelineStretch

\* When the awaited page is taken or refused, none is awaited any more; one that
\* comes late changes nothing.
LEMMA PageApplied ==
    ASSUME Timeline, NEW c \in pages, pages' = pages \ {c}, UNCHANGED db,
           \/ c.serial = hist.seq /\ hist'.seq = hist.seq
           \/ UNCHANGED hist
    PROVE  PageAwaited'
<1>1. CASE c.serial = hist.seq /\ hist'.seq = hist.seq
  <2>1. \A d \in pages' : d.serial # hist'.seq
    BY <1>1 DEF Timeline, PageAwaited
  <2> QED BY <2>1 DEF Timeline, PageAwaited
<1>2. CASE UNCHANGED hist
  BY <1>2 DEF Timeline, PageAwaited
<1> QED BY <1>1, <1>2

\* The same timeline, with other revisions committed meanwhile.
LEMMA StretchKept ==
    ASSUME Types, TimelineStretch, Later, hist'.ready = hist.ready, hist'.end = hist.end,
           hist'.cursor = hist.cursor, hist'.capacity = hist.capacity,
           hist'.revisions = hist.revisions
    PROVE  TimelineStretch'
<1>1. Low' = Low
  BY DEF Low
<1>2. 0..db \subseteq 0..db'
  BY DEF Later
<1> QED BY <1>1, <1>2 DEF TimelineStretch

\* The message of a page: it continues the stretch or replaces it.
LEMMA HistoryTimeline == ASSUME Types, Timeline, ApplyHistoryLoaded PROVE Timeline'
<1>1. PICK c \in pages :
        /\ c.answer # "none" /\ pages' = pages \ {c}
        /\ \/ UNCHANGED hist
           \/ c.serial = hist.seq /\ hist' = [hist EXCEPT !.loading = FALSE, !.failed = TRUE]
           \/ /\ c.serial = hist.seq /\ ~BadPage(c)
              /\ \E picked \in {0} \cup hist.revisions : Takes(c, picked)
        /\ UNCHANGED <<db, view, load, exec, poll, loads, runs, budget>>
  BY DEF ApplyHistoryLoaded, Takes
<1>2. Later /\ hist \in HistRecords(db) /\ db \in Nat
  BY <1>1 DEF Types, StoreTypes, BudgetRecords, Later, PageTypes
<1>3. CASE UNCHANGED hist
  BY <1>1, <1>2, <1>3, PageApplied, StretchKept DEF Timeline
<1>4. CASE c.serial = hist.seq /\ hist' = [hist EXCEPT !.loading = FALSE, !.failed = TRUE]
  <2>1. /\ hist'.seq = hist.seq /\ hist'.ready = hist.ready
        /\ hist'.end = hist.end /\ hist'.cursor = hist.cursor
        /\ hist'.capacity = hist.capacity /\ hist'.revisions = hist.revisions
    BY <1>2, <1>4, HistFails
  <2> QED BY <1>1, <1>2, <1>4, <2>1, PageApplied, StretchKept DEF Timeline
<1>5. ASSUME c.serial = hist.seq, ~BadPage(c), NEW picked, Takes(c, picked)
      PROVE  Timeline'
  <2>1. c.answer = "ok"
    BY <1>1, <1>5 DEF BadPage, Types, PageTypes, PageRecords, Answers
  <2>2. hist'.seq = hist.seq
    BY <1>5, TakesFact
  <2> QED BY <1>1, <1>5, <2>1, <2>2, TakesStretch, PageApplied DEF Timeline
<1> QED BY <1>1, <1>3, <1>4, <1>5

\* Nothing is listed at first, and nothing is answered.
LEMMA InitTimeline == ASSUME Init PROVE Timeline
<1>1. /\ hist.ready = FALSE /\ hist.revisions = {} /\ hist.capacity = 0 /\ hist.seq = 1
  BY DEF Init
<1>2. \A c \in pages : c.older = FALSE /\ c.cursor = 0 /\ c.answer = "none"
  BY DEF Init
<1>3. \A c, d \in pages : c = d
  BY DEF Init
<1>4. TimelineStretch
  BY <1>1 DEF TimelineStretch
<1>5. PageAwaited
  BY <1>2, <1>3 DEF PageAwaited
<1> QED BY <1>4, <1>5 DEF Timeline

\* Commits alone disturb neither the timeline nor a page under way.
LEMMA TimelineKept ==
    ASSUME Types, Timeline, Later, UNCHANGED <<hist, pages>>
    PROVE  Timeline'
<1>1. 0..db \subseteq 0..db'
  BY DEF Later
<1>2. PageAwaited'
  BY <1>1 DEF Timeline, PageAwaited
<1> QED BY <1>2, StretchKept DEF Timeline

\* A page that is asked for is the only one with its number.  An older one is asked
\* for from the cursor of a timeline that goes on.
LEMMA StartTimeline ==
    ASSUME Types, Timeline, UNCHANGED db, NEW older \in BOOLEAN, StartHistoryPage(older),
           older => hist.ready /\ hist.cursor # 0
    PROVE  Timeline'
<1>1. /\ db \in Nat /\ hist \in HistRecords(db) /\ hist.seq \in Nat
      /\ pages \subseteq PageRecords /\ \A c \in pages : c.serial <= hist.seq
  BY DEF Types, StoreTypes, BudgetRecords, PageTypes, HistRecords
<1> DEFINE new == [serial |-> hist.seq + 1, older |-> older,
                   cursor |-> IF older THEN hist.cursor ELSE 0,
                   revisions |-> {}, next |-> 0, answer |-> "none"]
<1>2. /\ new.serial = hist.seq + 1 /\ new.older = older /\ new.answer = "none"
      /\ new.cursor = IF older THEN hist.cursor ELSE 0
  OBVIOUS
<1>3. /\ pages' = pages \cup {new}
      /\ hist' = [hist EXCEPT !.seq = @ + 1, !.loading = TRUE, !.failed = FALSE]
  BY DEF StartHistoryPage
<1> HIDE DEF new
<1>4. /\ hist'.seq = hist.seq + 1 /\ hist'.ready = hist.ready /\ hist'.end = hist.end
      /\ hist'.cursor = hist.cursor /\ hist'.capacity = hist.capacity
      /\ hist'.revisions = hist.revisions
  BY <1>1, <1>3, HistStarts
<1>5. \A c \in pages : c.serial # hist.seq + 1
  BY <1>1 DEF PageRecords
<1>6. \A c, d \in pages' : c.serial = d.serial => c = d
  BY <1>2, <1>3, <1>5 DEF Timeline, PageAwaited
<1>7. \A c \in pages' : c.serial = hist'.seq => c = new
  BY <1>3, <1>4, <1>5
<1>8. PageAwaited'
  BY <1>2, <1>4, <1>6, <1>7 DEF PageAwaited
<1>9. Later
  BY <1>1 DEF Later
<1> QED BY <1>4, <1>8, <1>9, StretchKept DEF Timeline

\* The fields of a page that is answered.
LEMMA PageAnswered ==
    ASSUME NEW c \in PageRecords, NEW R \in SUBSET (1..db), NEW x \in 0..db
    PROVE  LET d == [c EXCEPT !.answer = "ok", !.revisions = R, !.next = x] IN
           /\ d.serial = c.serial /\ d.older = c.older /\ d.cursor = c.cursor
           /\ d.answer = "ok" /\ d.revisions = R /\ d.next = x
<1> DEFINE f == [c EXCEPT !.answer = "ok"]
           g == [f EXCEPT !.revisions = R]
           h == [g EXCEPT !.next = x]
<1>1. /\ f \in PageRecords /\ f.serial = c.serial /\ f.older = c.older /\ f.cursor = c.cursor
      /\ f.answer = "ok"
  BY PageFails DEF Answers
<1>2. [c EXCEPT !.answer = "ok", !.revisions = R, !.next = x] = h
  OBVIOUS
<1> HIDE DEF f
<1>3. /\ g \in PageRecords /\ g.serial = f.serial /\ g.older = f.older /\ g.cursor = f.cursor
      /\ g.answer = f.answer /\ g.revisions = R
  BY <1>1 DEF PageRecords
<1> HIDE DEF g
<1>4. /\ h.serial = g.serial /\ h.older = g.older /\ h.cursor = g.cursor
      /\ h.answer = g.answer /\ h.revisions = g.revisions /\ h.next = x
  BY <1>3 DEF PageRecords
<1> HIDE DEF h
<1> QED BY <1>1, <1>2, <1>3, <1>4

\* A page is read at the newest revision, and lists nothing that is not in the store.
LEMMA RunHistoryPageTimeline == ASSUME Types, Timeline, RunHistoryPage PROVE Timeline'
<1> DEFINE Page(c) == RevisionPage(db, "descending", c.cursor, TimelinePageSize)
<1>1. PICK c \in pages :
        /\ \/ pages' = (pages \ {c}) \cup
                {[c EXCEPT !.answer = "ok", !.revisions = Page(c).revisions, !.next = Page(c).next]}
           \/ pages' = (pages \ {c}) \cup {[c EXCEPT !.answer = "error"]}
        /\ UNCHANGED <<db, hist>>
  BY DEF RunHistoryPage
<1>2. db \in Nat /\ Later /\ hist.revisions \subseteq 1..db
  BY <1>1 DEF Types, StoreTypes, BudgetRecords, Later, PageTypes, HistRecords
<1>3. c \in PageRecords /\ c.cursor \in Nat /\ c.cursor <= db
  BY <1>2 DEF Types, PageTypes, PageRecords
<1> DEFINE R == Page(c).revisions
           x == Page(c).next
           d == [c EXCEPT !.answer = "ok", !.revisions = R, !.next = x]
           e == [c EXCEPT !.answer = "error"]
<1>4. R \in SUBSET (1..db) /\ x \in 0..db
  BY <1>2, <1>3, PageFact, TuiAssumption
<1>5. pages' = (pages \ {c}) \cup {d} \/ pages' = (pages \ {c}) \cup {e}
  BY <1>1
<1>6. e.serial = c.serial /\ e.older = c.older /\ e.cursor = c.cursor /\ e.answer = "error"
  BY <1>3, PageFails DEF Answers
<1> HIDE DEF R, x
<1>7. /\ d.serial = c.serial /\ d.older = c.older /\ d.cursor = c.cursor
      /\ d.answer = "ok" /\ d.revisions = R /\ d.next = x
  BY <1>3, <1>4, PageAnswered
<1> HIDE DEF d, e
<1>8. PICK f \in {d, e} : pages' = (pages \ {c}) \cup {f}
  BY <1>5
<1>9. f.serial = c.serial /\ f.older = c.older /\ f.cursor = c.cursor
  BY <1>6, <1>7, <1>8
<1>10. \A p, q \in pages' : p.serial = q.serial => p = q
  <2>1. \A p \in pages : p.serial = c.serial => p = c
    BY DEF Timeline, PageAwaited
  <2> QED BY <1>8, <1>9, <2>1 DEF Timeline, PageAwaited
<1>11. f.answer = "ok" =>
          \E n \in 0..db :
              LET page == RevisionPage(n, "descending", f.cursor, TimelinePageSize) IN
              /\ hist.revisions \subseteq 1..n /\ f.cursor <= n
              /\ f.revisions = page.revisions /\ f.next = page.next
  <2>1. SUFFICES ASSUME f.answer = "ok"
        PROVE  LET page == RevisionPage(db, "descending", f.cursor, TimelinePageSize) IN
               /\ hist.revisions \subseteq 1..db /\ f.cursor <= db
               /\ f.revisions = page.revisions /\ f.next = page.next
    BY <1>2
  <2>2. f = d
    BY <1>6, <1>8, <2>1
  <2> QED BY <1>2, <1>3, <1>7, <2>2 DEF R, x
<1>12. ASSUME NEW p \in pages', p.serial = hist.seq
       PROVE  /\ IF p.older THEN hist.ready /\ hist.cursor # 0 /\ p.cursor = hist.cursor
                            ELSE p.cursor = 0
              /\ p.answer = "ok" =>
                    \E n \in 0..db :
                        LET page == RevisionPage(n, "descending", p.cursor, TimelinePageSize) IN
                        /\ hist.revisions \subseteq 1..n /\ p.cursor <= n
                        /\ p.revisions = page.revisions /\ p.next = page.next
  <2>1. CASE p \in pages
    BY <1>12, <2>1 DEF Timeline, PageAwaited
  <2>2. CASE p = f
    <3>1. IF c.older THEN hist.ready /\ hist.cursor # 0 /\ c.cursor = hist.cursor
                     ELSE c.cursor = 0
      BY <1>9, <1>12, <2>2 DEF Timeline, PageAwaited
    <3> QED BY <1>9, <1>11, <2>2, <3>1
  <2> QED BY <1>8, <2>1, <2>2
<1>13. PageAwaited'
  BY <1>1, <1>10, <1>12 DEF PageAwaited
<1> QED BY <1>1, <1>2, <1>13, StretchKept DEF Timeline

\* Every step keeps the timeline part.
LEMMA TimelineStep == ASSUME Types, Timeline, [Next]_vars PROVE Timeline'
<1>1. db \in Nat /\ hist \in HistRecords(db)
  BY DEF Types, StoreTypes, BudgetRecords, PageTypes
<1>2. CASE UNCHANGED <<hist, pages>>
  <2>1. Later
    <3>1. db' = db \/ db' = db + 1
      BY DEF Next, RunLoad, RunHistoryPage, RunExecution, RunPoll, ExternalCommit,
             ApplySnapshotLoaded, ApplyHistoryLoaded, ApplyRevisionChecked,
             ApplyExecutionFinished, OpenForm, CompleteForm, CloseForm,
             ApplyFormSubmitted, RunQuery, Retry, Dismiss, OpenRevision, ReturnLive,
             Refresh, LoadOlder, vars
    <3> QED BY <1>1, <3>1 DEF Later
  <2> QED BY <1>2, <2>1, TimelineKept
<1>3. CASE StartHistoryPage(FALSE) /\ UNCHANGED db
  BY <1>3, StartTimeline
<1>4. CASE LoadOlder
  <2>1. hist.ready /\ ~hist.end /\ StartHistoryPage(TRUE) /\ UNCHANGED db
    BY <1>4 DEF LoadOlder
  <2>2. hist.cursor # 0
    BY <2>1 DEF Timeline, TimelineStretch
  <2> QED BY <2>1, <2>2, StartTimeline
<1>5. \/ UNCHANGED <<hist, pages>> \/ (StartHistoryPage(FALSE) /\ UNCHANGED db)
      \/ LoadOlder \/ RunHistoryPage \/ ApplyHistoryLoaded
  <2>1. ApplyRevisionChecked \/ ApplyExecutionFinished \/ Refresh =>
          UNCHANGED <<hist, pages>> \/ (StartHistoryPage(FALSE) /\ UNCHANGED db)
    BY DEF ApplyRevisionChecked, ApplyExecutionFinished, Refresh
  <2>2. (\/ RunLoad \/ RunExecution \/ RunPoll \/ ExternalCommit \/ ApplySnapshotLoaded
         \/ OpenForm \/ CompleteForm \/ CloseForm \/ ApplyFormSubmitted \/ RunQuery \/ Retry
         \/ Dismiss \/ OpenRevision \/ ReturnLive \/ UNCHANGED vars)
        => UNCHANGED <<hist, pages>>
    BY DEF RunLoad, RunExecution, RunPoll, ExternalCommit, ApplySnapshotLoaded, OpenForm,
           CompleteForm, CloseForm, ApplyFormSubmitted, RunQuery, Retry, Dismiss,
           OpenRevision, ReturnLive, vars
  <2> QED BY <2>1, <2>2 DEF Next
<1> QED BY <1>2, <1>3, <1>4, <1>5, RunHistoryPageTimeline, HistoryTimeline

-----------------------------------------------------------------------------
(* The theorems *)

\* The invariant of the session: types, the awaited load, the open form, the mark
\* on a stale screen, the stretch that the timeline lists and the awaited page.
THEOREM SessionInvariance == Spec => []UInv
<1>1. Init => UInv
  <2>1. Init => FormAwaited /\ RunAwaited
    BY DEF Init, FormAwaited, RunAwaited
  <2> QED BY <2>1, InitTypes, InitScreen, InitTimeline DEF UInv, Screen, Timeline
<1>2. UInv /\ [Next]_vars => UInv'
  BY TypesStep, FormStep, RunStep, ScreenStep, TimelineStep DEF UInv, Screen, Timeline
<1> QED BY <1>1, <1>2, PTL DEF Spec

\* No revision that the interface names on screen, in a cursor, in its timeline or
\* in an answer under way is one that the store has not sealed.
THEOREM SessionTypes == Spec => []TypeOK
<1>1. UInv => TypeOK
  BY DEF UInv, Types, StoreTypes, ViewTypes, LoadTypes, PageTypes, RunTypes, HistRecords,
         LoadRecords, PageRecords, RunRecords, FormAwaited, TypeOK
<1> QED BY <1>1, SessionInvariance, PTL

\* A live screen at rest that does not show the revision it names as live carries
\* the error of a failed load (applySnapshotLoaded, applyRevisionChecked).
THEOREM StaleMarked == Spec => []StaleIsMarked
<1>1. UInv => StaleIsMarked
  BY DEF UInv
<1> QED BY <1>1, SessionInvariance, PTL

\* From its cursor up to its newest row the timeline has no hole, however refreshes,
\* older pages and trimming alternate (applyHistoryLoaded, mergeRevisionHistory).
THEOREM TimelineWhole == Spec => []TimelineHasNoHole
<1>1. UInv => TimelineHasNoHole
  <2> SUFFICES ASSUME UInv, hist.ready, NEW top \in hist.revisions, NEW r \in 1..top,
                      r >= hist.cursor
               PROVE  r \in hist.revisions
    BY DEF TimelineHasNoHole
  <2>1. db \in Nat /\ hist.revisions \subseteq 1..db /\ hist.cursor \in Nat
    BY DEF UInv, Types, StoreTypes, BudgetRecords, PageTypes, HistRecords
  <2>2. PICK last \in 0..db : {x \in hist.revisions : x >= Low} = Low..last
    BY DEF UInv, TimelineStretch
  <2>3. Low \in Nat /\ r >= Low /\ r <= top /\ top \in Nat /\ r \in Nat
    BY <2>1 DEF Low
  <2>4. top >= Low
    BY <2>3
  <2>5. top \in Low..last
    BY <2>2, <2>4
  <2>6. r \in Low..last
    BY <2>1, <2>2, <2>3, <2>5
  <2> QED BY <2>2, <2>6
<1> QED BY <1>1, SessionInvariance, PTL

\* A screen that stays live never goes back to an earlier revision, in whatever
\* order the answers of successive loads arrive (the serial in applySnapshotLoaded).
THEOREM LiveNeverRegresses == Spec => LiveViewNeverRegresses
<1>1. ASSUME UInv, [Next]_vars, view.snapshot = Live, view'.snapshot = Live
      PROVE  view'.loaded >= view.loaded
  <2>0. view.loaded \in Nat /\ view \in [snapshot : Snapshots, loaded : 0..db, live : 0..db]
    BY <1>1 DEF UInv, Types, StoreTypes, BudgetRecords, ViewTypes
  <2>1. CASE view'.loaded = view.loaded
    BY <2>0, <2>1
  <2>2. CASE ApplySnapshotLoaded
    <3>1. PICK c \in loads :
            \/ UNCHANGED view
            \/ /\ c.serial = load.seq /\ c.answer = "ok"
               /\ view' = [snapshot |-> c.target, loaded |-> c.revision,
                           live |-> IF c.target = Live THEN c.revision ELSE view.live]
      BY <2>2 DEF ApplySnapshotLoaded, LoadIsCurrent
    <3>2. CASE UNCHANGED view
      BY <2>0, <3>2
    <3>3. CASE /\ c.serial = load.seq /\ c.answer = "ok"
               /\ view' = [snapshot |-> c.target, loaded |-> c.revision,
                           live |-> IF c.target = Live THEN c.revision ELSE view.live]
      <4>1. c.target = Live /\ view'.loaded = c.revision
        BY <1>1, <3>3
      <4>2. c.revision >= view.loaded
        BY <1>1, <3>3, <4>1 DEF UInv, LoadAwaited
      <4> QED BY <4>1, <4>2
    <3> QED BY <3>1, <3>2, <3>3
  <2>3. view'.loaded = view.loaded \/ ApplySnapshotLoaded
    <3>1. \/ UNCHANGED view \/ ApplySnapshotLoaded
          \/ \E r : view' = [view EXCEPT !.live = r]
      BY <1>1 DEF Next, RunLoad, RunHistoryPage, RunExecution, RunPoll, ExternalCommit,
             ApplyHistoryLoaded, ApplyRevisionChecked, ApplyExecutionFinished, OpenForm,
             CompleteForm, CloseForm, ApplyFormSubmitted, RunQuery, Retry, Dismiss,
             OpenRevision, ReturnLive, Refresh, LoadOlder, vars
    <3> QED BY <2>0, <3>1
  <2> QED BY <2>1, <2>2, <2>3
<1>2. UInv /\ [Next]_vars =>
        [view.snapshot = Live /\ view'.snapshot = Live => view'.loaded >= view.loaded]_vars
  BY <1>1
<1> QED BY <1>2, SessionInvariance, PTL DEF Spec, LiveViewNeverRegresses

\* What is selected changes only by the user's choice, by a change of his own that has
\* finished, and when the load that he waits for fails; polls, refreshes and late
\* answers leave it alone (selectedSnapshot, applyRevisionChecked, applySnapshotLoaded).
THEOREM SelectionSurvives == Spec => SelectionIsTheUsers
<1> DEFINE Shown == IF load.loading THEN load.target ELSE view.snapshot
           Allowed == \/ OpenRevision \/ ReturnLive
                      \/ exec.executing /\ ~exec'.executing /\ load'.target = Live
                      \/ load.loading /\ load'.failed /\ view' = view
<1>1. ASSUME UInv, [Next]_vars, Shown' # Shown PROVE Allowed
  <2>1. CASE UNCHANGED load /\ view'.snapshot = view.snapshot
    BY <1>1, <2>1
  <2>2. CASE StartSnapshotLoad(SelectedSnapshot)
    BY <1>1, <2>2 DEF StartSnapshotLoad, SelectedSnapshot
  <2>3. CASE ApplySnapshotLoaded
    <3>1. PICK c \in loads :
            \/ UNCHANGED <<view, load>>
            \/ /\ c.serial = load.seq
               /\ load' = [load EXCEPT !.loading = FALSE, !.failed = TRUE] /\ UNCHANGED view
            \/ /\ c.serial = load.seq
               /\ load' = [load EXCEPT !.loading = FALSE, !.failed = FALSE]
               /\ view'.snapshot = c.target
      BY <2>3 DEF ApplySnapshotLoaded, LoadIsCurrent, LoadFailed
    <3>2. c.serial = load.seq => load.loading /\ c.target = load.target
      BY <1>1, <3>1 DEF UInv, LoadAwaited
    <3>3. load \in [seq : Nat, loading : BOOLEAN, target : Snapshots, failed : BOOLEAN]
      BY <1>1 DEF UInv, Types, LoadTypes
    <3> QED BY <1>1, <2>1, <3>1, <3>2, <3>3
  <2>4. CASE ApplyRevisionChecked
    <3>1. view.snapshot = view'.snapshot
      BY <1>1, <2>4 DEF ApplyRevisionChecked, UInv, Types, ViewTypes
    <3>2. UNCHANGED load \/ StartSnapshotLoad(SelectedSnapshot)
      BY <2>4 DEF ApplyRevisionChecked
    <3> QED BY <2>1, <2>2, <3>1, <3>2
  <2>5. CASE ApplyExecutionFinished
    <3>1. PICK c \in runs :
            \/ UNCHANGED <<view, load>>
            \/ /\ c.serial = exec.seq
               /\ exec' = [exec EXCEPT !.executing = FALSE, !.pending = None,
                                       !.overlay = "none"]
               /\ StartSnapshotLoad(Live)
      BY <2>5 DEF ApplyExecutionFinished
    <3>2. c.serial = exec.seq => exec.executing
      BY <1>1, <3>1 DEF UInv, RunAwaited
    <3>3. CASE UNCHANGED <<view, load>>
      BY <2>1, <3>3
    <3>4. CASE /\ c.serial = exec.seq
               /\ exec' = [exec EXCEPT !.executing = FALSE, !.pending = None,
                                       !.overlay = "none"]
               /\ StartSnapshotLoad(Live)
      <4>1. exec.executing /\ ~exec'.executing
        BY <1>1, <3>2, <3>4 DEF UInv, Types, RunTypes
      <4>2. load'.target = Live
        BY <3>4 DEF StartSnapshotLoad
      <4> QED BY <4>1, <4>2
    <3> QED BY <3>1, <3>3, <3>4
  <2>6. \/ OpenRevision \/ ReturnLive \/ StartSnapshotLoad(SelectedSnapshot)
        \/ ApplySnapshotLoaded \/ ApplyRevisionChecked \/ ApplyExecutionFinished
        \/ UNCHANGED <<load, view>>
    BY <1>1 DEF Next, RunLoad, RunHistoryPage, RunExecution, RunPoll, ExternalCommit,
           ApplyHistoryLoaded, OpenForm, CompleteForm, CloseForm, ApplyFormSubmitted,
           RunQuery, Retry, Dismiss, Refresh, LoadOlder, vars
  <2> QED BY <2>1, <2>2, <2>3, <2>4, <2>5, <2>6
<1>2. UInv /\ [Next]_vars =>
        [(IF load'.loading THEN load'.target ELSE view'.snapshot)
           # (IF load.loading THEN load.target ELSE view.snapshot) =>
           \/ OpenRevision \/ ReturnLive
           \/ exec.executing /\ ~exec'.executing /\ load'.target = Live
           \/ load.loading /\ load'.failed /\ view' = view]_vars
  BY <1>1
<1> QED BY <1>2, SessionInvariance, PTL DEF Spec, SelectionIsTheUsers

\* A form is open on a live screen only, although loads, polls and executions are
\* applied while it is (openCreateForm and the other forms, requireLive).
THEOREM OpenFormsLive == Spec => []OpenFormIsLive
<1>1. UInv => OpenFormIsLive
  BY DEF UInv, FormIsLive, Historical, OpenFormIsLive
<1> QED BY <1>1, SessionInvariance, PTL

\* A form runs only when it was completed: the late message of an earlier form does
\* not submit it (submitForm).
THEOREM FormsRunCompleted == Spec => OnlyCompletedFormsRun
<1>1. ASSUME UInv, [Next]_vars, form.state # "none", form'.state = "none",
             exec'.seq # exec.seq
      PROVE  form.state = "completed"
  <2>1. form.state \in {"none", "normal", "completed"}
        /\ (form.seq \in submits => form.state # "normal")
    BY <1>1 DEF UInv, FormAwaited
  <2>2. CASE ApplyFormSubmitted
    <3>1. PICK s \in submits : s = form.seq \/ UNCHANGED form
      BY <2>2 DEF ApplyFormSubmitted, SubmitIsCurrent
    <3> QED BY <1>1, <2>1, <3>1
  <2>3. CASE CloseForm
    BY <1>1, <2>3 DEF CloseForm, UInv, Types, RunTypes
  <2>4. CASE OpenForm \/ CompleteForm
    BY <1>1, <2>4 DEF OpenForm, CompleteForm, UInv, FormAwaited
  <2>5. OpenForm \/ CompleteForm \/ CloseForm \/ ApplyFormSubmitted \/ UNCHANGED form
    BY <1>1 DEF Next, RunLoad, RunHistoryPage, RunExecution, RunPoll, ExternalCommit,
         ApplySnapshotLoaded, ApplyHistoryLoaded, ApplyRevisionChecked,
         ApplyExecutionFinished, RunQuery, Retry, Dismiss, OpenRevision, ReturnLive, Refresh,
         LoadOlder, vars, forms
  <2> QED BY <1>1, <2>2, <2>3, <2>4, <2>5
<1>2. UInv /\ [Next]_vars =>
        [form.state # "none" /\ form'.state = "none" /\ exec'.seq # exec.seq =>
            form.state = "completed"]_vars
  BY <1>1
<1> QED BY <1>2, SessionInvariance, PTL DEF Spec, OnlyCompletedFormsRun
=============================================================================
