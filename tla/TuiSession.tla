----------------------------- MODULE TuiSession -----------------------------
(***************************************************************************)
(* The root model of the terminal interface: one event loop (Update) that  *)
(* starts asynchronous commands and applies their answers.                 *)
(*                                                                         *)
(* Four kinds of command run beside the loop: loading a graph snapshot,    *)
(* loading a page of the timeline, executing a request, and polling the    *)
(* current revision.  The first three are numbered; starting one cancels   *)
(* its predecessor, whose answer may still arrive, in any order.  Other    *)
(* processes commit at any time.                                           *)
(*                                                                         *)
(* A snapshot is Live (an empty selector) or a revision number.  A graph   *)
(* is known by the revision it was read at.  Pickers, help, workspaces and *)
(* focus are left out: they decide which key reaches which action, and the *)
(* user here takes any action that some workspace offers.  Write-capable   *)
(* console requests behave as mutations.                                   *)
(*                                                                         *)
(* A form answers its last key by a message of its own.  Until the message *)
(* is handled the form is still held, whatever the overlay shows by then.  *)
(***************************************************************************)
EXTENDS RevisionPages

CONSTANTS Live,
          None,
          Budgets,           \* bounds: what may happen in a session, see Init
          TimelinePageSize

BudgetRecords ==
    [allowed : SUBSET {"form", "query", "retry", "open", "live", "refresh", "older"},
     actions : Nat, failures : Nat, revisions : Nat, loads : Nat, pages : Nat]

ASSUME TuiAssumption ==
    /\ Live \notin Int
    /\ Budgets \subseteq BudgetRecords
    /\ TimelinePageSize \in Nat \ {0}

VARIABLES db,      \* the newest sealed revision of the store
          view,    \* what is on screen
          load,    \* the last snapshot load: number, whether it runs, target, graphErr
          hist,    \* the timeline
          exec,    \* executions: number of the last one, the operation kept, the overlay
          form,    \* the form held: number of the last one, and its state or "none"
          poll,    \* the poller
          loads, pages, runs,  \* commands under way, or answered but not yet applied
          submits, \* numbers of completed forms whose submit message is not yet handled
          budget   \* what may still happen: user actions and failures left, which user
                   \* actions, and how many revisions, graph loads and timeline loads

forms == <<form, submits>>

vars == <<db, view, load, hist, exec, forms, poll, loads, pages, runs, budget>>

-----------------------------------------------------------------------------
(* Starting a command.                                                     *)

StartSnapshotLoad(target) ==
    /\ load' = [seq |-> load.seq + 1, loading |-> TRUE, target |-> target, failed |-> FALSE]
    /\ loads' = loads \cup {[serial |-> load.seq + 1, target |-> target,
                             revision |-> 0, answer |-> "none"]}

StartHistoryPage(older) ==
    /\ hist' = [hist EXCEPT !.seq = @ + 1, !.loading = TRUE, !.failed = FALSE]
    /\ pages' = pages \cup {[serial |-> hist.seq + 1, older |-> older,
                             cursor |-> IF older THEN hist.cursor ELSE 0,
                             revisions |-> {}, next |-> 0, answer |-> "none"]}

\* Its callers have closed whatever overlay was open.
StartExecution(op) ==
    /\ exec' = [seq |-> exec.seq + 1, executing |-> TRUE, pending |-> op, overlay |-> "none"]
    /\ runs' = runs \cup {[serial |-> exec.seq + 1, op |-> op, revision |-> 0, answer |-> "none"]}

\* Mutated: a load that is still under way does not count.
HistoricalOnScreen == view.snapshot # Live

Historical == view.snapshot # Live \/ (load.loading /\ load.target # Live)

\* Mutated: the snapshot on screen, not the one asked for.
SelectedSnapshotOnScreen == view.snapshot

SelectedSnapshot == IF load.loading THEN load.target ELSE view.snapshot

-----------------------------------------------------------------------------
(* The commands, as they run outside the loop.                             *)

MayFail == budget.failures > 0

Fail == budget' = [budget EXCEPT !.failures = @ - 1]

\* loadSnapshot: a live load is pinned to the revision it finds current.
RunLoad ==
    \E c \in loads :
        /\ c.answer = "none" /\ c.serial <= budget.loads
        /\ \/ /\ loads' = (loads \ {c}) \cup
                   {[c EXCEPT !.answer = "ok", !.revision = IF c.target = Live THEN db ELSE c.target]}
              /\ UNCHANGED budget
           \/ /\ MayFail /\ Fail
              /\ loads' = (loads \ {c}) \cup {[c EXCEPT !.answer = "error"]}
        /\ UNCHANGED <<db, view, load, hist, exec, poll, pages, runs, forms>>

RunHistoryPage ==
    \E c \in pages :
        /\ c.answer = "none" /\ c.serial <= budget.pages
        /\ \/ LET page == RevisionPage(db, "descending", c.cursor, TimelinePageSize) IN
              /\ pages' = (pages \ {c}) \cup
                   {[c EXCEPT !.answer = "ok", !.revisions = page.revisions, !.next = page.next]}
              /\ UNCHANGED budget
           \/ /\ MayFail /\ Fail
              /\ pages' = (pages \ {c}) \cup {[c EXCEPT !.answer = "error"]}
        /\ UNCHANGED <<db, view, load, hist, exec, poll, loads, runs, forms>>

\* A mutation commits, changes nothing, or finds its entity gone; a command
\* whose context was cancelled may stop, or may already be past that.
RunExecution ==
    \E c \in runs :
        /\ c.answer = "none"
        /\ \/ /\ c.op.kind = "mutation"
              /\ db < budget.revisions
              /\ db' = db + 1
              /\ runs' = (runs \ {c}) \cup {[c EXCEPT !.answer = "changed", !.revision = db + 1]}
              /\ UNCHANGED budget
           \/ /\ runs' = (runs \ {c}) \cup {[c EXCEPT !.answer = "unchanged"]}
              /\ UNCHANGED <<db, budget>>
           \/ /\ c.op.kind = "mutation"
              /\ runs' = (runs \ {c}) \cup {[c EXCEPT !.answer = "nomatch"]}
              /\ UNCHANGED <<db, budget>>
           \/ /\ c.serial # exec.seq
              /\ runs' = (runs \ {c}) \cup {[c EXCEPT !.answer = "cancelled"]}
              /\ UNCHANGED <<db, budget>>
           \/ /\ MayFail /\ Fail
              /\ runs' = (runs \ {c}) \cup {[c EXCEPT !.answer = "error"]}
              /\ UNCHANGED db
        /\ UNCHANGED <<view, load, hist, exec, poll, loads, pages, forms>>

\* The two-second tick, and CurrentRevision, which it asks for at once.
RunPoll ==
    /\ poll.phase = "waiting"
    /\ \/ /\ poll' = [phase |-> "answered", revision |-> db, failed |-> FALSE]
          /\ UNCHANGED budget
       \/ /\ MayFail /\ Fail
          /\ poll' = [phase |-> "answered", revision |-> 0, failed |-> TRUE]
    /\ UNCHANGED <<db, view, load, hist, exec, loads, pages, runs, forms>>

ExternalCommit ==
    /\ db < budget.revisions
    /\ db' = db + 1
    /\ UNCHANGED <<view, load, hist, exec, poll, loads, pages, runs, budget, forms>>

-----------------------------------------------------------------------------
(* The loop applies an answer.                                             *)

\* Mutated: every answer is taken, whichever load it is from.
LoadIsCurrentAlways(c) == TRUE

LoadIsCurrent(c) == c.serial = load.seq

\* Mutated: the error is dropped.
LoadFailedSilently == [load EXCEPT !.loading = FALSE]

LoadFailed == [load EXCEPT !.loading = FALSE, !.failed = TRUE]

ApplySnapshotLoaded ==
    \E c \in loads :
        /\ c.answer # "none"
        /\ loads' = loads \ {c}
        /\ \/ /\ ~LoadIsCurrent(c)
              /\ UNCHANGED <<view, load>>
           \/ /\ LoadIsCurrent(c) /\ c.answer = "error"
              /\ load' = LoadFailed
              /\ UNCHANGED view
           \/ /\ LoadIsCurrent(c) /\ c.answer = "ok"
              /\ load' = [load EXCEPT !.loading = FALSE, !.failed = FALSE]
              /\ view' = [snapshot |-> c.target, loaded |-> c.revision,
                          live |-> IF c.target = Live THEN c.revision ELSE view.live]
        /\ UNCHANGED <<db, hist, exec, poll, pages, runs, budget, forms>>

\* The newest `capacity` revisions of both, and the protected ones besides.
MergeRevisionHistory(current, incoming, capacity, protected) ==
    LET merged == current \cup incoming
    IN Take(merged, "descending", capacity) \cup (merged \cap protected)

\* Mutated: the capacity stays at one page.
GrownCapacityFixed(c) == IF hist.capacity = 0 THEN TimelinePageSize ELSE hist.capacity

\* historyCapacity: a page at first, and more by each older page asked for.
GrownCapacity(c) ==
    (IF hist.capacity = 0 THEN TimelinePageSize ELSE hist.capacity)
        + (IF c.older THEN Cardinality(c.revisions) ELSE 0)

\* An answer that the timeline does not take: an error, a cursor that does not
\* advance, or a page that is too long or empty with more to come.
BadPage(c) ==
    \/ c.answer = "error"
    \/ c.older /\ c.next # 0 /\ c.next = hist.cursor
    \/ Cardinality(c.revisions) > TimelinePageSize
    \/ c.next # 0 /\ c.revisions = {}

\* `picked` is the highlighted row, which may be any that is listed; row 0 is
\* the initial empty graph or no row at all.
ApplyHistoryLoaded ==
    \E c \in pages :
        /\ c.answer # "none"
        /\ pages' = pages \ {c}
        /\ \/ /\ c.serial # hist.seq
              /\ UNCHANGED hist
           \/ /\ c.serial = hist.seq /\ BadPage(c)
              /\ hist' = [hist EXCEPT !.loading = FALSE, !.failed = TRUE]
           \/ /\ c.serial = hist.seq /\ ~BadPage(c)
              /\ \E picked \in {0} \cup hist.revisions :
                    hist' = [hist EXCEPT
                        !.loading = FALSE, !.failed = FALSE, !.ready = TRUE,
                        !.cursor = c.next, !.end = (c.next = 0),
                        !.capacity = GrownCapacity(c),
                        !.revisions = MergeRevisionHistory(hist.revisions, c.revisions,
                                          GrownCapacity(c), {picked, SelectedSnapshot})]
        /\ UNCHANGED <<db, view, load, exec, poll, loads, runs, budget, forms>>

\* Mutated: the comparison is the wrong way round.
RevisionMovedBack == poll.revision < view.live

RevisionMoved == poll.revision # view.live

\* pollDelayCmd comes first, whatever the answer was.
ApplyRevisionChecked ==
    /\ poll.phase = "answered"
    /\ poll' = [phase |-> "waiting", revision |-> 0, failed |-> FALSE]
    /\ \/ /\ poll.failed \/ ~RevisionMoved
          /\ UNCHANGED <<view, load, hist, loads, pages>>
       \/ /\ ~poll.failed /\ RevisionMoved
          /\ view' = [view EXCEPT !.live = poll.revision]
          /\ StartHistoryPage(FALSE)
          /\ IF SelectedSnapshot = Live
             THEN StartSnapshotLoad(Live)
             ELSE UNCHANGED <<load, loads>>
    /\ UNCHANGED <<db, exec, runs, budget, forms>>

\* A mutation that failed or matched nothing is kept for retry; a failed query
\* is only shown; a change reloads the live graph and the timeline.
ApplyExecutionFinished ==
    \E c \in runs :
        /\ c.answer # "none"
        /\ runs' = runs \ {c}
        /\ \/ /\ c.serial # exec.seq
              /\ UNCHANGED <<view, load, hist, exec, loads, pages>>
           \/ /\ c.serial = exec.seq
              /\ c.op.kind = "mutation" /\ c.answer \in {"error", "nomatch"}
              /\ exec' = [exec EXCEPT !.executing = FALSE, !.pending = c.op, !.overlay = "error"]
              /\ UNCHANGED <<view, load, hist, loads, pages>>
           \/ /\ c.serial = exec.seq
              /\ c.answer = "unchanged" \/ (c.op.kind = "query" /\ c.answer = "error")
              /\ exec' = [exec EXCEPT !.executing = FALSE, !.pending = None, !.overlay = "none"]
              /\ UNCHANGED <<view, load, hist, loads, pages>>
           \/ /\ c.serial = exec.seq
              /\ c.answer = "changed"
              /\ exec' = [exec EXCEPT !.executing = FALSE, !.pending = None, !.overlay = "none"]
              /\ view' = [view EXCEPT !.live = c.revision]
              /\ StartSnapshotLoad(Live)
              /\ StartHistoryPage(FALSE)
        /\ UNCHANGED <<db, poll, budget, forms>>

-----------------------------------------------------------------------------
(* The user.                                                               *)

Acts(name) ==
    /\ name \in budget.allowed /\ budget.actions > 0
    /\ budget' = [budget EXCEPT !.actions = @ - 1]

\* Any of the guided forms, or the confirmation of a write-capable request.
OpenForm ==
    /\ Acts("form")
    /\ exec.overlay = "none"
    /\ ~Historical
    /\ form' = [seq |-> form.seq + 1, state |-> "normal"]
    /\ exec' = [exec EXCEPT !.overlay = "form"]
    /\ UNCHANGED <<db, view, load, hist, poll, loads, pages, runs, submits>>

\* The last field is left; from then on the form takes no key but escape.
CompleteForm ==
    /\ exec.overlay = "form" /\ form.state = "normal"
    /\ form' = [form EXCEPT !.state = "completed"]
    /\ submits' = submits \cup {form.seq}
    /\ UNCHANGED <<db, view, load, hist, exec, poll, loads, pages, runs, budget>>

CloseForm ==
    /\ exec.overlay = "form"
    /\ exec' = [exec EXCEPT !.overlay = "none"]
    /\ form' = [form EXCEPT !.state = "none"]
    /\ UNCHANGED <<db, view, load, hist, poll, loads, pages, runs, submits, budget>>

\* Mutated: the number in the message is not looked at.
SubmitIsCurrentAlways(s) == form.state # "none"

SubmitIsCurrent(s) == form.state # "none" /\ s = form.seq

\* The message of a form that is held runs it, finds that it was declined, or
\* gives it back for correction.  Nothing here asks for the overlay or for Live.
ApplyFormSubmitted ==
    \E s \in submits :
        /\ submits' = submits \ {s}
        /\ \/ /\ ~SubmitIsCurrent(s)
              /\ UNCHANGED <<exec, form, runs>>
           \/ /\ SubmitIsCurrent(s)
              /\ form' = [form EXCEPT !.state = "none"]
              /\ StartExecution([id |-> exec.seq + 1, kind |-> "mutation"])
           \/ /\ SubmitIsCurrent(s)
              /\ form' = [form EXCEPT !.state = "none"]
              /\ exec' = [exec EXCEPT !.overlay = "none"]
              /\ UNCHANGED runs
           \/ /\ SubmitIsCurrent(s)
              /\ form' = [form EXCEPT !.state = "normal"]
              /\ UNCHANGED <<exec, runs>>
        /\ UNCHANGED <<db, view, load, hist, poll, loads, pages, budget>>

\* Nothing keeps a read-only query from being run while a mutation executes.
RunQuery ==
    /\ Acts("query")
    /\ exec.overlay = "none"
    /\ StartExecution([id |-> exec.seq + 1, kind |-> "query"])
    /\ UNCHANGED <<db, view, load, hist, poll, loads, pages, forms>>

\* "r" in the error overlay, and escape from it.
Retry ==
    /\ Acts("retry")
    /\ exec.overlay = "error"
    /\ StartExecution(exec.pending)
    /\ UNCHANGED <<db, view, load, hist, poll, loads, pages, forms>>

Dismiss ==
    /\ exec.overlay = "error"
    /\ exec' = [exec EXCEPT !.overlay = "none", !.pending = None]
    /\ UNCHANGED <<db, view, load, hist, poll, loads, pages, runs, budget, forms>>

Listed == hist.revisions \cup (IF hist.end \/ SelectedSnapshot = 0 THEN {0} ELSE {})

OpenRevision ==
    /\ Acts("open")
    /\ exec.overlay = "none"
    /\ \E r \in Listed : StartSnapshotLoad(r)
    /\ UNCHANGED <<db, view, hist, exec, poll, pages, runs, forms>>

ReturnLive ==
    /\ Acts("live")
    /\ Historical
    /\ StartSnapshotLoad(Live)
    /\ UNCHANGED <<db, view, hist, exec, poll, pages, runs, forms>>

Refresh ==
    /\ Acts("refresh")
    /\ StartSnapshotLoad(SelectedSnapshot)
    /\ StartHistoryPage(FALSE)
    /\ UNCHANGED <<db, view, exec, poll, runs, forms>>

LoadOlder ==
    /\ Acts("older")
    /\ exec.overlay = "none"
    /\ hist.ready /\ ~hist.loading /\ ~hist.end
    /\ StartHistoryPage(TRUE)
    /\ UNCHANGED <<db, view, load, exec, poll, loads, runs, forms>>

-----------------------------------------------------------------------------
\* Model.Init starts a live load, a timeline load and the poller.
Init ==
    /\ budget \in Budgets
    /\ db \in 0..budget.revisions
    /\ view = [snapshot |-> Live, loaded |-> 0, live |-> 0]
    /\ load = [seq |-> 1, loading |-> TRUE, target |-> Live, failed |-> FALSE]
    /\ loads = {[serial |-> 1, target |-> Live, revision |-> 0, answer |-> "none"]}
    /\ hist = [seq |-> 1, loading |-> TRUE, failed |-> FALSE, ready |-> FALSE, end |-> FALSE,
               cursor |-> 0, capacity |-> 0, revisions |-> {}]
    /\ pages = {[serial |-> 1, older |-> FALSE, cursor |-> 0, revisions |-> {}, next |-> 0,
                 answer |-> "none"]}
    /\ exec = [seq |-> 0, executing |-> FALSE, pending |-> None, overlay |-> "none"]
    /\ form = [seq |-> 0, state |-> "none"]
    /\ submits = {}
    /\ runs = {}
    /\ poll = [phase |-> "waiting", revision |-> 0, failed |-> FALSE]

Next ==
    \/ RunLoad \/ RunHistoryPage \/ RunExecution \/ RunPoll \/ ExternalCommit
    \/ ApplySnapshotLoaded \/ ApplyHistoryLoaded \/ ApplyRevisionChecked
    \/ ApplyExecutionFinished
    \/ OpenForm \/ CompleteForm \/ CloseForm \/ ApplyFormSubmitted \/ RunQuery \/ Retry \/ Dismiss
    \/ OpenRevision \/ ReturnLive \/ Refresh \/ LoadOlder

Spec == Init /\ [][Next]_vars

\* Commands run and return, their messages are handled, and the timer ticks.
\* Nothing is assumed of the user or of other processes.
FairSpec ==
    /\ Spec
    /\ WF_vars(RunLoad) /\ WF_vars(ApplySnapshotLoaded)
    /\ WF_vars(RunPoll) /\ WF_vars(ApplyRevisionChecked)

-----------------------------------------------------------------------------
(* Properties.                                                             *)

Snapshots == {Live} \cup 0..db

Operations == [id : Nat, kind : {"query", "mutation"}]

\* Types of the variables; no revision on screen or in a cursor is unsealed.
TypeOK ==
    /\ db \in 0..budget.revisions
    /\ view \in [snapshot : Snapshots, loaded : 0..db, live : 0..db]
    /\ load \in [seq : Nat, loading : BOOLEAN, target : Snapshots, failed : BOOLEAN]
    /\ hist \in [seq : Nat, loading : BOOLEAN, failed : BOOLEAN, ready : BOOLEAN,
                 end : BOOLEAN, cursor : 0..db, capacity : Nat, revisions : SUBSET (1..db)]
    /\ exec \in [seq : Nat, executing : BOOLEAN, pending : Operations \cup {None},
                 overlay : {"none", "form", "error"}]
    /\ form \in [seq : Nat, state : {"none", "normal", "completed"}]
    /\ submits \subseteq 1..form.seq
    /\ poll \in [phase : {"waiting", "answered"}, revision : 0..db, failed : BOOLEAN]
    /\ \A c \in loads : c.serial <= load.seq /\ c.target \in Snapshots /\ c.revision \in 0..db
    /\ \A c \in pages : c.serial <= hist.seq /\ c.revisions \subseteq 1..db
    /\ \A c \in runs : c.serial <= exec.seq /\ c.op \in Operations

\* "Stale snapshot ... results cannot replace newer state": while the screen
\* stays live, the graph shown never goes back to an earlier revision, in
\* whatever order answers arrive (the serial check of applySnapshotLoaded).
LiveViewNeverRegresses ==
    [][view.snapshot = Live /\ view'.snapshot = Live => view'.loaded >= view.loaded]_vars

\* "A failed refresh keeps the last good view and marks it as stale": a live
\* screen at rest that does not show the revision it names as live says so.
StaleIsMarked ==
    view.snapshot = Live /\ ~load.loading /\ view.loaded # view.live => load.failed

\* What the user looks at, or is waiting for, is his choice: it only changes when
\* he opens a revision or returns to Live, when a change of his own has finished
\* (which goes Live), and when the load he waits for fails (which stays where he
\* was).  The poller, a refresh and answers to superseded loads never change it.
SelectionIsTheUsers ==
    [][(IF load'.loading THEN load'.target ELSE view'.snapshot)
          # (IF load.loading THEN load.target ELSE view.snapshot) =>
          \/ OpenRevision \/ ReturnLive
          \/ exec.executing /\ ~exec'.executing /\ load'.target = Live
          \/ load.loading /\ load'.failed /\ view' = view]_vars

\* The timeline lists every revision from its continuation cursor up to its
\* newest row, and every revision when it says that the beginning is reached,
\* although refreshes, older pages and trimming to the capacity alternate.
TimelineHasNoHole ==
    hist.ready =>
        \A top \in hist.revisions : \A r \in 1..top : r >= hist.cursor => r \in hist.revisions

\* While a form is open for input the selection is Live, whatever is applied behind
\* it: a form is refused on a historical screen and while one is still loading
\* (requireLive), and no revision is opened beneath it.
OpenFormIsLive ==
    exec.overlay = "form" => view.snapshot = Live /\ ~(load.loading /\ load.target # Live)

\* A form runs only after its own last key: the late message of a form that was
\* left does not submit the one opened since (the serial check of submitForm).
OnlyCompletedFormsRun ==
    [][form.state # "none" /\ form'.state = "none" /\ exec'.seq # exec.seq =>
          form.state = "completed"]_vars

\* Whatever is committed shows up on a screen that stays live, unless a failed
\* load is reported on it (or the bound on loads is used up).
CatchesUp ==
    \A r \in UNION {1..b.revisions : b \in {b \in Budgets : b.loads > 0}} :
        (db >= r) ~> \/ view.loaded >= r \/ Historical \/ load.failed
                     \/ load.seq > budget.loads

\* "Opening a Timeline entry switches the entire interface to an exact,
\* read-only snapshot ...; mutation actions are disabled": no mutation starts
\* on a historical screen.
MutationsOnlyWhenLive ==
    [][exec'.seq # exec.seq /\ exec'.pending.kind = "mutation" => ~Historical]_vars
=============================================================================
