----------------------------- MODULE HistoryWalk ----------------------------
(***************************************************************************)
(* A client that walks the revision history page by page (sheets history,  *)
(* sheets.revisions) while other processes commit.  The client may turn    *)
(* round with the cursor it holds, and may resume an ascending walk with a *)
(* cursor in the format of older releases, which names a boundary only.    *)
(***************************************************************************)
EXTENDS RevisionPages

CONSTANTS MaxRevision,  \* bound: number of commits
          Limits        \* page limits clients ask for

VARIABLES sealed,  \* number of committed revisions
          walk     \* the client: what it asks for next and what it has read

vars == <<sealed, walk>>

NoWalk == [pc |-> "idle", order |-> "ascending", cursor |-> Start("ascending"),
           got |-> {}, served |-> 0, from |-> 0]

Init == sealed = 0 /\ walk = NoWalk

Commit ==
    /\ sealed < MaxRevision
    /\ sealed' = sealed + 1
    /\ UNCHANGED walk

Begin ==
    \E order \in Orders :
        /\ walk.pc = "idle"
        /\ walk' = [NoWalk EXCEPT !.pc = "ask", !.order = order, !.cursor = Start(order)]
        /\ UNCHANGED sealed

\* ListRevisionPage.  `from` remembers the newest revision of a descending walk.
ReadPage ==
    \E limit \in Limits :
        LET page == RevisionPage(sealed, walk.order, walk.cursor.boundary, limit)
        IN
        /\ walk.pc = "ask"
        /\ CursorAccepted(walk.cursor, walk.order)
        /\ walk' = [walk EXCEPT
                !.pc = IF page.next = 0 THEN "end" ELSE "ask",
                !.cursor = CursorOf(walk.order, page.next),
                !.got = @ \cup page.revisions,
                !.served = @ + Cardinality(page.revisions),
                !.from = IF walk.got = {} THEN sealed ELSE @]
        /\ UNCHANGED sealed

Refused ==
    /\ walk.pc = "ask"
    /\ ~CursorAccepted(walk.cursor, walk.order)
    /\ walk' = [walk EXCEPT !.pc = "refused"]
    /\ UNCHANGED sealed

\* The client asks for the other order with the cursor it holds.
TurnRound ==
    /\ walk.pc = "ask" /\ walk.cursor.boundary # 0
    /\ walk.order = walk.cursor.order
    /\ walk' = [walk EXCEPT !.order = CHOOSE o \in Orders : o # walk.order]
    /\ UNCHANGED sealed

\* upgradeLegacyRevisionCursor: ListRevisions turns a bare boundary into a
\* cursor of the ascending order.
ResumeLegacy ==
    \E boundary \in 1..sealed :
        /\ walk.pc = "idle"
        /\ walk' = [NoWalk EXCEPT !.pc = "ask", !.cursor = CursorOf("ascending", boundary),
                                  !.got = 1..boundary, !.served = boundary, !.from = sealed]
        /\ UNCHANGED sealed

Forget ==
    /\ walk.pc \in {"end", "refused"}
    /\ walk' = NoWalk
    /\ UNCHANGED sealed

Next == Commit \/ Begin \/ ReadPage \/ Refused \/ TurnRound \/ ResumeLegacy \/ Forget

Spec == Init /\ [][Next]_vars

-----------------------------------------------------------------------------
\* Types; a cursor never names a revision that is not sealed.
TypeOK ==
    /\ sealed \in 0..MaxRevision
    /\ walk \in [pc : {"idle", "ask", "end", "refused"}, order : Orders,
                 cursor : [order : Orders, boundary : 0..sealed],
                 got : SUBSET (1..sealed), served : Nat, from : 0..sealed]

\* "Its cursor is stable under concurrent commits": what a walk has read is
\* everything on one side of its cursor, from the oldest revision up or from
\* the revision that was newest when it began down, and once it ends nothing
\* between is missing, whatever was committed meanwhile.
WalkHasNoGap ==
    LET b == walk.cursor.boundary IN
    CASE walk.pc = "ask" /\ b # 0 ->
            walk.got = IF walk.cursor.order = "ascending" THEN 1..b ELSE b..walk.from
      [] walk.pc = "end" /\ walk.order = "ascending" -> \E top \in walk.from..sealed : walk.got = 1..top
      [] walk.pc = "end" /\ walk.order = "descending" -> walk.got = 1..walk.from
      [] OTHER -> TRUE

\* No revision is reported on two pages.
NoRevisionTwice == walk.served = Cardinality(walk.got)
=============================================================================
