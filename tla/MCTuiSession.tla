---------------------------- MODULE MCTuiSession ----------------------------
(* TuiSession on small instances. *)
EXTENDS TuiSession

Budget(allowed, actions, failures, revisions, maxLoads, maxPages) ==
    [allowed |-> allowed, actions |-> actions, failures |-> failures,
     revisions |-> revisions, loads |-> maxLoads, pages |-> maxPages]

\* Snapshots come and go; no load is cut off.
Views == Budget({"open", "live", "refresh"}, 3, 1, 1, 9, 1)

\* Forms, queries and retries over a timeline of several pages.
Forms == Budget({"older", "refresh", "open", "form", "query", "retry"}, 2, 1, 2, 0, 3)

ViewsAndForms == {Views, Forms}

\* A mutation is retried after a historical revision was opened.
Retries == {Budget({"form", "retry", "open"}, 3, 1, 1, 2, 1)}
=============================================================================
