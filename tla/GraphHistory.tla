---------------------------- MODULE GraphHistory ----------------------------
(***************************************************************************)
(* What a Sheets database promises its users: an append-only sequence of   *)
(* graphs, one per revision.  Every graph is well formed, every revision   *)
(* changes something, a graph once in the history stays as it is, and an   *)
(* entity that was deleted never comes back under the same identifier.     *)
(*                                                                         *)
(* A graph is two sets of pairs <<id, content>>, one of nodes and one of   *)
(* edges; an edge's content has its endpoints and its type.                *)
(***************************************************************************)
EXTENDS Naturals, Sequences

CONSTANT NodeIds

VARIABLE history

EmptyGraph == [nodes |-> {}, edges |-> {}]

Ids(pairs) == {p[1] : p \in pairs}

OneVersionEach(pairs) == \A p, q \in pairs : p[1] = q[1] => p = q

EndpointsPresent(g) == \A e \in g.edges : {e[2].from, e[2].to} \subseteq Ids(g.nodes)

ChildPairs(g) == {e \in g.edges : e[2].type = "CHILD"}

OneParentEach(g) == \A e, f \in ChildPairs(g) : e[2].to = f[2].to => e = f

\* No set of nodes in which each has a CHILD in the set: no cycle.
ChildAcyclic(g) ==
    \A S \in SUBSET NodeIds :
        (\A n \in S : \E e \in ChildPairs(g) : e[2].from = n /\ e[2].to \in S) => S = {}

WellFormed(g) ==
    /\ OneVersionEach(g.nodes)
    /\ OneVersionEach(g.edges)
    /\ EndpointsPresent(g)
    /\ OneParentEach(g)
    /\ ChildAcyclic(g)

\* The graph before revision r.
Before(h, r) == IF r = 1 THEN EmptyGraph ELSE h[r - 1]

\* Whatever is new in h[r] was in none of the graphs before it.
NoResurrection(h, r) ==
    \A q \in 1..(r - 1) :
        /\ Ids(h[q].nodes) \cap Ids(h[r].nodes) \subseteq Ids(h[r - 1].nodes)
        /\ Ids(h[q].edges) \cap Ids(h[r].edges) \subseteq Ids(h[r - 1].edges)

Init == history = <<>>

Append1 ==
    LET r == Len(history) + 1
    IN  /\ Len(history') = r
        /\ \A q \in 1..Len(history) : history'[q] = history[q]
        /\ WellFormed(history'[r])
        /\ history'[r] # Before(history', r)
        /\ NoResurrection(history', r)

Spec == Init /\ [][Append1]_history
=============================================================================
