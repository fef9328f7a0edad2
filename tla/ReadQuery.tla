----------------------------- MODULE ReadQuery ------------------------------
(***************************************************************************)
(* Execution of a read query over one revision of the graph.               *)
(*                                                                         *)
(* The engine answers a query with the matcher (PatternMatch), but loads   *)
(* only the part of the revision it believes the matcher needs: a count    *)
(* may never load anything, patterns of bounded length are expanded from   *)
(* index scans into a working set, and everything else falls back to a     *)
(* scan of single nodes or to the whole snapshot.  A shortestPath in the   *)
(* RETURN runs a breadth-first search of its own for every row; the model  *)
(* follows any one of the rows.                                            *)
(*                                                                         *)
(* A query is [branches, count, shortest]: the clauses of each UNION ALL   *)
(* branch, whether it returns count(n), and no or one shortestPath element.*)
(* A clause is [kind, patterns, optional, where, keep]; `where` is no or   *)
(* one [variable, key, value] test, `keep` the variables of a WITH.        *)
(***************************************************************************)
EXTENDS PatternMatch, Functions

CONSTANTS Workloads,    \* a sequence of [graphs, queries]: revisions, and a sequence of queries
          MaxEntities,  \* defaultIteratorEntities: nodes and edges of a working set
          MaxDepth      \* defaultIteratorDepth: levels of a variable-length expansion

-----------------------------------------------------------------------------
(* The revisions and the queries that reach the engine.                    *)

IsSequence(s) == s \in Seq(Range(s))

Stored(entity) == \A k \in DOMAIN entity.properties : IsValue(entity.properties[k])

\* A revision: finitely many entities, and the nodes of every edge.
IsGraph(g) ==
    /\ IsFiniteSet(DOMAIN g.nodes) /\ IsFiniteSet(DOMAIN g.edges)
    /\ DOMAIN g.nodes \subseteq Nat \ {0}
    /\ \A id \in DOMAIN g.nodes : Stored(g.nodes[id])
    /\ \A e \in DOMAIN g.edges :
          Stored(g.edges[e]) /\ {g.edges[e].from, g.edges[e].to} \subseteq DOMAIN g.nodes

NodeNames(pattern) == {pattern.nodes[i].variable : i \in DOMAIN pattern.nodes} \ {""}
EdgeNames(pattern) == {pattern.edges[i].variable : i \in DOMAIN pattern.edges} \ {""}

\* The names that the first n patterns of a clause bind.
NodesOf(clause, n) == UNION {NodeNames(clause.patterns[i]) : i \in 1..n}
EdgesOf(clause, n) == UNION {EdgeNames(clause.patterns[i]) : i \in 1..n}

\* The names in scope before clause n: bound by an earlier clause, and kept by
\* every WITH after it.
Kept(clauses, n, name, i) == \A j \in i + 1..n - 1 : clauses[j].kind = "with" => name \in clauses[j].keep
NodeScope(clauses, n) ==
    UNION {{name \in NodesOf(clauses[i], Len(clauses[i].patterns)) : Kept(clauses, n, name, i)} : i \in 1..n - 1}
EdgeScope(clauses, n) ==
    UNION {{name \in EdgesOf(clauses[i], Len(clauses[i].patterns)) : Kept(clauses, n, name, i)} : i \in 1..n - 1}

\* Constants, and properties of the nodes that the row already binds.
AreProperties(properties, names) ==
    /\ DOMAIN properties \subseteq Nat
    /\ \A k \in DOMAIN properties :
          \/ Len(properties[k]) = 1 /\ (properties[k][1] = Null \/ IsValue(properties[k][1]))
          \/ Len(properties[k]) = 2 /\ properties[k][1] \in names

IsLength(length) ==
    \/ length = <<>>
    \/ Len(length) = 1 /\ length \in Seq(Nat)
    \/ Len(length) = 2 /\ length \in Seq(Nat)

\* bindPatternVariable: one name is not a node and a relationship.
IsPattern(p, nodes, edges) ==
    /\ IsSequence(p.nodes) /\ IsSequence(p.edges) /\ Len(p.nodes) = Len(p.edges) + 1
    /\ NodeNames(p) \cap (edges \cup EdgeNames(p)) = {} /\ nodes \cap (edges \cup EdgeNames(p)) = {}
    /\ \A i \in DOMAIN p.nodes :
          /\ IsSequence(p.nodes[i].labels)
          /\ AreProperties(p.nodes[i].properties, nodes \cup ({p.nodes[j].variable : j \in 1..i - 1} \ {""}))
    /\ \A i \in DOMAIN p.edges :
          /\ IsSequence(p.edges[i].types) /\ IsLength(p.edges[i].length)
          /\ AreProperties(p.edges[i].properties, nodes \cup ({p.nodes[j].variable : j \in 1..i} \ {""}))

IsClause(c, nodes, edges) ==
    /\ c.kind \in {"match", "with"} /\ IsSequence(c.patterns)
    /\ c.kind = "with" => c.patterns = <<>>
    /\ \A n \in DOMAIN c.patterns :
          IsPattern(c.patterns[n], nodes \cup NodesOf(c, n - 1), edges \cup EdgesOf(c, n - 1))
    /\ \A i \in DOMAIN c.where : c.where[i].variable \in nodes \cup NodesOf(c, Len(c.patterns))

\* What validateDocumentSemantics admits of the queries the model has.
IsQuery(q) ==
    /\ IsSequence(q.branches)
    /\ q.count => q.shortest = <<>>
    /\ \A b \in DOMAIN q.branches :
          /\ IsSequence(q.branches[b])
          /\ \A n \in DOMAIN q.branches[b] :
                IsClause(q.branches[b][n], NodeScope(q.branches[b], n), EdgeScope(q.branches[b], n))

ASSUME ReadAssumption ==
    /\ MaxEntities \in Nat /\ MaxDepth \in Nat
    /\ \A w \in DOMAIN Workloads :
          /\ \A g \in Workloads[w].graphs : IsGraph(g)
          /\ \A q \in DOMAIN Workloads[w].queries : IsQuery(Workloads[w].queries[q])

-----------------------------------------------------------------------------

VARIABLES graph,     \* the revision
          query,     \* the query
          phase,     \* what the engine does next
          working,   \* ids of the nodes and edges loaded so far
          bindings,  \* candidates of the variables seen so far
          cursor,    \* the pattern being expanded
          search,    \* the breadth-first search in progress
          answer     \* the result

vars == <<graph, query, phase, working, bindings, cursor, search, answer>>

Nodes == DOMAIN graph.nodes
AllEdges == DOMAIN graph.edges

-----------------------------------------------------------------------------
(* What a list of clauses means over a graph g.                            *)

Introduced(clause) ==
    (UNION {{p.nodes[i].variable : i \in DOMAIN p.nodes} \cup {p.edges[i].variable : i \in DOMAIN p.edges} :
            p \in Range(clause.patterns)}) \ {""}

WhereHolds(g, row, where) ==
    \A i \in DOMAIN where :
        LET v == Evaluate(g, row, <<where[i].variable, where[i].key>>)
        IN  v # Null /\ equalValues(v, where[i].value)

\* Candidates for a first node: by the indexes, as the code finds them, or by
\* looking at every node.
Candidates(indexed, g, row, pattern) ==
    IF indexed THEN candidateNodes(g, row, pattern) ELSE AllCandidates(g, row, pattern)

\* All patterns of a clause in turn, each from the matches of the one before.
MatchPatterns(g, indexed, match, patterns) ==
    LET extend(m, element) ==
            {[row |-> x.row, trace |-> Append(m.trace, x.path)] :
                x \in matchPattern(g, m.row, element, Candidates(indexed, g, m.row, element.nodes[1]))}
        found[i \in 0..Len(patterns)] ==
            IF i = 0 THEN {match} ELSE UNION {extend(m, patterns[i]) : m \in found[i - 1]}
    IN  found[Len(patterns)]

\* matchClauseRows for one row: the patterns, then WHERE; OPTIONAL keeps the row.
MatchClause(g, indexed, match, clause) ==
    LET kept == {m \in MatchPatterns(g, indexed, match, clause.patterns) :
                     WhereHolds(g, m.row, clause.where)}
        filled == [v \in Introduced(clause) \cup DOMAIN match.row |->
                      IF v \in DOMAIN match.row THEN match.row[v] ELSE Null]
    IN  IF kept = {} /\ clause.optional
        THEN {[row |-> filled, trace |-> Append(match.trace, "optional")]}
        ELSE kept

\* One clause: the matches of each match, or its projection.
Clause(g, indexed, match, clause) ==
    IF clause.kind = "with"
    THEN {[row |-> Only(match.row, clause.keep \cap DOMAIN match.row), trace |-> match.trace]}
    ELSE MatchClause(g, indexed, match, clause)

NoMatch == [row |-> Only(<<>>, {}), trace |-> <<>>]

\* The clauses of a branch in turn.
Clauses(g, indexed, clauses) ==
    LET found[i \in 0..Len(clauses)] ==
            IF i = 0 THEN {NoMatch}
            ELSE UNION {Clause(g, indexed, m, clauses[i]) : m \in found[i - 1]}
    IN  found[Len(clauses)]

Rows(g, indexed, q) ==
    UNION {{<<b, m>> : m \in Clauses(g, indexed, q.branches[b])} : b \in DOMAIN q.branches}

\* The rows returned; count(n) returns one, the number of matches.
Result(q, rows) == IF q.count THEN {Cardinality(rows)} ELSE rows

-----------------------------------------------------------------------------
(* Predicates handed to the store, and what the store answers.             *)

IsStatic(properties) == \A k \in DOMAIN properties : Len(properties[k]) = 1

FirstTerms(list) == IF Len(list) > PredicateTerms THEN SubSeq(list, 1, PredicateTerms) ELSE list

PropertyPlan(properties) ==
    LET known == IsStatic(properties) IN
    buildPropertyScanPlan([k \in IF known THEN DOMAIN properties ELSE {} |-> properties[k][1]], known)

buildNodeScanPlan(pattern) ==
    LET plan == PropertyPlan(pattern.properties) IN
    [labels |-> FirstTerms(pattern.labels), base |-> plan.base, alternatives |-> plan.alternatives,
     complete |-> plan.complete /\ Len(pattern.labels) <= PredicateTerms, empty |-> plan.empty]

\* Types are alternatives: a list that is too long is not pushed at all.
buildEdgeScanPlan(pattern) ==
    [types |-> IF Len(pattern.types) > PredicateTerms THEN <<>> ELSE pattern.types,
     alternatives |-> PropertyPlan(pattern.properties).alternatives]

StoreHas(entity, properties) ==
    \A k \in DOMAIN properties :
        k \in DOMAIN entity.properties /\ storeEqual(entity.properties[k], properties[k])

ScanNodes(labels, properties) ==
    {id \in Nodes : HasLabels(graph.nodes[id], labels) /\ StoreHas(graph.nodes[id], properties)}

\* filterNodes: the same predicate on loaded nodes, with the engine's equality.
filterNodes(ids, labels, properties) ==
    {id \in ids : /\ HasLabels(graph.nodes[id], labels)
                  /\ \A k \in DOMAIN properties : equalValues(property(graph.nodes[id], k), properties[k])}

\* scanAdjacent: one or two endpoint scans per alternative.
scanAdjacent(frontier, pattern) ==
    LET plan == buildEdgeScanPlan(pattern) IN
    {e \in AllEdges :
        /\ \/ Outgoing(pattern.direction) /\ graph.edges[e].from \in frontier
           \/ Incoming(pattern.direction) /\ graph.edges[e].to \in frontier
        /\ HasType(graph.edges[e], plan.types)
        /\ \E a \in plan.alternatives : StoreHas(graph.edges[e], a)}

\* Variant: of an undirected edge only the far end counts as reached.
edgeTargetsOneEnd(edge, direction, current) ==
    IF Outgoing(direction) /\ edge.from \in current THEN {edge.to}
    ELSE IF Incoming(direction) /\ edge.to \in current THEN {edge.from} ELSE {}

edgeTargets(edge, direction, current) ==
    (IF Outgoing(direction) /\ edge.from \in current THEN {edge.to} ELSE {})
    \cup (IF Incoming(direction) /\ edge.to \in current THEN {edge.from} ELSE {})

-----------------------------------------------------------------------------
(* Which way a query is loaded.                                            *)

\* queryPatterns: the patterns of all MATCH clauses in order.
Patterns(clauses) ==
    LET result[i \in 0..Len(clauses)] ==
            IF i = 0 THEN <<>> ELSE result[i - 1] \o clauses[i].patterns
    IN  result[Len(clauses)]

\* directCountShape, and a plan that leaves nothing to the matcher.
DirectCount(q) ==
    /\ Len(q.branches) = 1 /\ q.count /\ q.shortest = <<>>
    /\ Len(q.branches[1]) = 1
    /\ LET clause == q.branches[1][1] IN
       /\ clause.kind = "match" /\ ~clause.optional /\ clause.where = <<>>
       /\ Len(clause.patterns) = 1 /\ Len(clause.patterns[1].nodes) = 1
       /\ buildNodeScanPlan(clause.patterns[1].nodes[1]).complete

\* iteratorFallbackReason: a scope boundary between two MATCH clauses, or a
\* length without an upper bound.
iteratorFallback(clauses) ==
    \/ \E i, j, k \in DOMAIN clauses :
          /\ i < j /\ j < k
          /\ clauses[i].kind = "match" /\ clauses[j].kind = "with" /\ clauses[k].kind = "match"
    \/ \E p \in Range(Patterns(clauses)) : \E i \in DOMAIN p.edges : Len(p.edges[i].length) = 1

\* loadReadWorkingSet takes the query.
UsesIterator(q) ==
    /\ Len(q.branches) = 1 /\ q.shortest = <<>>
    /\ ~iteratorFallback(q.branches[1])
    /\ Patterns(q.branches[1]) # <<>>

NodePatterns(q) ==
    UNION {{p.nodes[1] : p \in Range(Patterns(q.branches[b]))} : b \in DOMAIN q.branches}

\* collectNodePredicates takes it: single nodes, and nothing else that needs a graph.
UsesNodeScan(q) ==
    /\ q.shortest = <<>> /\ NodePatterns(q) # {}
    /\ \A b \in DOMAIN q.branches : \A p \in Range(Patterns(q.branches[b])) : p.edges = <<>>

-----------------------------------------------------------------------------
NoCursor == [pattern |-> 0, edge |-> 0, depth |-> 0, frontier |-> {}, current |-> {}, seen |-> {}]
NoSearch == [active |-> FALSE, row |-> Only(<<>>, {}), starts |-> {}, start |-> 0, depth |-> 0, frontier |-> {},
             visited |-> {}, predecessors |-> {}, targets |-> {}, completed |-> {}, paths |-> {}]

Init ==
    /\ \E w \in DOMAIN Workloads :
          /\ graph \in Workloads[w].graphs
          /\ \E q \in DOMAIN Workloads[w].queries : query = Workloads[w].queries[q]
    /\ phase = "plan"
    /\ working = [nodes |-> {}, edges |-> {}]
    /\ bindings = Only(<<>>, {})
    /\ cursor = NoCursor
    /\ search = NoSearch
    /\ answer = {}

\* executeDirectCount: the store counts each alternative, nothing is loaded.
ExecuteDirectCount ==
    LET node == query.branches[1][1].patterns[1].nodes[1]
        plan == buildNodeScanPlan(node)
    IN
    /\ phase = "plan" /\ DirectCount(query)
    /\ answer' = {Cardinality({x \in plan.alternatives \X Nodes : x[2] \in ScanNodes(plan.labels, x[1])})}
    /\ phase' = "done"
    /\ UNCHANGED <<graph, query, working, bindings, cursor, search>>

\* loadReadWorkingSet begins with the first pattern.
OpenIterator ==
    /\ phase = "plan" /\ ~DirectCount(query) /\ UsesIterator(query)
    /\ cursor' = [NoCursor EXCEPT !.pattern = 1]
    /\ phase' = "root"
    /\ UNCHANGED <<graph, query, working, bindings, search, answer>>

\* loadNodeWorkingSet: the nodes of every pattern, by its base predicate.
LoadNodeWorkingSet ==
    LET scan(p) == LET plan == buildNodeScanPlan(p) IN ScanNodes(plan.labels, plan.base) IN
    /\ phase = "plan" /\ ~DirectCount(query) /\ ~UsesIterator(query) /\ UsesNodeScan(query)
    /\ working' = [nodes |-> UNION {scan(p) : p \in NodePatterns(query)}, edges |-> {}]
    /\ phase' = "evaluate"
    /\ UNCHANGED <<graph, query, bindings, cursor, search, answer>>

\* loadGraph: the complete snapshot.
LoadGraph ==
    /\ phase = "plan" /\ ~DirectCount(query) /\ ~UsesIterator(query) /\ ~UsesNodeScan(query)
    /\ working' = [nodes |-> Nodes, edges |-> AllEdges]
    /\ phase' = "evaluate"
    /\ UNCHANGED <<graph, query, bindings, cursor, search, answer>>

Load(nodes, edges) == [nodes |-> working.nodes \cup nodes, edges |-> working.edges \cup edges]

OverBudget(loaded) == Cardinality(loaded.nodes) + Cardinality(loaded.edges) > MaxEntities

\* bind: the candidates of a variable accumulate.
bind(name, ids) ==
    IF name = "" \/ ids = {} THEN bindings
    ELSE With(bindings, name, ids \cup (IF name \in DOMAIN bindings THEN bindings[name] ELSE {}))

Pattern == Patterns(query.branches[1])[cursor.pattern]

\* After frontier was reached at node `edge + 1` of the pattern: the next
\* relationship, or the next pattern, or the evaluation.
Proceed(edge, frontier) ==
    IF edge < Len(Pattern.edges) /\ (edge = 0 \/ frontier # {})
    THEN LET length == Pattern.edges[edge + 1].length
             plan == buildNodeScanPlan(Pattern.nodes[edge + 2])
         IN
         /\ phase' = "expand"
         /\ cursor' = [cursor EXCEPT
                !.edge = edge + 1, !.depth = 0, !.frontier = frontier, !.current = frontier,
                !.seen = IF lower(length) = 0 THEN filterNodes(frontier, plan.labels, plan.base) ELSE {}]
    ELSE IF cursor.pattern < Len(Patterns(query.branches[1]))
    THEN phase' = "root" /\ cursor' = [NoCursor EXCEPT !.pattern = cursor.pattern + 1]
    ELSE phase' = "evaluate" /\ cursor' = NoCursor

Fail ==
    /\ phase' = "failed"
    /\ UNCHANGED <<bindings, cursor>>

\* The root of a pattern: candidates of a variable already seen, or a scan.
RootScan ==
    LET first == Pattern.nodes[1]
        plan == buildNodeScanPlan(first)
        bound == IF first.variable \in DOMAIN bindings THEN bindings[first.variable] ELSE {}
        scanned == UNION {ScanNodes(plan.labels, a) : a \in plan.alternatives}
        frontier == IF bound = {} THEN scanned
                    ELSE IF plan.empty THEN {} ELSE filterNodes(bound, plan.labels, plan.base)
    IN
    /\ phase = "root"
    /\ working' = IF bound = {} THEN Load(scanned, {}) ELSE working
    /\ IF OverBudget(working') THEN Fail
       ELSE bindings' = bind(first.variable, frontier) /\ Proceed(0, frontier)
    /\ UNCHANGED <<graph, query, search, answer>>

Relationship == Pattern.edges[cursor.edge]
Target == Pattern.nodes[cursor.edge + 1]
Longest == upper(Relationship.length, MaxDepth)

\* staticRelationshipBounds refuses a bound beyond the depth budget.
RefuseDepth ==
    /\ phase = "expand" /\ cursor.depth = 0
    /\ lower(Relationship.length) > MaxDepth \/ Longest > MaxDepth
    /\ Fail
    /\ UNCHANGED <<graph, query, working, search, answer>>

\* Variant: only the nodes that match the target are fetched.
FetchedHits(reached, hits) == hits

\* fetchNodes: all ends of the edges, whether or not they match the target.
Fetched(reached, hits) == reached

\* One level of expandOne or expandVariable: adjacent edges, then their other
\* ends, which are targets from the lower bound on.
ExpandLevel ==
    LET edges == scanAdjacent(cursor.current, Relationship)
        reached == UNION {edgeTargets(graph.edges[e], Relationship.direction, cursor.current) : e \in edges}
        plan == buildNodeScanPlan(Target)
        hits == IF cursor.depth + 1 >= lower(Relationship.length)
                THEN filterNodes(reached, plan.labels, plan.base) ELSE {}
    IN
    /\ phase = "expand" /\ Longest <= MaxDepth /\ lower(Relationship.length) <= MaxDepth
    /\ cursor.depth < Longest /\ cursor.current # {}
    /\ working' = Load(Fetched(reached, hits), edges)
    /\ IF OverBudget(working') THEN Fail
       ELSE /\ cursor' = [cursor EXCEPT !.depth = @ + 1, !.current = reached, !.seen = @ \cup hits]
            /\ UNCHANGED <<phase, bindings>>
    /\ UNCHANGED <<graph, query, search, answer>>

\* Variant: an expansion waits for its last level although nothing is left.
ExhaustedAtDepth == cursor.depth >= Longest

Exhausted == cursor.depth >= Longest \/ cursor.current = {}

\* The targets of this relationship become the frontier of the next.
ExpandEnd ==
    /\ phase = "expand" /\ Longest <= MaxDepth /\ lower(Relationship.length) <= MaxDepth
    /\ Exhausted
    /\ bindings' = bind(Target.variable, cursor.seen)
    /\ Proceed(cursor.edge, cursor.seen)
    /\ UNCHANGED <<graph, query, working, search, answer>>

\* The graph in memory: what was loaded.
WorkingGraph == [nodes |-> Only(graph.nodes, working.nodes), edges |-> Only(graph.edges, working.edges)]

Execute ==
    LET rows == Rows(WorkingGraph, TRUE, query) IN
    /\ phase = "evaluate"
    /\ IF query.shortest = <<>> \/ rows = {}
       THEN answer' = Result(query, rows) /\ phase' = "done" /\ UNCHANGED search
       ELSE /\ \E r \in rows : search' = [NoSearch EXCEPT !.active = TRUE, !.row = r[2].row]
            /\ phase' = "shortest"
            /\ UNCHANGED answer
    /\ UNCHANGED <<graph, query, working, bindings, cursor>>

-----------------------------------------------------------------------------
(* shortestPath and allShortestPaths over the complete snapshot.           *)

Element == query.shortest[1]
Hop == Element.edges[1]

\* selectShortestPaths with all = TRUE; shortestPath returns one of them.
selectShortestPaths(paths) ==
    {p \in paths : \A q \in paths : Len(p.edges) <= Len(q.edges)}

\* shortestPatternUsesBFS: one relationship whose lower bound is at most 1,
\* unnamed if it has a length.
UsesBFS ==
    /\ Len(Element.edges) = 1
    /\ Hop.length = <<>> \/ Hop.variable = ""
    /\ lower(Hop.length) <= 1

TargetMatches(id) ==
    /\ CanBind(search.row, Element.nodes[2].variable, NodeValue(id))
    /\ nodePatternMatches(WorkingGraph, search.row, id, Element.nodes[2])

HopMatches(edge) ==
    /\ CanBind(search.row, Hop.variable, EdgeValue(edge))
    /\ relationshipPatternMatches(WorkingGraph, search.row, edge, Hop)

\* The paths of the generic matcher for a pattern expression.
GenericPaths(g, indexed) ==
    {m.path : m \in matchPattern(g, search.row, Element, Candidates(indexed, g, search.row, Element.nodes[1]))}

GenericShortest ==
    /\ phase = "shortest" /\ ~UsesBFS
    /\ answer' = selectShortestPaths(GenericPaths(WorkingGraph, TRUE))
    /\ phase' = "done"
    /\ UNCHANGED <<graph, query, working, bindings, cursor, search>>

BeginSearch ==
    /\ phase = "shortest" /\ UsesBFS
    /\ search' = [search EXCEPT !.starts = candidateNodes(WorkingGraph, search.row, Element.nodes[1])]
    /\ phase' = "search"
    /\ UNCHANGED <<graph, query, working, bindings, cursor, answer>>

\* shortestPathsFrom for the next start; a start that is its own target needs
\* no search when the lower bound is 0.
SearchFrom ==
    LET start == CHOOSE s \in search.starts : \A t \in search.starts : s <= t
        rest == search.starts \ {start}
    IN
    /\ phase = "search" /\ search.start = 0 /\ search.starts # {}
    /\ search' =
        IF lower(Hop.length) = 0 /\ TargetMatches(start)
        THEN [search EXCEPT !.starts = rest, !.paths = @ \cup {[nodes |-> <<start>>, edges |-> <<>>]}]
        ELSE [NoSearch EXCEPT !.active = TRUE, !.row = search.row, !.paths = search.paths,
                              !.starts = rest, !.start = start, !.frontier = {start}, !.visited = {start}]
    /\ UNCHANGED <<graph, query, phase, working, bindings, cursor, answer>>

\* The paths from the start along the predecessors, level by level: those that
\* end at the node.
reconstructShortestPaths(id) ==
    LET paths[depth \in 0..search.depth] ==
            IF depth = 0 THEN {[nodes |-> <<search.start>>, edges |-> <<>>]}
            ELSE UNION {{Along(p, <<s.edge, s.node>>) : s \in {r \in search.predecessors : r.from = End(p)}} :
                        p \in paths[depth - 1]}
    IN  {p \in UNION {paths[depth] : depth \in 0..search.depth} : End(p) = id}

SearchOver ==
    \/ search.depth >= upper(Hop.length, Cardinality(DOMAIN WorkingGraph.edges))
    \/ search.frontier = {} \/ search.targets # {} \/ search.completed # {}

\* Variant: a node keeps the first predecessor that reached it.
NewlyReachedOnce(steps) ==
    {s \in steps : /\ s.node \notin search.visited
                   /\ \A t \in steps : t.node = s.node => s.edge <= t.edge}

\* Steps to nodes no earlier level has reached: their only shortest ones.
NewlyReached(steps) == {s \in steps : s.node \notin search.visited}

\* One level: a step back to a start that is a target closes a cycle, every
\* other step counts only if its node is new.
SearchLevel ==
    LET steps == UNION {{[from |-> id, edge |-> a[1], node |-> a[2]] :
                            a \in {x \in adjacentEdges(WorkingGraph, id, Hop.direction) : HopMatches(x[1])}} :
                        id \in search.frontier}
        closing == {s \in steps : s.node = search.start /\ TargetMatches(search.start)}
        cycles(s) == {Along(p, <<s.edge, s.node>>) :
                        p \in {q \in reconstructShortestPaths(s.from) : s.edge \notin Edges(q)}}
        fresh == NewlyReached(steps)
        reached == {s.node : s \in fresh}
    IN
    /\ phase = "search" /\ search.start # 0 /\ ~SearchOver
    /\ search' = [search EXCEPT
            !.depth = @ + 1, !.frontier = reached, !.visited = @ \cup reached,
            !.predecessors = @ \cup fresh,
            !.targets = {id \in reached : TargetMatches(id)},
            !.completed = UNION {cycles(s) : s \in closing}]
    /\ UNCHANGED <<graph, query, phase, working, bindings, cursor, answer>>

SearchEnd ==
    /\ phase = "search" /\ search.start # 0 /\ SearchOver
    /\ search' = [search EXCEPT !.start = 0,
            !.paths = @ \cup search.completed \cup UNION {reconstructShortestPaths(t) : t \in search.targets}]
    /\ UNCHANGED <<graph, query, phase, working, bindings, cursor, answer>>

FinishShortest ==
    /\ phase = "search" /\ search.start = 0 /\ search.starts = {}
    /\ answer' = selectShortestPaths(search.paths)
    /\ phase' = "done"
    /\ UNCHANGED <<graph, query, working, bindings, cursor, search>>

Next ==
    \/ ExecuteDirectCount \/ OpenIterator \/ LoadNodeWorkingSet \/ LoadGraph
    \/ RootScan \/ RefuseDepth \/ ExpandLevel \/ ExpandEnd \/ Execute
    \/ GenericShortest \/ BeginSearch \/ SearchFrom \/ SearchLevel \/ SearchEnd \/ FinishShortest

Spec == Init /\ [][Next]_vars

\* One goroutine runs a query from its start to its answer.
FairSpec == Spec /\ WF_vars(Next)

-----------------------------------------------------------------------------
\* Types; the working set is a graph: both ends of an edge it loads are loaded.
TypeOK ==
    /\ phase \in {"plan", "root", "expand", "evaluate", "shortest", "search", "done", "failed"}
    /\ working.nodes \subseteq Nodes /\ working.edges \subseteq AllEdges
    /\ \A e \in working.edges : {graph.edges[e].from, graph.edges[e].to} \subseteq working.nodes
    /\ cursor.current \subseteq working.nodes /\ search.frontier \subseteq working.nodes
    /\ \A v \in DOMAIN bindings : bindings[v] \subseteq working.nodes

\* A node holds a list that equals another one filed under another key of the
\* in-memory index, which then hides one of them (match.go:662).
LossyKeyStored ==
    \E id \in Nodes : \E v \in Range(graph.nodes[id].properties) : LossyKey(v)

\* "this planner only pushes predicates that are exact" (iterator.go:113): the
\* rows of a query over what was loaded are those of the matcher over the
\* whole revision, whichever of the loading strategies was taken.
WorkingSetIsEnough ==
    phase = "done" /\ ~query.count /\ query.shortest = <<>> /\ ~LossyKeyStored
        => answer = Rows(graph, FALSE, query)

\* A count taken from the store's index, or from the working set, is the
\* number of rows the matcher gives over the whole revision.
CountIsExact ==
    phase = "done" /\ query.count /\ ~LossyKeyStored
        => answer = {Cardinality(Rows(graph, FALSE, query))}

\* The shortest among the trails that the generic matcher enumerates for the
\* row, which is what the breadth-first search stands for.
ShortestIsGeneric ==
    phase = "done" /\ search.active
        => answer = selectShortestPaths(GenericPaths(graph, FALSE))

\* A cycle is asked for: a start without direction that is its own target, or
\* one free variable at both ends.
AsksForCycle ==
    \/ /\ Hop.direction = "undirected" /\ lower(Hop.length) = 1
       /\ \E id \in AllCandidates(graph, search.row, Element.nodes[1]) : TargetMatches(id)
    \/ Element.nodes[1].variable # "" /\ Element.nodes[1].variable = Element.nodes[2].variable
       /\ Element.nodes[1].variable \notin DOMAIN search.row

\* Between different nodes, and around directed cycles, the breadth-first
\* search returns exactly the shortest relationship trails, all of them.
ShortestPathsAreAllShortest ==
    search.active /\ ~AsksForCycle => ShortestIsGeneric

\* Every query ends, with an answer or with the error of a budget.
QueryEnds == <>(phase \in {"done", "failed"})
=============================================================================
