---------------------------- MODULE PatternMatch ----------------------------
(***************************************************************************)
(* The matcher: the rows MATCH clauses give over a graph in memory.        *)
(*                                                                         *)
(* A graph maps node ids to [labels, properties] and edge ids to [from,    *)
(* to, type, properties].  A row is a function from the bound variables to *)
(* values.  Rows are a bag in the engine; here every row carries the paths *)
(* that made it, so that two equal rows of different matches stay apart    *)
(* in a set and counting rows is counting matches.                         *)
(*                                                                         *)
(* Pattern properties map keys to expressions, <<value>> when static and   *)
(* <<variable, key>> for a property of an earlier variable.  A length is   *)
(* <<>> for a plain relationship, <<lower>> when unbounded above, and      *)
(* <<lower, upper>> otherwise.                                             *)
(***************************************************************************)
EXTENDS PropertyValues, Sequences

NodeValue(id) == <<"node", id>>
EdgeValue(id) == <<"edge", id>>
EdgeList(edges) == <<"edges", edges>>

property(entity, key) ==
    IF key \in DOMAIN entity.properties THEN entity.properties[key] ELSE Null

\* The only expressions patterns use: constants, and properties of a node the
\* row already binds (null when the row binds the variable to null).
Evaluate(graph, row, expression) ==
    IF Len(expression) = 1 THEN expression[1]
    ELSE IF row[expression[1]] = Null THEN Null
    ELSE property(graph.nodes[row[expression[1]][2]], expression[2])

expectedProperties(graph, row, properties) ==
    [k \in DOMAIN properties |-> Evaluate(graph, row, properties[k])]

propertiesMatch(entity, expected) ==
    \A k \in DOMAIN expected :
        /\ property(entity, k) # Null /\ expected[k] # Null
        /\ equalValues(property(entity, k), expected[k])

\* Label and type lists of a pattern: all labels, any of the types.
HasLabels(entity, labels) == \A i \in DOMAIN labels : labels[i] \in entity.labels
HasType(edge, types) == types = <<>> \/ \E i \in DOMAIN types : edge.type = types[i]

nodePatternMatches(graph, row, id, pattern) ==
    /\ HasLabels(graph.nodes[id], pattern.labels)
    /\ propertiesMatch(graph.nodes[id], expectedProperties(graph, row, pattern.properties))

relationshipPatternMatches(graph, row, id, pattern) ==
    /\ HasType(graph.edges[id], pattern.types)
    /\ propertiesMatch(graph.edges[id], expectedProperties(graph, row, pattern.properties))

CanBind(row, name, value) == name = "" \/ name \notin DOMAIN row \/ row[name] = value

Bind(row, name, value) == IF name = "" THEN row ELSE With(row, name, value)

-----------------------------------------------------------------------------
(* Candidates for the first node of a pattern.                             *)

BoundCandidates(graph, row, pattern) ==
    IF row[pattern.variable][1] # "node" THEN {}
    ELSE {id \in {row[pattern.variable][2]} : nodePatternMatches(graph, row, id, pattern)}

IsBound(row, pattern) == pattern.variable # "" /\ pattern.variable \in DOMAIN row

\* The nodes a pattern admits, found without an index.
AllCandidates(graph, row, pattern) ==
    IF IsBound(row, pattern) THEN BoundCandidates(graph, row, pattern)
    ELSE {id \in DOMAIN graph.nodes : nodePatternMatches(graph, row, id, pattern)}

\* The entries of the label and property indexes that the pattern selects.  An
\* entry nobody filed anything under does not exist and selects nothing.
IndexEntries(graph, row, pattern) ==
    LET expected == expectedProperties(graph, row, pattern.properties)
        labelled == {{id \in DOMAIN graph.nodes : l \in graph.nodes[id].labels} :
                         l \in {pattern.labels[i] : i \in DOMAIN pattern.labels}}
        keyed == {{id \in DOMAIN graph.nodes :
                       /\ property(graph.nodes[id], k) # Null
                       /\ valueKey(property(graph.nodes[id], k)) = valueKey(expected[k])} :
                   k \in {j \in DOMAIN expected : ~number(expected[j])}}
    IN  (labelled \cup keyed) \ {{}}

\* candidateNodes: the smallest index entry, filtered.  Which of two entries of
\* one size is taken depends on map order; CHOOSE stands for either.
candidateNodes(graph, row, pattern) ==
    LET entries == IndexEntries(graph, row, pattern)
        smallest == CHOOSE e \in entries : \A f \in entries : Cardinality(e) <= Cardinality(f)
        all == AllCandidates(graph, row, pattern)
    IN  IF IsBound(row, pattern) \/ entries = {} THEN all ELSE all \cap smallest

-----------------------------------------------------------------------------
(* Trails.                                                                 *)

Outgoing(direction) == direction \in {"outgoing", "undirected"}
Incoming(direction) == direction \in {"incoming", "undirected"}

adjacentEdges(graph, id, direction) ==
    {<<e, graph.edges[e].to>> : e \in {x \in DOMAIN graph.edges :
                                        Outgoing(direction) /\ graph.edges[x].from = id}}
    \cup
    {<<e, graph.edges[e].from>> : e \in {x \in DOMAIN graph.edges :
                                        Incoming(direction) /\ graph.edges[x].to = id}}

lower(length) == IF length = <<>> THEN 1 ELSE length[1]
upper(length, unbounded) ==
    CASE length = <<>> -> 1 [] Len(length) = 1 -> unbounded [] OTHER -> length[2]

\* The relationships of a trail, which it may not take again.
Edges(path) == {path.edges[i] : i \in DOMAIN path.edges}

End(path) == path.nodes[Len(path.nodes)]

Along(path, step) ==
    [nodes |-> Append(path.nodes, step[2]), edges |-> Append(path.edges, step[1])]

RelationshipValue(pattern, base, path) ==
    IF pattern.length = <<>> THEN EdgeValue(path.edges[Len(path.edges)])
    ELSE EdgeList(SubSeq(path.edges, Len(base.edges) + 1, Len(path.edges)))

\* The steps that walk may take from the end of a path.
Steps(graph, row, pattern, path) ==
    {s \in adjacentEdges(graph, End(path), pattern.direction) :
        /\ s[1] \notin Edges(path)
        /\ relationshipPatternMatches(graph, row, s[1], pattern)
        /\ s[2] \in DOMAIN graph.nodes}

\* walk: the paths that extend base by as many relationships as the length of
\* the pattern allows, depth by depth.
walk(graph, row, pattern, base) ==
    LET longest == upper(pattern.length, Cardinality(DOMAIN graph.edges))
        paths[depth \in 0..longest] ==
            IF depth = 0 THEN {base}
            ELSE UNION {{Along(p, s) : s \in Steps(graph, row, pattern, p)} : p \in paths[depth - 1]}
    IN  UNION {paths[depth] : depth \in lower(pattern.length)..longest}

\* The matches that continue match through relationship i: where the walk may
\* stop, its end and its relationships are bound.
Through(graph, element, i, match) ==
    LET pattern == element.edges[i]
        target == element.nodes[i + 1]
        bound(path) == Bind(match.row, target.variable, NodeValue(End(path)))
        value(path) == RelationshipValue(pattern, match.path, path)
        stops(path) == /\ nodePatternMatches(graph, match.row, End(path), target)
                       /\ CanBind(match.row, target.variable, NodeValue(End(path)))
                       /\ CanBind(bound(path), pattern.variable, value(path))
    IN  {[row |-> Bind(bound(path), pattern.variable, value(path)), path |-> path] :
            path \in {p \in walk(graph, match.row, pattern, match.path) : stops(p)}}

\* extendPattern: the matches that continue those of the first node through
\* every relationship of the element.
extendPattern(graph, element, first) ==
    LET matches[i \in 0..Len(element.edges)] ==
            IF i = 0 THEN first
            ELSE UNION {Through(graph, element, i, m) : m \in matches[i - 1]}
    IN  matches[Len(element.edges)]

\* matchPattern over one row, starting from the candidates that the caller has
\* found for the first node.
matchPattern(graph, row, element, candidates) ==
    LET first == element.nodes[1].variable IN
    extendPattern(graph, element,
        {[row |-> Bind(row, first, NodeValue(id)), path |-> [nodes |-> <<id>>, edges |-> <<>>]] :
            id \in {c \in candidates : CanBind(row, first, NodeValue(c))}})
=============================================================================
