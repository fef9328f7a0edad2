---------------------------- MODULE MCReadQuery -----------------------------
(* Small revisions and the query shapes that take each loading strategy.   *)
EXTENDS ReadQuery, TLC

Node(labels, properties) == [labels |-> labels, properties |-> properties]
Edge(from, to, type, properties) == [from |-> from, to |-> to, type |-> type, properties |-> properties]

N(variable, labels, properties) == [variable |-> variable, labels |-> labels, properties |-> properties]
R(variable, types, direction, length, properties) ==
    [variable |-> variable, types |-> types, direction |-> direction, length |-> length, properties |-> properties]

One(node) == [nodes |-> <<node>>, edges |-> <<>>]
Hop1(a, r, b) == [nodes |-> <<a, b>>, edges |-> <<r>>]
Hop2(a, r, b, t, c) == [nodes |-> <<a, b, c>>, edges |-> <<r, t>>]

ClauseOf(kind, patterns, optional, where, keep) ==
    [kind |-> kind, patterns |-> patterns, optional |-> optional, where |-> where, keep |-> keep]
Match(patterns) == ClauseOf("match", patterns, FALSE, <<>>, {})
OptionalMatch(patterns) == ClauseOf("match", patterns, TRUE, <<>>, {})
MatchWhere(patterns, variable, value) ==
    ClauseOf("match", patterns, FALSE, <<[variable |-> variable, key |-> 1, value |-> value]>>, {})
WithOnly(keep) == ClauseOf("with", <<>>, FALSE, <<>>, keep)

Return(clauses) == [branches |-> <<clauses>>, count |-> FALSE, shortest |-> <<>>]
ReturnCount(clauses) == [branches |-> <<clauses>>, count |-> TRUE, shortest |-> <<>>]
UnionAll(first, second) == [branches |-> <<first, second>>, count |-> FALSE, shortest |-> <<>>]
Shortest(clauses, element) == [branches |-> <<clauses>>, count |-> FALSE, shortest |-> <<element>>]

None == NoProperties
Anyone == N("", <<>>, None)
To(direction) == R("", <<>>, direction, <<>>, None)

-----------------------------------------------------------------------------
\* Three nodes and three edges between any of them.
Shapes ==
    LET nodes == <<Node({"A"}, (1 :> Integer(1))), Node({"B"}, (1 :> Float(1))), Node({"A", "B"}, None)>>
        edges(e) == <<Edge(e[1][1], e[1][2], "R", None),
                      Edge(e[2][1], e[2][2], "S", (1 :> Integer(1))),
                      Edge(e[3][1], e[3][2], "R", (1 :> Float(2)))>>
        pairs == (1..3) \X (1..3)
    IN  {[nodes |-> nodes, edges |-> edges(e)] :
            e \in {x \in pairs \X pairs \X pairs : x[1][1] = 1}}

a == N("a", <<"A">>, None)
b == N("b", <<>>, None)
PathQueries == <<
    Return(<<Match(<<Hop1(a, To("outgoing"), b)>>)>>),
    Return(<<Match(<<Hop2(a, R("r", <<"R">>, "undirected", <<>>, None), N("", <<"B">>, None),
                          To("incoming"), a)>>)>>),
    \* expansions that run dry before their last level, or never begin
    Return(<<Match(<<Hop1(a, R("r", <<"R">>, "outgoing", <<1, 3>>, None), N("b", <<"B">>, None))>>)>>),
    Return(<<Match(<<Hop1(N("a", <<"C">>, None), R("", <<>>, "outgoing", <<0, 2>>, None), b)>>)>>),
    \* a bounded length from 0, the far end tied to an earlier variable
    Return(<<Match(<<Hop1(a, R("r", <<>>, "undirected", <<0, 2>>, None), N("b", <<"B">>, None)),
                     Hop1(b, To("outgoing"), N("", <<>>, (1 :> <<"a", 1>>)))>>)>>),
    ReturnCount(<<Match(<<Hop1(N("", <<>>, (1 :> <<Integer(1)>>)),
                               R("", <<"R", "S", "Q">>, "undirected", <<2, 3>>, None), b)>>)>>),
    \* a property of relationships, in another representation than stored
    Return(<<Match(<<Hop1(b, R("", <<>>, "undirected", <<1, 2>>, (1 :> <<Float(1)>>)), Anyone)>>)>>),
    Return(<<Match(<<One(a)>>), OptionalMatch(<<Hop1(a, To("incoming"), N("b", <<"B">>, None)),
                                                Hop1(b, R("", <<>>, "outgoing", <<2, 2>>, None), a)>>)>>),
    \* WITH drops b, so the second (b) is another variable
    Return(<<Match(<<Hop1(a, To("outgoing"), b)>>), WithOnly({"a"}), Match(<<Hop1(b, To("outgoing"), a)>>)>>),
    Return(<<Match(<<Hop1(a, R("", <<"R">>, "outgoing", <<1>>, None), b)>>)>>),
    \* beyond the depth budget
    Return(<<Match(<<Hop1(a, R("", <<>>, "outgoing", <<1, 4>>, None), b)>>)>>)>>

Ends == <<Match(<<One(a)>>), Match(<<One(N("b", <<"B">>, None))>>)>>
Long(types, direction, least) == R("", types, direction, <<least>>, None)
ShortestQueries == <<
    Shortest(Ends, Hop1(N("a", <<>>, None), Long(<<>>, "outgoing", 1), N("b", <<>>, None))),
    Shortest(Ends, Hop1(N("a", <<>>, None), Long(<<>>, "undirected", 0), N("b", <<>>, None))),
    Shortest(Ends, Hop1(N("a", <<>>, None), R("", <<>>, "undirected", <<1, 2>>, None), N("b", <<>>, None))),
    Shortest(Ends, Hop1(N("a", <<>>, None), Long(<<>>, "undirected", 2), N("b", <<>>, None))),
    Shortest(<<>>, Hop1(N("", <<"A">>, None), Long(<<>>, "outgoing", 1), N("", <<"B">>, None))),
    Shortest(<<Match(<<One(a)>>)>>, Hop1(N("a", <<>>, None), Long(<<>>, "incoming", 1), N("a", <<>>, None)))>>

\* An undirected cycle back to where it starts.
CycleQueries == <<
    Shortest(<<Match(<<One(a)>>)>>, Hop1(N("a", <<>>, None), Long(<<>>, "undirected", 1), N("a", <<>>, None)))>>

-----------------------------------------------------------------------------
\* Two nodes with every pair of values, and every value asked for.
Scalars == <<Null, Integer(0), Integer(1), Integer(4), Integer(5), Float(0), Float(1), Float(4), Float(12),
             NegativeZero, NaN, Text(1), List(Integer(0)), List(Float(0)), List(NegativeZero),
             List(Integer(4)), List(Float(4)), List(Integer(8)), List(Float(8))>>

\* The digits 9 stand for every number that rounds to the float 8.
Digits(n) == IF n = 8 THEN 9 ELSE n

Valued(v) == IF v = Null THEN (2 :> Text(1)) ELSE (1 :> v) @@ (2 :> Text(1))
Values ==
    {[nodes |-> <<Node({"A"}, Valued(Scalars[p[1]])), Node({"B"}, Valued(Scalars[p[2]]))>>, edges |-> None] :
        p \in {q \in (DOMAIN Scalars) \X (DOMAIN Scalars) : q[1] <= q[2]}}

With1(v) == N("n", <<>>, (1 :> <<v>>))
ValueQueries ==
    [i \in DOMAIN Scalars |-> ReturnCount(<<Match(<<One(With1(Scalars[i]))>>)>>)]
    \o [i \in DOMAIN Scalars |-> Return(<<Match(<<One(N("n", <<>>, (2 :> <<Text(1)>>))), One(With1(Scalars[i]))>>)>>)]
    \o [i \in DOMAIN Scalars |-> UnionAll(<<Match(<<One(With1(Scalars[i]))>>)>>,
                                          <<MatchWhere(<<One(N("m", <<"B">>, None))>>, "m", Scalars[i])>>)]

\* More labels and properties than one predicate takes, and a body (key 0).
Wide ==
    {[nodes |-> <<Node(l, (0 :> Text(t)) @@ (1 :> Float(1)) @@ (2 :> Text(1)) @@ (3 :> Text(t)))>>, edges |-> None] :
        l \in SUBSET {"A", "B", "C"}, t \in 1..2}

WideNode == N("n", <<"A", "B", "C">>, None)
WideKeys == N("n", <<"A">>, (1 :> <<Integer(1)>>) @@ (2 :> <<Text(1)>>) @@ (3 :> <<Text(1)>>))
WideQueries == <<
    ReturnCount(<<Match(<<One(WideNode)>>)>>), ReturnCount(<<Match(<<One(WideKeys)>>)>>),
    Return(<<Match(<<One(WideKeys)>>)>>), ReturnCount(<<Match(<<One(N("n", <<>>, (0 :> <<Text(1)>>)))>>)>>)>>

AllWorkloads == <<
    [graphs |-> Shapes, queries |-> PathQueries \o ShortestQueries],
    [graphs |-> Values, queries |-> ValueQueries],
    [graphs |-> Wide, queries |-> WideQueries]>>

Cycles == <<[graphs |-> Shapes, queries |-> CycleQueries]>>
=============================================================================
