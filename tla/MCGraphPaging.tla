--------------------------- MODULE MCGraphPaging ----------------------------
(* Three entities with two scalar and two nested contents each.            *)
EXTENDS GraphPaging, TLC

CONSTANTS s1, s2, n1, n2

Both(x, y) == [scalar |-> x, nested |-> y]

\* A first batch that fills the table, later ones that change, delete and add.
LoadChangeDelete ==
    {(1 :> Both(s1, n1)) @@ (2 :> Both(s1, n2)) @@ (3 :> Both(s1, n1)),
     (1 :> Both(s1, n2)) @@ (3 :> Both(s2, n1)),
     1 :> Both(s2, n2), 2 :> Both(s1, n1), 2 :> Gone, 3 :> Gone, 3 :> Both(s1, n1)}

AllPredicates ==
    {Both(Free, Free), Both(s1, Free), Both(Free, n1), Both(s1, n1)}
=============================================================================
