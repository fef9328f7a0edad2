---------------------------- MODULE RevisionPages ---------------------------
(***************************************************************************)
(* ListRevisionPage: one page of the committed revisions, oldest or newest *)
(* first, and the cursor that continues it.  Sealed revisions are numbered *)
(* 1..n without gaps, so n is all that a page depends on besides its       *)
(* cursor.                                                                 *)
(***************************************************************************)
EXTENDS Integers, FiniteSets

Orders == {"ascending", "descending"}

\* A cursor is bound to its order; boundary 0 is no cursor at all.
CursorOf(order, boundary) == [order |-> order, boundary |-> boundary]

Start(order) == CursorOf(order, 0)

\* decodeRevisionCursor refuses a cursor of the other order.
CursorAccepted(cursor, order) == cursor.boundary = 0 \/ cursor.order = order

\* Mutated: the boundary row is read again.
BeyondInclusive(n, order, boundary) ==
    {r \in 1..n : IF order = "ascending" THEN r >= boundary ELSE boundary = 0 \/ r <= boundary}

\* WHERE revision > ? or revision < ?; a first descending page has no bound.
Beyond(n, order, boundary) ==
    {r \in 1..n : IF order = "ascending" THEN r > boundary ELSE boundary = 0 \/ r < boundary}

Before(order, r, s) == IF order = "ascending" THEN r < s ELSE r > s

\* ORDER BY revision ... LIMIT k
Take(S, order, k) == {r \in S : Cardinality({s \in S : Before(order, s, r)}) < k}

\* limit + 1 rows are read; the surplus row only says that there is more, and
\* the cursor then names the last row kept.
RevisionPage(n, order, boundary, limit) ==
    LET infos == Take(Beyond(n, order, boundary), order, limit + 1)
        more == Cardinality(infos) > limit
        page == IF more THEN Take(infos, order, limit) ELSE infos
    IN [revisions |-> page,
        next |-> IF more
                 THEN CHOOSE r \in page : \A s \in page : r = s \/ Before(order, s, r)
                 ELSE 0]
=============================================================================
