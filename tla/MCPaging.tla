------------------------------ MODULE MCPaging ------------------------------
(***************************************************************************)
(* The two kinds of paged reading a store offers, each against writers of  *)
(* its own: a client lists entities (GraphPaging) or walks the revision    *)
(* history (HistoryWalk).  The keys of a listing are the identifiers that  *)
(* a third client generates (EntityIds).  None reads what another keeps,   *)
(* so a behaviour has one of them.                                         *)
(***************************************************************************)
EXTENDS MCGraphPaging, Sequences

CONSTANTS WalkRevisions,  \* bound: commits during a walk of the history
          WalkLimits,     \* page limits of such a walk
          DigitLimits,    \* largest digits of an identifier's payload
          MaxMillis       \* bound on the clock of the generator

\* One digit for each of the bytes 6, 7 and 8 and two for 9 to 15, scaled down;
\* byte 7 is a whole byte between two that are not.
ScaledDigits == <<1, 2, 1, 1, 1>>

ASSUME WalkAssumption == WalkRevisions \in Nat /\ WalkLimits \subseteq Nat \ {0}
ASSUME DigitAssumption == MaxMillis \in Nat /\ DigitLimits \in Seq(Nat) /\ Len(DigitLimits) >= 2

VARIABLES client,  \* what this client does
          sealed,  \* HistoryWalk: number of committed revisions
          walk,    \* HistoryWalk: the walk
          wall,    \* EntityIds: the clock
          last,    \* EntityIds: the last identifier
          issued   \* EntityIds: whether there is one

History == INSTANCE HistoryWalk WITH MaxRevision <- WalkRevisions, Limits <- WalkLimits
Identifiers == INSTANCE EntityIds WITH Limits <- DigitLimits, clock <- wall, set <- issued

allVars == <<vars, client, sealed, walk, wall, last, issued>>

PagingInit == Init /\ History!Init /\ Identifiers!Init /\ client \in {"graph", "history", "ids"}

ListGraph == client = "graph" /\ Next /\ UNCHANGED <<client, sealed, walk, wall, last, issued>>
WalkHistory == client = "history" /\ History!Next /\ UNCHANGED <<vars, client, wall, last, issued>>
GenerateIds == client = "ids" /\ Identifiers!Next /\ UNCHANGED <<vars, client, sealed, walk>>

\* The fairness is that of GraphPaging.
PagingSpec ==
    /\ PagingInit /\ [][ListGraph \/ WalkHistory \/ GenerateIds]_allVars
    /\ WF_vars(Resolve) /\ WF_vars(Scan)

-----------------------------------------------------------------------------
\* A history walk skips no revision and reports none on two pages, whatever is
\* committed meanwhile.
WalkIsExact == History!WalkHasNoGap /\ History!NoRevisionTwice

\* A process generates identifiers in increasing order, whatever its clock does.
IdsIncrease == Identifiers!IdsIncrease
=============================================================================
