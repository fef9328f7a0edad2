SPECIFICATION PagingSpec
CONSTANTS
    s1 = s1
    s2 = s2
    n1 = n1
    n2 = n2
    Free = Free
    Gone = Gone
    MaxId = 3
    Scalars = {s1, s2}
    Nesteds = {n1, n2}
    Batches <- LoadChangeDelete
    Predicates <- AllPredicates
    Limits = {0, 1, 4}
    DefaultPageSize = 2
    MaxPageSize = 3
    MaxRevision = 3
    MaxTime = 3
    MaxSwaps = 1
    WalkRevisions = 6
    WalkLimits = {1, 2, 3}
    DigitLimits <- ScaledDigits
    MaxMillis = 3
INVARIANTS PagesAreOneSnapshot NoEntityTwice CountAgrees ContinuationAccepted
           WalkIsExact IdsIncrease
PROPERTY ListingEnds
