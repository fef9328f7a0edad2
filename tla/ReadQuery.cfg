SPECIFICATION FairSpec
CONSTANTS
    Exact = 4
    MaxInteger = 11
    ShortestDigits <- Digits
    PredicateTerms = 2
    MaxEntities = 5
    MaxDepth = 3
    Workloads <- AllWorkloads
INVARIANTS TypeOK WorkingSetIsEnough CountIsExact ShortestPathsAreAllShortest
PROPERTY QueryEnds
CHECK_DEADLOCK FALSE
