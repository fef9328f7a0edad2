SPECIFICATION Spec
CONSTANTS
    Exact = 4
    MaxInteger = 11
    ShortestDigits <- Digits
    PredicateTerms = 2
    MaxEntities = 5
    MaxDepth = 3
    Workloads <- Cycles
INVARIANT ShortestIsGeneric
CHECK_DEADLOCK FALSE
