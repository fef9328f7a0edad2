SPECIFICATION Spec
CONSTANTS
    NodeIds = {n1, n2}
    EdgeIds = {e1}
    NodeValues = {v1, v2}
    Types = {"CHILD", "LINK"}
    NoPosition = NoPosition
    Positions = {NoPosition}
    EdgeProperties = {p1}
    MaxRevision = 3
    MaxTime = 2
    Clock = {0}
INVARIANTS IntegrityHolds TriggersNeverAbort
PROPERTIES HistoryImmutable CommitKeepsBatch PartialNeverCommitted ImplementsGraphHistory
SYMMETRY Symmetry
