SPECIFICATION Spec
CONSTANTS
    NodeIds = {n1, n2, n3}
    EdgeIds = {e1, e2, e3}
    NodeValues = {v1}
    Types = {"CHILD"}
    NoPosition = NoPosition
    Positions = {NoPosition, p0}
    EdgeProperties = {p1}
    MaxRevision = 2
    MaxTime = 1
    Clock = {0, 1}
INVARIANTS IntegrityHolds TriggersNeverAbort
SYMMETRY Symmetry
