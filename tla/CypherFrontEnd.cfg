SPECIFICATION Spec
CONSTANTS
    Half = 8
    MaxSource = 3
INVARIANTS
    NoChoiceIgnored
    NothingDropped
    LiteralIsExact
    EveryStatementAnswered
CHECK_DEADLOCK FALSE
