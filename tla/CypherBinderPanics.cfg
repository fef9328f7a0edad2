SPECIFICATION Spec
CONSTANTS
    Half = 8
    MaxSource = 3
INVARIANT BinderNeverPanics
CHECK_DEADLOCK FALSE
