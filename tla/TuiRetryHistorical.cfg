SPECIFICATION Spec
CONSTANTS
    Live = Live
    None = None
    Budgets <- Retries
    TimelinePageSize = 1
PROPERTY MutationsOnlyWhenLive
