SPECIFICATION FairSpec
CONSTANTS
    Live = Live
    None = None
    Budgets <- ViewsAndForms
    TimelinePageSize = 1
INVARIANTS StaleIsMarked TimelineHasNoHole OpenFormIsLive
PROPERTIES LiveViewNeverRegresses SelectionIsTheUsers OnlyCompletedFormsRun CatchesUp
