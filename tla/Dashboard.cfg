SPECIFICATION DashboardSpec
CONSTANTS
    MaxTasks = 3
    Items = {i1, i2}
    Fresh = 2
    Interval = 4
    Loops = {l1, l2}
    MaxSteps = 2
    MaxPlanned = 3
    Workers = 1
    Silent = {l1}
INVARIANTS
    OnlyOneNow
    PendingIsAnnounced
    CompletedMeansAllSteps
PROPERTIES
    FocusIsKept
    PromotionFillsPlaces
    EveryLoopEnds
CHECK_DEADLOCK FALSE
