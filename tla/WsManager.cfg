SPECIFICATION LogSpec
CONSTANTS
    Clients = {c1, c2, c3}
    Events = {e1, e2}
    HistoryMax = 2
    ReplayMax = 1
INVARIANTS
    LoggedIsTold
    MissedAtMostRemoved
    NoGap
SYMMETRY ClientSymmetry
CHECK_DEADLOCK FALSE
