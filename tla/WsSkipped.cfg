SPECIFICATION Spec
CONSTANTS
    Clients = {c1, c2}
    Events = {e1}
    HistoryMax = 1
    ReplayMax = 1
INVARIANTS
    AllConnectedReceive
CHECK_DEADLOCK FALSE
