SPECIFICATION Spec
CONSTANTS
    w1 = w1
    w2 = w2
    t1 = t1
    t2 = t2
    NoTask = NoTask
    Workers <- MCWorkers
    Tasks <- MCTasks
    Type <- MCType
    Priority <- MCPriority
    Capabilities <- MCCapabilities
    MaxFaults = 2
INVARIANTS
    AtMostOnce
    OutcomeIsTrue
PROPERTIES
    PendingIsClaimed
    ClaimedIsFinished
