SPECIFICATION SparkSpec
CONSTANTS
    Agents = {a1, a2}
    Tasks = {t1}
    Bids = {30, 110}
    NoAgent = NoAgent
    NoTask = NoTask
    NoBid = NoBid
    RecentLimit = 4
    WideLimit = 5
    MinEvents = 3
    MinOutcomes = 2
    MinAdvice = 3
    MinBids = 2
    MaxEvents = 5
INVARIANTS
    StrugglingIsWarned
PROPERTIES
    MemoryAgreesWithAdvice
SYMMETRY AgentSymmetry
CHECK_DEADLOCK FALSE
