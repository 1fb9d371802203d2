SPECIFICATION RoutingSpec
CONSTANTS
    NumProviders = 1
    Requests = {r1, r2, r3, r4}
    MaxRetries = 1
    FailureThreshold = 1
    HalfOpenMaxCalls = 1
PROPERTIES
    OpenCircuitRejects
CHECK_DEADLOCK FALSE
