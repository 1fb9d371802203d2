SPECIFICATION Spec
CONSTANTS
    NumProviders = 2
    Requests = {r1, r2}
    MaxRetries = 2
    FailureThreshold = 1
    HalfOpenMaxCalls = 1
INVARIANTS
    MetricsAccountForRequests
    UsableIsTried
PROPERTIES
    ImplementsBreaker
    EveryRequestEnds
CHECK_DEADLOCK FALSE
