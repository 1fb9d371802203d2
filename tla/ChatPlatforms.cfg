SPECIFICATION PlatformsSpec
CONSTANTS
    Requests = {r1, r2}
    MaxClients = 3
    NoClient = NoClient
    Setups = {s1, s2}
    NoApp = NoApp
    Mentions = {d1, d2}
    Posts = {p1}
    PoolSize = 1
    ChunkMax = 2
    TextMax = 5
    Answers <- MCAnswers
INVARIANTS
    RepliesAreWhole
    ConnectedIsReady
    LiveIsKnown
    RunningIsPolling
PROPERTIES
    EveryMentionIsHandled
CHECK_DEADLOCK FALSE
