SPECIFICATION ChatsSpec
CONSTANTS
    Browser = {b1, b2}
    Mobile = {c1}
    Names = {n1, n2}
    NoName = NoName
    NoModelName = NoModelName
    NoChat = NoChat
    Workers = 1
    MaxEdits = 1
    Consults = {q1, q2}
    GrokPages = {p1}
    ClaudeChats = {a1, a2, a3}
    NoBackend = NoBackend
    Context = 2
    Kept = 4
    m1 = m1
    m2 = m2
    m3 = m3
    Models = {m1, m2, m3}
    Seeing = {m2, m3}
    OllamaModel = m1
    VisionChain <- MCVisionChain
    FallbackChain <- MCFallbackChain
INVARIANTS
    LogIsExchanges
    MemoryIsWhole
    ContextIsConversation
    ImageIsSeen
PROPERTIES
    EveryChatIsAnswered
CHECK_DEADLOCK FALSE
