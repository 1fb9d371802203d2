CONSTANTS
    Names = {n1, n2}
    Agents = {a1, a2}
    Roles = {"general", "reward"}
    NoModel = NoModel
    Entries = {e1, e2, e3}
    Texts = {t1, t2}
    Short = {t2}
    Salts = {s1, s2}
    Library = lib
    KeepFacts = TRUE
    Limit = 1
    Factor = 2
    Topics = {{q1}, {q1, q2}}
    Prompts = {p1}
    Facts = {f1, f2, f3}
    FactReaders = {r1, r2}
    MaxMemories = 3
    RecentMax = 1
    RecallMax = 1
    FactMax = 2
    MaxReads = 2
    Engines = {g1, g2}
    Thought = {h1, h2, h3, h4}
    NoThought = NoThought
    MaxDepth = 3

SPECIFICATION StoresSpec
SYMMETRY StoresSymmetry
INVARIANTS
    RestartKeepsModelsInUse
    WrittenIsFound
    KnownIsInContext
    EveryAccessCounts
    ChainsGoOn
CHECK_DEADLOCK FALSE
