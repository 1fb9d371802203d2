SPECIFICATION PaperclipSpec
CONSTANTS
    Issues = {i1, i2, i3}
    Loops = {l1}
    NoIssue = NoIssue
    MaxUnclosed = 1
    Routes = {q1, q2, q3}
    Agents = {a1, a2}
    NoAgent = NoAgent
    Tickets = {k1, k2}
    NoTicket = NoTicket
INVARIANTS
    OkIsTrue
    DoneMeansHandled
    RepeatedOnlyIfUnclosed
PROPERTY StopEndsLoops
CHECK_DEADLOCK FALSE
