SPECIFICATION Spec
CONSTANTS
    Attempts = {a1, a2}
    NoAttempt = NoAttempt
    c1 = c1
    c2 = c2
    i1 = i1
    h1 = h1
    h2 = h2
    Caps = {c1, c2}
    Ids = {i1}
    NoId = NoId
    Hashes = {h1, h2}
    NoHash = NoHash
    Shapes <- Mixed
    NoShape = NoShape
    MaxCalls <- FirstCappedAtOne
    Rpm <- OneAMinute
    Gated <- NoGate
    MaxQueued = 0
    JournalCap = 1
    MaxRestarts = 1
SYMMETRY Symmetric
CHECK_DEADLOCK FALSE
VIEW FilesView
INVARIANTS
    AtMostOnce
    BudgetHolds
    SentIsOnRecord
    RepliesAreHonest
