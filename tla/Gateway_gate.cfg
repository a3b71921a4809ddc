SPECIFICATION Spec
CONSTANTS
    Attempts = {a1, a2}
    NoAttempt = NoAttempt
    c1 = c1
    c2 = c2
    i1 = i1
    h1 = h1
    h2 = h2
    Caps = {c1}
    Ids = {i1}
    NoId = NoId
    Hashes = {h1}
    NoHash = NoHash
    Shapes <- WriteRead
    NoShape = NoShape
    MaxCalls <- Uncapped
    Rpm <- Plenty
    Gated <- AllGate
    MaxQueued = 2
    JournalCap = 2
    MaxRestarts = 0
SYMMETRY Symmetric
CHECK_DEADLOCK FALSE
INVARIANTS
    GatedNeedsAYes
    WithdrawnIsStopped
PROPERTIES
    ApprovalsUsedAsPromised
