SPECIFICATION CallSpec
CONSTANTS
    Attempts = {a1, a2, a3}
    NoAttempt = NoAttempt
    Keys = {k1, k2, k3}
    NoKey = NoKey
    MaxSlots = 2
    AnswerTtl = 3
    Linger = 2
    Wait = 1
    Grants <- AllGrants
    Arguments <- Calls
    ConnectTimeout = 2
    CALL_TIMEOUT = 25
    CALL_BUDGET = 22
    QUEUE_WAIT = 5
    WAIT = 15
    UPSTREAM_RESERVE = 5
    MIN_SEND = 1
    TIMEOUT = 20
    MaxSlow = 1
SYMMETRY Symmetric
INVARIANTS
    ApprovalIsAPersons
    WaiterCanBeAnswered
    BridgeIsHonest
PROPERTIES
    LateAnswerIsHonoured
    PromiseKept
    TakenIsListed
    TimeIsEnough
