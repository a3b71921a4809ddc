SPECIFICATION BridgeSpec
CONSTANTS
    Grants <- AllGrants
    Arguments <- BodyCalls
    ConnectTimeout = 2
    CALL_TIMEOUT = 25
    CALL_BUDGET = 22
    QUEUE_WAIT = 5
    WAIT = 15
    UPSTREAM_RESERVE = 5
    MIN_SEND = 1
    TIMEOUT = 20
    MaxSlow = 1
PROPERTY
    ListedIsTaken
