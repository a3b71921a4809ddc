SPECIFICATION ProcessesSpec
CONSTANTS
    Procs = {p1, p2}
    NoProc = NoProc
    g1 = g1
    g2 = g2
    c1 = c1
    Names = {g1, g2}
    Conns = {c1}
    NoConn = NoConn
    Tasks <- TwoGrants
    NoTask = NoTask
    MaxFresh = 3
    MaxFaults = 2
    h1 = h1
    h2 = h2
    i0 = i0
    i1 = i1
    d1 = d1
    d2 = d2
    Hosts = {h1, h2}
    NoHost = NoHost
    Ids = {i1}
    OldId = i0
    Databases = {d1, d2}
    NoDb = NoDb
    VaultOf <- VaultOfEach
    Limit = 1
SYMMETRY Symmetric
CHECK_DEADLOCK FALSE
INVARIANTS
    RevokedStaysRevoked
    GrantsKeepTheirToken
    AnsweredGrantsKeepTheirFile
    OnceWhereMeant
PROPERTIES
    TruthfulReplies
