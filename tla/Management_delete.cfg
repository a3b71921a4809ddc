SPECIFICATION Spec
CONSTANTS
    Procs = {p1}
    NoProc = NoProc
    g1 = g1
    g2 = g2
    c1 = c1
    Names = {g1}
    Conns = {c1}
    NoConn = NoConn
    Tasks <- Deleting
    NoTask = NoTask
    MaxFresh = 2
    MaxFaults = 1
CHECK_DEADLOCK FALSE
INVARIANTS
    NoGrantOfADeletedToken
