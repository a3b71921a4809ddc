SPECIFICATION WorkstationSpec
CONSTANTS
    Procs = {p1, p2}
    NoProc = NoProc
    g1 = g1
    g2 = g2
    c1 = c1
    Names = {g1}
    Conns = {c1}
    NoConn = NoConn
    Tasks <- Running
    NoTask = NoTask
    MaxFresh = 3
    MaxFaults = 1
    Categories = {"a", "root", "z"}
    Rank <- RankOf
    Root = "root"
    NoCategory = "none"
    Items = {"login", "key"}
    Kind <- KindOf
    MaxCommits = 3
    MaxRemote = 1
    Order <- Connections
    CredentialOf <- EntryOfEach
    EntryOrder <- VaultOrder
    GrantOn <- ConnectionOfEach
    Ranking <- Best
    MaxPresses = 3
    MaxChanges = 1
    Installer = Installer
    Direct = Direct
    Attempts = 2
    MaxEdits = 1
    MaxBackups = 2
CHECK_DEADLOCK FALSE
INVARIANTS
    BrokerServesTheVault
    EveryCategoryIsListed
    NothingLeftBehind
    ActedOnWhatWasShown
PROPERTIES
    LockIsHonoured
    CommandsKeepTheTree
    PasswordsAreKept
    OwnerLosesNothing
    SelectionIsKept
    QuittingEnds
