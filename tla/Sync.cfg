SPECIFICATION SyncSpec
CONSTANTS
    Device = {d1, d2}
    Origin = d1
    Heavy = {2}
    PageSize = 1
    MaxSegments = 2
    MaxFiles = 2
    MaxRuns = 2
    MaxEvents = 2
    MaxExports = 5
    Machine = {d1, d2}
    Maker = d1
    MaxCopies = 4
    MaxMoves = 3
CHECK_DEADLOCK FALSE
INVARIANTS
    NothingJumped
    ReceivedIsHeld
    OneSegmentPerName
    NoEditLeftBehind
PROPERTIES
    TreesConverge
    NothingOverwritten
    SharedFilesConverge
