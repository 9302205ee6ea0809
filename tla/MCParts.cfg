SPECIFICATION PartsSpec
CONSTANTS
    Calls = {c1, c2}
    LastScope = 2
    MaxConnections = 2
    MaxSubs = 2
    MaxActive = 1
    MaxInbox = 2
    Every = 2
    MaxLog = 3
    Agents = {a1, a2}
    Files = {f1, f2}
    Texts = {"x", "y"}
    Budget = 1
    MaxWrites = 1
    MaxLost = 1
    Requests = {r1, r2, r3}
    Pids = {1, 2, 3}
    MaxRestarts = 1
    WatchIds = {w1, w2}
    MaxReports = 2
    Sessions = {s1, s2}
    Slots = 1
    Engines = {"root", "a", "b"}
    DepthOf <- MCDepthOf
    Capacity = 1
    Depths <- MCDepths
    MaxTickets = 4
    MaxTurns = 1
    MaxRetries = 1
    Fanout = 2
    MaxBranches = 3
    MaxMessages = 8
    Limited = FALSE
    MaxAttempts = 2
    MaxCompactions = 1
    MaxPrompts = 2
    MaxLength = 5
    PageSize = 2
    MaxLines = 4
    Servers = {1, 2}
    Tools = {1, 2, 3}
    Cursors = {"c", "d"}
    Queries = {1, 2}
    Score <- MCScore
    MaxPages = 2
    MaxSize = 4
INVARIANTS
    NoStrayOperation
    BlocksAreWhole
    HistoryAgrees
    BatchesAreWhole
    NoDrift
    
    ReportsAreHeard
    SessionsAreCleared
    CapAndPermits
    RequestsAreWhole
    HistoryIsWhole
    ToolsAreWhole
CHECK_DEADLOCK FALSE
