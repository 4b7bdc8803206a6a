SPECIFICATION BusyFairSpec
CONSTANTS
    Clients = {c1, c2}
    Third = c3
    Isr = isr
    Depth = 2
    DevStatus <- OneStatus
    BadIds <- NoIds
    AutoPolling = TRUE
    MaxCmds = 3
    MaxInits = 1
PROPERTIES
    EveryCallReturns
    TearDownEnds
