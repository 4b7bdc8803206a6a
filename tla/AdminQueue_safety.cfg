SPECIFICATION Bounded
CONSTANTS
    Clients = {c1, c2, c3}
    Third = c3
    Isr = isr
    Depth = 2
    DevStatus <- TwoStatuses
    BadIds <- OneBadId
    AutoPolling = FALSE
    MaxCmds = 3
    MaxInits = 2
SYMMETRY ClientSymmetry
INVARIANTS
    TypeOK
    ResponseIsOwn
    StrayOnlyAfterGivingUp
    NoUseAfterFree
    ContextsOwned
    OneScanner
    RingsInStep
PROPERTIES
    ExecutesAdminCommands
