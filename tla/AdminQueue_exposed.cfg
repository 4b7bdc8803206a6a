SPECIFICATION Bounded
CONSTANTS
    Clients = {c1, c2, c3}
    Third = c3
    Isr = isr
    Depth = 2
    DevStatus <- OneStatus
    BadIds <- NoIds
    AutoPolling = FALSE
    MaxCmds = 3
    MaxInits = 1
SYMMETRY ClientSymmetry
INVARIANT CompletionIsCopied
