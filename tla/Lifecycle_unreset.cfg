SPECIFICATION Spec
CONSTANTS
    Operations <- OneLife
    MaxOps = 2
    MaxRequests = 2
    MaxFailures = 1
CHECK_DEADLOCK FALSE
INVARIANTS
    ResetBeforeFree
