SPECIFICATION LiveSpec
CONSTANTS
    Operations <- Everything
    MaxOps = 2
    MaxRequests = 2
    MaxFailures = 1
CHECK_DEADLOCK FALSE
INVARIANTS
    TypeOK
    DeviceIsWatched
    StoppedIsQuiet
    UpWithOpen
    RequestIsWhole
PROPERTIES
    ResetHappens
