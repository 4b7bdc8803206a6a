SPECIFICATION Bounded
CONSTANTS
    RingSize = 3
    SglSize = 2
    Pages = {p1, p2, p3}
    NoPage = none
    CacheSize = 2
    Budget = 1
    Modes = {"plain", "lpc", "xdp"}
    MaxHeld = 2
    MaxFailures = 1
    MaxFaults = 1
SYMMETRY Symmetry
CHECK_DEADLOCK FALSE
INVARIANTS
    TypeOK
    BuffersAccounted
    OneOwner
    RefsAccounted
