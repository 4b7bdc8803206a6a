SPECIFICATION BothSpec
CONSTANTS
    CPUs = {cpu1, cpu2}
    Budget = 1
    MaxPosted = 2
    MaxLost = 1
    Pages = {p1, p2}
    NoPage = none
INVARIANTS
    TypeOK
    NeverLeftMasked
PROPERTIES
    CompletionsAreHandled
    EmptyRingIsRefilled
