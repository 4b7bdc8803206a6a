SPECIFICATION Spec
CONSTANTS
    TxSize = 5
    RxSize = 3
    SglSize = 1
    Frames = {f1, f2}
    NoFrame = none
    Other = other
    Budget = 2
    MaxOthers = 1
    MaxFaults = 1
CONSTRAINT OneDisturbance
SYMMETRY Symmetry
CHECK_DEADLOCK FALSE
INVARIANTS
    GivenBackInOrder
    FrameHasOneHolder
