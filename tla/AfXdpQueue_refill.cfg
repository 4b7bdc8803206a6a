SPECIFICATION LiveSpec
CONSTANTS
    TxSize = 5
    RxSize = 3
    SglSize = 1
    Frames = {f1, f2}
    NoFrame = none
    Other = other
    Budget = 2
    MaxOthers = 0
    MaxFaults = 0
CHECK_DEADLOCK FALSE
PROPERTIES
    ProvidedIsTaken
