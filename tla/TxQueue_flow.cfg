SPECIFICATION LiveSpec
CONSTANTS
    Ids = {i0, i1, i2, i3}
    SglSize = 1
    MaxSkbFrags = 0
    Packets <- AllPackets
    Threshold = 1
    Watched = FALSE
    MaxMisreports = 1
INVARIANTS
    NothingIsLost
    OpenMeansRoom
    NothingHeldBack
PROPERTIES
    StoppedIsWoken
