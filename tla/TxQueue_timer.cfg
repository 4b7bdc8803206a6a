SPECIFICATION Spec
CONSTANTS
    Ids = {i0, i1, i2, i3}
    SglSize = 1
    MaxSkbFrags = 0
    Packets <- OnePacket
    Threshold = 0
    Watched = TRUE
    MaxMisreports = 0
SYMMETRY Symmetry
INVARIANTS
    TypeOK
    OneCompletionReader
    CountNotNegative
