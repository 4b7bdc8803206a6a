SPECIFICATION EitherSpec
CONSTANTS
    Depth = 8
    CounterSize = 16
    Configs <- AllConfigs
    NoMeta = "none"
    ZeroMeta = "zero"
    Packets <- SomePackets
    NumQueues = 2
    MaxFailures = 1
INVARIANTS
    RingNotOverrun
    BurstSufficesForTwo
    HeaderIsKept
    DeviceReadsWhatWasSent
    OwnershipKept
    NothingOutlivesItsBase
    PhaseOwnsItsShare
