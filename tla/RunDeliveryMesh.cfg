SPECIFICATION Spec

CONSTANTS
    Keys = {k1}
    RunKey = k1
    EventIDs = {e1, e2, e3}
    Consumers = {c1}
    NoCursor = NoCursor
    Bff = Bff
    Origin <- AllFromBff
    MeshWired = TRUE
    SubscribeMayFail = TRUE
    ReplayBatch = 2
    ChannelBuffer = 1
    MaxCrashes = 1
    MaxExpiries = 1
    MaxElapses = 1

SYMMETRY EventSymmetry

INVARIANTS
    TypeOK
    DeliveredOnce
    NothingPassedUnsent

\* A replica whose Subscribe failed waits for a restart, and restarts are bounded.
CHECK_DEADLOCK FALSE
