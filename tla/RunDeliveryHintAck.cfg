SPECIFICATION Spec

CONSTANTS
    Keys = {k1}
    RunKey = k1
    EventIDs = {e1, e2}
    Consumers = {c1}
    NoCursor = NoCursor
    Bff = Bff
    Origin <- AllFromBff
    MeshWired = TRUE
    SubscribeMayFail = FALSE
    ReplayBatch = 2
    ChannelBuffer = 1
    MaxCrashes = 1
    MaxExpiries = 0
    MaxElapses = 0

INVARIANT NoLostRow
