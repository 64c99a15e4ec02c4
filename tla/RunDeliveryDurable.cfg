SPECIFICATION FairSpec

CONSTANTS
    Keys = {k1}
    RunKey = k1
    EventIDs = {e1, e2}
    Consumers = {c1, c2}
    NoCursor = NoCursor
    Bff = Bff
    Origin <- OneFromReplica
    MeshWired = FALSE
    SubscribeMayFail = FALSE
    ReplayBatch = 2
    ChannelBuffer = 1
    MaxCrashes = 2
    MaxExpiries = 0
    MaxElapses = 0

INVARIANTS
    NoLostRow
    ProduceOrder
PROPERTIES
    RowsArrive
