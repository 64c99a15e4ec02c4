SPECIFICATION FairSpec
CONSTANTS
    Keys = {k1, k2}
    EventIDs = {e1, e2}
    Consumers = {c1}
    Producers = {p1, p2}
    Subscribers = {s1, s2}
    Identity <- SharedIdentity
    Topics <- OneTopic
    NoCursor = NoCursor
    MaxSeq = 2
INVARIANTS
    TypeOK
    OneRowPerEvent
    NoInFlightBelowWatermark
PROPERTIES
    CommitOrderIsSeqOrder
    AppendsFinish
    ImplementsOutbox
    CursorMonotonic
