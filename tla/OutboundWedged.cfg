SPECIFICATION FairSpec

CONSTANTS
    Nodes = {n1, n2}
    NoClaim = NoClaim
    NoWindow = NoWindow
    ClaimKeys <- DeliveryKeys
    Backlog = {}
    NumRequests = 1
    Egress <- AnyNode
    Email = {}
    PageSize = 1
    MaxAttempts = 1
    ClaimTTL = 2
    HTTPTimeout = 1
    MaxRequeues = 0
    MaxCrashes = 1
    MaxStampErrors = 0
    MaxClaimErrors = 0
    Retention = 2
    UnguardedMax = 1
    UnguardedWindow = 1
    AgeCap = 3

PROPERTY
    RequestsSettle
