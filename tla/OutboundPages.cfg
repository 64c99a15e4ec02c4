SPECIFICATION FairSpec

CONSTANTS
    Nodes = {n1}
    NoClaim = NoClaim
    NoWindow = NoWindow
    ClaimKeys <- DeliveryKeys
    Backlog = {1}
    NumRequests = 2
    Egress <- NotFirst
    Email = {}
    PageSize = 1
    MaxAttempts = 2
    ClaimTTL = 2
    HTTPTimeout = 1
    MaxRequeues = 1
    MaxCrashes = 0
    MaxStampErrors = 0
    MaxClaimErrors = 1
    Retention = 2
    UnguardedMax = 1
    UnguardedWindow = 1
    AgeCap = 3

INVARIANTS
    TypeOK
PROPERTIES
    RequestsSettle
