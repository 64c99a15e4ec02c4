SPECIFICATION Spec

CONSTANTS
    Nodes = {n1, n2}
    NoClaim = NoClaim
    NoWindow = NoWindow
    ClaimKeys <- DeliveryKeys
    Backlog = {1, 2, 3}
    NumRequests = 3
    Egress <- LastEverywhere
    Email = {}
    PageSize = 3
    MaxAttempts = 1
    ClaimTTL = 1
    HTTPTimeout = 1
    MaxRequeues = 0
    MaxCrashes = 0
    MaxStampErrors = 0
    MaxClaimErrors = 0
    Retention = 1
    UnguardedMax = 1
    UnguardedWindow = 1
    AgeCap = 2

INVARIANT
    NeverRunTwice
