SPECIFICATION Spec

CONSTANTS
    Nodes = {n1, n2}
    NoClaim = NoClaim
    NoWindow = NoWindow
    ClaimKeys <- DeliveryKeys
    Backlog = {1, 2}
    NumRequests = 2
    Egress <- AnyNode
    Email = {1}
    PageSize = 2
    MaxAttempts = 1
    ClaimTTL = 2
    HTTPTimeout = 1
    MaxRequeues = 0
    MaxCrashes = 1
    MaxStampErrors = 1
    MaxClaimErrors = 0
    Retention = 2
    UnguardedMax = 1
    UnguardedWindow = 1
    AgeCap = 3

SYMMETRY ReplicaSymmetry

INVARIANTS
    OneHolderPerAttempt
    OneRunPerAttempt
    StrandedBounded
PROPERTY
    NoStaleStamp
