SPECIFICATION Spec

CONSTANTS
    Nodes = {n1, n2}
    ClaimKeys = {k1, k2}
    NoClaim = NoClaim
    NoWindow = NoWindow
    Ttls <- LeasesAndOnce
    Strict = {k1}
    Releasable = {k2}
    StartWait = 1
    Retention = 2
    UnguardedMax = 1
    UnguardedWindow = 1
    AgeCap = 3
    MaxErrors = 3

INVARIANTS
    TypeOK
    OneCoveredExecution
    UnguardedBounded

SYMMETRY ReplicaSymmetry
