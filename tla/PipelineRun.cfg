SPECIFICATION FairSpec

CONSTANTS
    Drives = {d1, d2}
    Steps = {s1}
    None = None
    MaxAttempts = 2
    MaxFaults = 1

INVARIANTS
    TypeOK
    AttemptsApart
    SuccessIsReal
    WorkAgrees
    CleanUnlessCancelled
PROPERTIES
    ReceiptsStand
    ConcludedIsQuiet
    ClaimedConcludes

\* A finished run is left alone.
CHECK_DEADLOCK FALSE
