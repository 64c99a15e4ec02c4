SPECIFICATION FairSpec

CHECK_DEADLOCK FALSE

CONSTANTS
    Runs = {r1, r2}
    Cleaners = {c1}
    None = None
    MaxMade = 2

INVARIANT
    TypeOK
    StartedOnce
PROPERTY
    ImplementsAttempt
    CleanupConfirms
