SPECIFICATION FairSpec

CONSTANTS
    Nodes = {n1, n2, n3}
    Leases = {general, scoped}
    General = general
    Scoped = scoped
    Plain = n2
    Competes <- NotPlain
    NoOwner = NoOwner
    Ghost = Ghost
    MaxLosses = 2
    MaxFaults = 2

INVARIANTS
    OneOpenGate
    NoStrandedLock
    OpenGateHoldsLock
PROPERTY
    LeaseIsLed
