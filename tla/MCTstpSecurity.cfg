CONSTANTS
    Sensor = {n1, n2}
    Never = Never
    KeyExpiry = 4
    Window = 4
    MaxCopies = 2
    MaxTime = 9
SPECIFICATION SecuritySpec
INVARIANTS PeerInOneList AuthHasKey TrustIsMutual
PROPERTY ImplementsTrustLease
CHECK_DEADLOCK FALSE
