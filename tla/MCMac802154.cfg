CONSTANTS
    a = a
    b = b
    n1 = n1
    n2 = n2
    Coord = {a, b}
    Node = {n1, n2}
    Broadcast = Broadcast
    None = None
    NumSlots = 4
    MinCap = 1
    MaxLostBeacons = 2
    MaxFrameRetries = 2
    BufferSize = 1
    Settings <- AllSettings
SPECIFICATION Spec
INVARIANTS AttemptsLeft AgreesWithItsPan GtsIsExclusive NeverStranded
