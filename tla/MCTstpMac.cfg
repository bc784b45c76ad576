CONSTANTS
    s = s
    a = a
    b = b
    sink = sink
    Node = {s, a, b, sink}
    Sink = sink
    Neighbour <- DiamondNeighbour
    Dist <- DiamondDist
    Message <- TwoMessages
    None = None
    Microframes = 2
SYMMETRY Relays
SPECIFICATION Spec
INVARIANTS Custody PendingIsScheduled
PROPERTY ImplementsConvergecast
CONSTRAINT OnlyOlderIsLate
