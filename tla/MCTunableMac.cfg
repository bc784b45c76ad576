CONSTANTS
    Packet = {p1, p2, p3}
    None = None
    MacBufferSize = 2
    NumTx = 2
    Beacons = 2
    MaxFrames = 2
    MaxCommands = 2
SPECIFICATION FairSpec
INVARIANTS NeverStranded PacketIsServed
PROPERTIES ImplementsAttemptQueue BufferEmptied
CHECK_DEADLOCK FALSE
