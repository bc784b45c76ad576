CONSTANTS
    Dest = {x, y}
    Hearable = {x}
    ActiveRouteTimeout = 2
    BufferSize = 1
    MaxTime = 7
    MaxEntries = 6
    MaxMissed = 1
SPECIFICATION LifetimeSpec
INVARIANTS RouteIsTimed TimerNotInPast
PROPERTIES KeepsItsLifetime
CHECK_DEADLOCK FALSE
