CONSTANTS
    MinSize = 2
    MaxSize = 3
    Obj = {o1, o2, o3}
    NULL = NULL
    Delay = {1, 2}
    MaxTime = 3
SPECIFICATION FairSpec
INVARIANTS SlotsMatchEvents
PROPERTIES ImplementsPromise ArmedTimerFires
CHECK_DEADLOCK FALSE
