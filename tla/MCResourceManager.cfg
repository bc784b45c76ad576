CONSTANTS
    Consumer = {radio, routing}
    Power = {0, 1, 3}
    Baseline = 1
    InitialEnergy = 8
    Interval = 2
    MaxTime = 6
    MaxMail = 2
SPECIFICATION FairSpec
INVARIANT EnergyBalance
PROPERTIES EmptyBatteryStopsNode
CHECK_DEADLOCK FALSE
