SPECIFICATION Spec
CONSTANTS
    MaxRequests = 2
    MaxFiles = 2
    StatusTicks = 2
    SensorTicks = 2
    StaleTicks = 1
    TickMod = 16
    MaxTick = 4
    QueueSize = 1
    MaxDatagrams = 1
INVARIANTS
    CapturingIsTrue
    CapturingEnds
PROPERTIES
    OpenedOnlyWhileLive
CHECK_DEADLOCK FALSE
