SPECIFICATION LiveSpec
CONSTANTS
    MaxRequests = 1
    MaxFiles = 1
    StatusTicks = 1
    SensorTicks = 1
    StaleTicks = 1
    TickMod = 3
    MaxTick = 3
    QueueSize = 1
    MaxDatagrams = 1
PROPERTIES
    DetectionShown
    FailureShown
    CloseCompletes
CHECK_DEADLOCK FALSE
