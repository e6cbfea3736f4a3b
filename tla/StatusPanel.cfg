SPECIFICATION Spec
CONSTANTS
    StatusTicks = 3
    SensorTicks = 2
    StaleTicks = 1
    TickMod = 64
    MaxTick = 12
INVARIANTS
    RevertArmed
    SensorArmed
CHECK_DEADLOCK FALSE
