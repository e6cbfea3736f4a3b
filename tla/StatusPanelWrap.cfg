SPECIFICATION Spec
CONSTANTS
    StatusTicks = 3
    SensorTicks = 2
    StaleTicks = 1
    TickMod = 8
    MaxTick = 8
INVARIANTS
    DeadlineKept
