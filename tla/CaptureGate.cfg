SPECIFICATION Spec
CONSTANTS
    MaxRequests = 3
    MaxFiles = 4
INVARIANTS
    NoOrphanProbe
    OpenHasProbe
    OneFramePerRequest
CHECK_DEADLOCK FALSE
