SPECIFICATION Spec
CONSTANTS
    MaxRequests = 3
    MaxFiles = 4
INVARIANTS
    AtMostOneFrame
    AtLeastOneFrame
CHECK_DEADLOCK FALSE
