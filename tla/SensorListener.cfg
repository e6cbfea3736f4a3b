SPECIFICATION LiveSpec
CONSTANTS
    QueueSize = 2
    MaxDatagrams = 4
INVARIANTS
    NothingLost
PROPERTIES
    DetectionNoticed
CHECK_DEADLOCK FALSE
