SPECIFICATION SerialLiveSpec
CONSTANTS
    MaxRequests = 8
    MaxFiles = 8
PROPERTIES
    ImplementsOneShot
    RequestAnswered
CHECK_DEADLOCK FALSE
