SPECIFICATION LiveSpec
CONSTANTS
    Builds = {b1, b2}
    NoOne = NoOne
    Hashes <- MCFewHashes
    Linkable = FALSE
    Uris = 2
    MaxRuns = 2
PROPERTIES
    RunEnds
CHECK_DEADLOCK FALSE
