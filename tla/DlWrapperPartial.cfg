SPECIFICATION Spec
CONSTANTS
    Builds = {b1, b2}
    NoOne = NoOne
    Hashes <- MCHashes
    Linkable = FALSE
    Uris = 1
    MaxRuns = 2
INVARIANTS
    NoPartialAccepted
CHECK_DEADLOCK FALSE
