SPECIFICATION Spec
CONSTANTS
    Builds = {b1, b2}
    NoOne = NoOne
    Hashes <- MCHashes
    Linkable = TRUE
    Uris = 2
    MaxRuns = 2
INVARIANTS
    AcceptedStays
    CodesDocumented
PROPERTIES
    ImplementsAtomicStore
CHECK_DEADLOCK FALSE
