SPECIFICATION PassSpec
CONSTANTS
    Type <- MCType
    Quoted <- MCQuoted
    Number <- MCNumber
    Ascii <- MCAscii
    MaxDepth = 5
    MaxLeaves = 2
    Operands <- MCOperands
    Parents <- MCParents
    Samples <- MCSamples
    Valuations <- MCValuations
INVARIANTS
    MeaningKept
    EliminatedIsImplied
    ReadsBack
CHECK_DEADLOCK FALSE
