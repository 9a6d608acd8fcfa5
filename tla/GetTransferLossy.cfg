SPECIFICATION FairSpec
CONSTANTS
    MaxCalls = 2
    NumBlocks = 2
    MaxReads = 4
    MaxLoss = 2
    MaxDup = 2
    Patient = TRUE
INVARIANTS
    CacheWhole
    FailureHasReason
PROPERTIES
    ImplementsBlockRead
