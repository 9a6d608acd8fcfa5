SPECIFICATION Spec
CONSTANTS
    MaxCalls = 3
    NumBlocks = 2
    MaxReads = 6
    MaxLoss = 0
    MaxDup = 0
    Patient = FALSE
INVARIANTS
    CacheWhole
