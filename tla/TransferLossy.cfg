SPECIFICATION FairSpec
CONSTANTS
    MaxCalls = 2
    MaxBlocks = 2
    MaxLoss = 2
    MaxDup = 2
    Patient = TRUE
    HandlerResults = {TRUE, FALSE}
INVARIANTS
    PayloadsWhole
    FailureHasReason
PROPERTIES
    ImplementsBlockWrite
