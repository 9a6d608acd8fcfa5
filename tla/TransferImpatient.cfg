SPECIFICATION Spec
CONSTANTS
    MaxCalls = 2
    MaxBlocks = 1
    MaxLoss = 0
    MaxDup = 0
    Patient = FALSE
    HandlerResults = {TRUE, FALSE}
INVARIANTS
    SuccessMeansWritten
