\* The bus may fall silent, and receive() then waits for ever.
SPECIFICATION FairSpec
CHECK_DEADLOCK FALSE
CONSTANTS
    MaxFrames = 1
    MaxSignals = 1
    CloseFails = FALSE
INVARIANTS
    SuccessMeansFrame
