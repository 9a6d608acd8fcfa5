\* The bus may fall silent, and receive() then waits for ever.
SPECIFICATION FairSpec
CHECK_DEADLOCK FALSE
CONSTANTS
    MaxFrames = 3
    MaxSignals = 2
    CloseFails = TRUE
INVARIANTS
    TypeOK
    NothingLeaks
    FramesInOrder
PROPERTIES
    EveryFrameReturned
