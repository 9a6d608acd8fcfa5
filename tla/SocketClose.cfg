SPECIFICATION FairSpec
CHECK_DEADLOCK FALSE
CONSTANTS
    MaxFrames = 1
    MaxSignals = 0
    CloseFails = FALSE
PROPERTIES
    CloseInterrupts
