SPECIFICATION MainSpec
CONSTANTS
    Signals = {INT, TERM}
    Programs = {"main", "other"}
INVARIANTS
    AppTypeOK
    WaitMeansSignalled
    CleanExit
PROPERTIES
    OneSignalSuffices
