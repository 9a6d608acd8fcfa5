SPECIFICATION ManagerSpec
CONSTANTS
    Callers = {c1}
    Peers = {p1, p2}
    Broadcast = Broadcast
    NumBlocks = 2
    Contents = {x, y}
    Empty = Empty
    Clients <- OnePeer
    Threads <- MCThreads
    Hears <- BothBuses
    Readings = {x, y}
    Nothing = Nothing
    MaxBlocks = 2
INVARIANTS
    TypeOK
    SuccessMeansCached
    CacheIsOldOrWhole
    ServeTypeOK
    TransfersOfOneAnswer
