SPECIFICATION ManagerSpec
CONSTANTS
    Callers = {c1}
    Peers = {p1, p2}
    Broadcast = Broadcast
    MaxBlocks = 3
    Clients <- MCClients
    Threads <- MCThreads
    Hears <- OneBusEach
    Contents = {x}
    Empty = Empty
    Capacity = 2
INVARIANTS
    TypeOK
    SuccessMeansReported
    NoLostAnswer
    CleanBetweenCalls
    TransfersFollowAck
    ServeTypeOK
    TakenOnce
    DoneMeansTaken
    ReportMeansTaken
