\* A fault is the end of the process.
SPECIFICATION FairSpec
CHECK_DEADLOCK FALSE
CONSTANTS
    Controls = {c1, c2}
    Interfaces = {can0, can1}
    MaxAdded = 1
    First = can0
CONSTRAINT
    FirstComesFirst
INVARIANTS
    TypeOK
    OpenMeansServed
    NoFault
    StopMeansJoined
PROPERTIES
    EveryStopReturns
