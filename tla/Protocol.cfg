SPECIFICATION FairSpec
CONSTANTS
    Nodes = {n1, n2}
    Apps = {app}
    Callers = {n1}
    Receiver = rx
    Everyone = Everyone
    KeepAlive = KeepAlive
    Targets <- MCTargets
    Channels = {ch1, ch2}
    Preset <- MCPreset
    n1 = n1
    n2 = n2
    ch1 = ch1
    ch2 = ch2
    Results = {TRUE, FALSE}
    MaxCalls = 3
    MaxLoss = 1
INVARIANTS
    TypeOK
    OneOwner
    VerdictIsPeers
    TelemetryIsOwn
    NestedUnanswered
    SpokenMeansKnown
PROPERTIES
    ComesToRest
