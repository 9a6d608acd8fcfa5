-------------------------- MODULE MCGetBlockManager --------------------------
(* Both halves of GetBlockManager for TLC, of which one acts, as in        *)
(* MCSetBlockManager: they share the mutex, but no data.                   *)
EXTENDS GetBlockInitiator, GetBlockResponder

VARIABLE acting   \* the half that acts

ManagerInit == Init /\ ServeInit /\ acting \in {"calls", "serves"}

ManagerNext ==
    \/ acting = "calls" /\ Next /\ UNCHANGED <<serveVars, acting>>
    \/ acting = "serves" /\ ServeNext /\ UNCHANGED <<vars, acting>>

ManagerSpec == ManagerInit /\ [][ManagerNext]_<<vars, serveVars, acting>>

(* Every peer is heard on both buses.                                      *)
OnePeer   == {1}
MCThreads == {"can0", "can1"}
BothBuses == [t \in MCThreads |-> OnePeer]
=============================================================================
