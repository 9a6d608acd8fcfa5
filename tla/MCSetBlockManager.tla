-------------------------- MODULE MCSetBlockManager --------------------------
(* Both halves of SetBlockManager for TLC.  They share the mutex, but no   *)
(* data: what the steps of one do is the same whatever the other has done, *)
(* so it is enough to look at the behaviours in which one half acts, all   *)
(* others being interleavings of these.                                    *)
EXTENDS SetBlockInitiator, SetBlockResponder

VARIABLE acting   \* the half that acts

ManagerInit == Init /\ ServeInit /\ acting \in {"calls", "serves"}

ManagerNext ==
    \/ acting = "calls" /\ Next /\ UNCHANGED <<serveVars, acting>>
    \/ acting = "serves" /\ ServeNext /\ UNCHANGED <<vars, acting>>

ManagerSpec == ManagerInit /\ [][ManagerNext]_<<vars, serveVars, acting>>

MCClients == {1, 2, 3}
MCThreads == {"can0", "can1"}

(* Every peer sits on one bus only: two of them on can0, the third on can1.*)
OneBusEach == [t \in MCThreads |-> IF t = "can0" THEN {1, 2} ELSE {3}]
=============================================================================
