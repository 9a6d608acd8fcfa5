------------------------------ MODULE BlockRead ------------------------------
(***************************************************************************)
(* What getBlock() promises its callers, whatever the frames in between:   *)
(* a call that returns true leaves in the cache one payload that the other *)
(* node's handler produced during that very call, and a call that returns  *)
(* false leaves the cache alone.                                           *)
(***************************************************************************)
CONSTANTS
    Calls,  \* the calls of getBlock(), in some numbering
    None    \* no call

VARIABLES
    result,  \* what became of each call
    cache    \* the call whose payload getLastData() returns, or None

vars == <<result, cache>>

Init ==
    /\ result = [k \in Calls |-> "unused"]
    /\ cache = None

Open(k) ==
    /\ result[k] = "unused"
    /\ result' = [result EXCEPT ![k] = "open"]
    /\ UNCHANGED cache

(* The last block of the call's payload arrives.                           *)
Complete(k) ==
    /\ result[k] = "open"
    /\ cache' = k
    /\ UNCHANGED result

Succeed(k) ==
    /\ result[k] = "open"
    /\ cache = k
    /\ result' = [result EXCEPT ![k] = "ok"]
    /\ UNCHANGED cache

Fail(k) ==
    /\ result[k] = "open"
    /\ cache # k
    /\ result' = [result EXCEPT ![k] = "failed"]
    /\ UNCHANGED cache

Next == \E k \in Calls : Open(k) \/ Complete(k) \/ Succeed(k) \/ Fail(k)

(* Every call returns.                                                     *)
Spec == Init /\ [][Next]_vars /\ \A k \in Calls : WF_vars(Succeed(k) \/ Fail(k))
=============================================================================
