----------------------------- MODULE BlockWrite -----------------------------
(***************************************************************************)
(* What setBlock() promises its callers, whatever the frames in between:   *)
(* a call that returns true has had its payload written by the other node, *)
(* and no payload is written twice.  A call that returns false promises    *)
(* nothing: its payload may have been written, or may still be.            *)
(***************************************************************************)
EXTENDS Naturals

CONSTANT Calls  \* the calls of setBlock(), in some numbering

VARIABLES
    result,  \* what became of each call
    writes   \* how often each call's payload was written

vars == <<result, writes>>

TypeOK ==
    /\ result \in [Calls -> {"unused", "open", "ok", "failed"}]
    /\ writes \in [Calls -> Nat]

Init ==
    /\ result = [k \in Calls |-> "unused"]
    /\ writes = [k \in Calls |-> 0]

Open(k) ==
    /\ result[k] = "unused"
    /\ result' = [result EXCEPT ![k] = "open"]
    /\ UNCHANGED writes

(* The write of a call that has failed meanwhile may still happen.         *)
Write(k) ==
    /\ result[k] # "unused"
    /\ writes[k] = 0
    /\ writes' = [writes EXCEPT ![k] = 1]
    /\ UNCHANGED result

Succeed(k) ==
    /\ result[k] = "open"
    /\ writes[k] = 1
    /\ result' = [result EXCEPT ![k] = "ok"]
    /\ UNCHANGED writes

Fail(k) ==
    /\ result[k] = "open"
    /\ result' = [result EXCEPT ![k] = "failed"]
    /\ UNCHANGED writes

Next == \E k \in Calls : Open(k) \/ Write(k) \/ Succeed(k) \/ Fail(k)

(* Every call returns.                                                     *)
Spec == Init /\ [][Next]_vars /\ \A k \in Calls : WF_vars(Succeed(k) \/ Fail(k))
============================================================================
