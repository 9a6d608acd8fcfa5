------------------------- MODULE SetBlockInitiator -------------------------
(***************************************************************************)
(* The sending half of SetBlockManager: application threads that call      *)
(* setBlock(), and the three answers (ACK, NACK, REPORT) that onFrame()    *)
(* delivers to them through the shared record `pending' and the condition  *)
(* variable.                                                               *)
(*                                                                         *)
(* Every critical section of the mutex is one action; every call of        *)
(* frameSender is an action of its own, because the mutex is not held      *)
(* there.  A send that fails has no effect of its own, so it is merged     *)
(* with the clean-up the code performs next.  The environment may deliver  *)
(* any answer from any peer at any moment.                                 *)
(***************************************************************************)
EXTENDS Naturals

CONSTANTS
    Callers,    \* application threads that may call setBlock()
    Peers,      \* addresses of the other nodes
    Broadcast,  \* address 0, which is also the default value of pending.peer
    MaxBlocks   \* blocks in the largest transfer (64 in the code)

ASSUME InitiatorAssumption ==
    /\ Callers # {}
    /\ MaxBlocks \in Nat \ {0}
    /\ Broadcast \notin Peers

Address == Peers \cup {Broadcast}
Index   == 0 .. MaxBlocks - 1

VARIABLES
    pending,  \* SetBlockManager::pending
    call,     \* locals and program counter of each caller
    heard     \* history: answers that the peer of each call gave to that call

vars == <<pending, call, heard>>

NoPending ==
    [active |-> FALSE, waitingRequestAck |-> FALSE, requestAcked |-> FALSE,
     waitingReport |-> FALSE, reportReceived |-> FALSE, done |-> FALSE,
     ok |-> FALSE, peer |-> Broadcast, bitmap |-> {}]

(* Where a caller is: between calls, or about to execute (request,         *)
(* transfer, arm, status, abort) or waiting in (awaitAck, awaitReport) the *)
(* statement of setBlock() that the name suggests.                         *)
Sending == {"request", "transfer", "status", "abort"}
Waiting == {"awaitAck", "awaitReport"}
PC      == Sending \cup Waiting \cup {"idle", "arm"}

NoCall == [pc |-> "idle", to |-> Broadcast, numBlocks |-> 1, next |-> 0,
           success |-> FALSE]

PendingRecord ==
    [active : BOOLEAN, waitingRequestAck : BOOLEAN, requestAcked : BOOLEAN,
     waitingReport : BOOLEAN, reportReceived : BOOLEAN, done : BOOLEAN,
     ok : BOOLEAN, peer : Address, bitmap : SUBSET Index]

CallRecord ==
    [pc : PC, to : Address, numBlocks : 1 .. MaxBlocks, next : 0 .. MaxBlocks,
     success : BOOLEAN]

(* The loop over the blocks stays within them; everything else is typing.  *)
TypeOK ==
    /\ pending \in PendingRecord
    /\ call \in [Callers -> CallRecord]
    /\ heard \in [Callers -> SUBSET {"ack", "report"}]

Init ==
    /\ pending = NoPending
    /\ call = [c \in Callers |-> NoCall]
    /\ heard = [c \in Callers |-> {}]

Goto(c, pc) == call' = [call EXCEPT ![c].pc = pc]

Blocks(c) == 0 .. call[c].numBlocks - 1

----------------------------------------------------------------------------
(* setBlock()                                                              *)

(* Arguments that setBlock() refuses before it touches any shared state.   *)
Refuse(c, addressEmpty, numBlocks) ==
    /\ call[c].pc = "idle"
    /\ addressEmpty \/ numBlocks \notin 1 .. MaxBlocks
    /\ call' = [call EXCEPT ![c].success = FALSE]
    /\ UNCHANGED <<pending, heard>>

Begin(c, to, numBlocks) ==
    /\ call[c].pc = "idle"
    /\ numBlocks \in 1 .. MaxBlocks
    /\ pending' = [NoPending EXCEPT !.active = TRUE,
                                    !.waitingRequestAck = TRUE, !.peer = to]
    /\ call' = [call EXCEPT ![c] = [pc |-> "request", to |-> to,
                                    numBlocks |-> numBlocks, next |-> 0,
                                    success |-> FALSE]]
    /\ heard' = [heard EXCEPT ![c] = {}]

(* Mutant: an early return that forgets to clear the record.               *)
GiveUpKeepingPending(c) == Goto(c, "idle") /\ UNCHANGED <<pending, heard>>

(* `pending = {}; return false;'                                           *)
GiveUp(c) ==
    /\ pending' = NoPending
    /\ Goto(c, "idle")
    /\ UNCHANGED heard

SendRequest(c, sent) ==
    /\ call[c].pc = "request"
    /\ IF sent
       THEN Goto(c, "awaitAck") /\ UNCHANGED <<pending, heard>>
       ELSE GiveUp(c)

AckArrived == pending.requestAcked \/ pending.done

WakeOnAck(c) ==
    /\ call[c].pc = "awaitAck"
    /\ AckArrived
    /\ IF pending.done \/ ~pending.requestAcked
       THEN GiveUp(c)
       ELSE Goto(c, "transfer") /\ UNCHANGED <<pending, heard>>

AckTimeout(c) ==
    /\ call[c].pc = "awaitAck"
    /\ ~AckArrived
    /\ GiveUp(c)

(* Mutant: the loop runs to i <= numBlocks.                                *)
SendTransferOneMore(c, sent) ==
    /\ call[c].pc = "transfer"
    /\ sent
    /\ call' = [call EXCEPT ![c].next = @ + 1,
                  ![c].pc = IF call[c].next = call[c].numBlocks
                            THEN "arm" ELSE "transfer"]
    /\ UNCHANGED <<pending, heard>>

SendTransfer(c, sent) ==
    /\ call[c].pc = "transfer"
    /\ IF sent
       THEN /\ call' = [call EXCEPT ![c].next = @ + 1,
                          ![c].pc = IF call[c].next + 1 = call[c].numBlocks
                                    THEN "arm" ELSE "transfer"]
            /\ UNCHANGED <<pending, heard>>
       ELSE GiveUp(c)

Arm(c) ==
    /\ call[c].pc = "arm"
    /\ pending' = [pending EXCEPT !.waitingReport = TRUE,
                     !.reportReceived = FALSE, !.done = FALSE, !.ok = FALSE]
    /\ Goto(c, "status")
    /\ UNCHANGED heard

(* Mutant: the flags of the report phase are set after the send.           *)
SendStatusRequestThenArm(c, sent) ==
    /\ call[c].pc = "status"
    /\ sent
    /\ pending' = [pending EXCEPT !.waitingReport = TRUE,
                     !.reportReceived = FALSE, !.done = FALSE, !.ok = FALSE]
    /\ Goto(c, "awaitReport")
    /\ UNCHANGED heard

SendStatusRequest(c, sent) ==
    /\ call[c].pc = "status"
    /\ IF sent
       THEN Goto(c, "awaitReport") /\ UNCHANGED <<pending, heard>>
       ELSE GiveUp(c)

ReportArrived == pending.reportReceived \/ pending.done

(* Mutant: the done flag of the report is not looked at.                   *)
WakeOnReportNotDone(c) ==
    /\ call[c].pc = "awaitReport"
    /\ ReportArrived
    /\ IF ~pending.ok \/ ~pending.reportReceived
       THEN GiveUp(c)
       ELSE /\ call' = [call EXCEPT ![c].pc = "abort",
                          ![c].success = Blocks(c) \subseteq pending.bitmap]
            /\ pending' = NoPending
            /\ UNCHANGED heard

WakeOnReport(c) ==
    /\ call[c].pc = "awaitReport"
    /\ ReportArrived
    /\ IF ~pending.ok \/ ~pending.reportReceived
       THEN GiveUp(c)
       ELSE /\ call' = [call EXCEPT ![c].pc = "abort",
                          ![c].success = Blocks(c) \subseteq pending.bitmap
                                         /\ pending.done]
            /\ pending' = NoPending
            /\ UNCHANGED heard

ReportTimeout(c) ==
    /\ call[c].pc = "awaitReport"
    /\ ~ReportArrived
    /\ GiveUp(c)

(* The result of this send is ignored; setBlock() then returns `success'.  *)
SendAbort(c) ==
    /\ call[c].pc = "abort"
    /\ Goto(c, "idle")
    /\ UNCHANGED <<pending, heard>>

----------------------------------------------------------------------------
(* onFrame(), the frames a peer sends to an initiator                      *)

(* History: p's answer, as the callers that are talking to p see it.       *)
Hear(p, answer, listening) ==
    heard' = [c \in Callers |->
                IF call[c].to = p /\ call[c].pc \in listening
                THEN heard[c] \cup {answer} ELSE heard[c]]

(* Mutant: an acknowledgement counts whoever sent it.                      *)
OnAckFromAnyone(p) ==
    /\ pending' = IF pending.active /\ pending.waitingRequestAck
                  THEN [pending EXCEPT !.requestAcked = TRUE,
                                       !.waitingRequestAck = FALSE]
                  ELSE pending
    /\ Hear(p, "ack", PC \ {"idle"})
    /\ UNCHANGED call

OnAck(p) ==
    /\ pending' = IF pending.active /\ pending.peer = p
                       /\ pending.waitingRequestAck
                  THEN [pending EXCEPT !.requestAcked = TRUE,
                                       !.waitingRequestAck = FALSE]
                  ELSE pending
    /\ Hear(p, "ack", PC \ {"idle"})
    /\ UNCHANGED call

OnNack(p) ==
    /\ pending' = IF pending.active /\ pending.peer = p
                       /\ (pending.waitingRequestAck \/ pending.waitingReport)
                  THEN [pending EXCEPT !.done = TRUE, !.ok = FALSE]
                  ELSE pending
    /\ UNCHANGED <<call, heard>>

OnReport(p, done, bitmap) ==
    /\ pending' = IF pending.active /\ pending.peer = p /\ pending.waitingReport
                  THEN [pending EXCEPT !.bitmap = bitmap, !.done = done,
                                       !.ok = TRUE, !.reportReceived = TRUE]
                  ELSE pending
    /\ heard' = [c \in Callers |->
                   IF /\ call[c].to = p
                      /\ call[c].pc \in {"status", "awaitReport"}
                      /\ done /\ Blocks(c) \subseteq bitmap
                   THEN heard[c] \cup {"report"} ELSE heard[c]]
    /\ UNCHANGED call

----------------------------------------------------------------------------
CallerStep(c) ==
    \/ \E sent \in BOOLEAN : \/ SendRequest(c, sent)
                             \/ SendTransfer(c, sent)
                             \/ SendStatusRequest(c, sent)
    \/ WakeOnAck(c)
    \/ AckTimeout(c)
    \/ Arm(c)
    \/ WakeOnReport(c)
    \/ ReportTimeout(c)
    \/ SendAbort(c)

Answer ==
    \E p \in Peers :
        \/ OnAck(p)
        \/ OnNack(p)
        \/ \E done \in BOOLEAN, bitmap \in SUBSET Index : OnReport(p, done, bitmap)

Next ==
    \/ \E c \in Callers, addressEmpty \in BOOLEAN, n \in 0 .. MaxBlocks + 1 :
          Refuse(c, addressEmpty, n)
    \/ \E c \in Callers, to \in Address, n \in 1 .. MaxBlocks : Begin(c, to, n)
    \/ \E c \in Callers : CallerStep(c)
    \/ Answer

Spec == Init /\ [][Next]_vars

----------------------------------------------------------------------------
(* setBlock() returns true only if, after it asked for the status, the     *)
(* peer of this very call reported every block received and the payload    *)
(* processed (the @return clause of setBlock).                             *)
SuccessMeansReported ==
    \A c \in Callers : call[c].success => "report" \in heard[c]

(* No answer falls between a send and the wait for it: an acknowledgement  *)
(* or a complete report that the peer gave at any moment of the call is    *)
(* there for the waiter to find, unless a refusal ended the wait first.    *)
NoLostAnswer ==
    \A c \in Callers :
        /\ call[c].pc = "awaitAck" /\ "ack" \in heard[c]
              => pending.requestAcked
        /\ call[c].pc = "awaitReport" /\ "report" \in heard[c]
              => pending.reportReceived

(* Whichever of its eight ways out a call takes, the shared record is back *)
(* in its initial state, so that no later answer finds a waiter.           *)
CleanBetweenCalls ==
    (\A c \in Callers : call[c].pc \in {"idle", "abort"}) => pending = NoPending

(* No block is put on the bus before the peer of the call has acknowledged *)
(* something since the call began.                                         *)
TransfersFollowAck ==
    \A c \in Callers :
        call[c].pc \in {"transfer", "arm", "status", "awaitReport"}
            => "ack" \in heard[c]
============================================================================
