------------------------- MODULE GetBlockInitiator -------------------------
(***************************************************************************)
(* The reading half of GetBlockManager: application threads that call      *)
(* getBlock(), and the three answers (ACK, NACK, TRANSFER) that onFrame()  *)
(* delivers to them through the shared record `pending'.  The last block   *)
(* to arrive also fills the cache that getLastData() reads.                *)
(*                                                                         *)
(* As in SetBlockInitiator, every critical section is one action, every    *)
(* send is an action of its own, merged with the clean-up when it fails,   *)
(* and the environment may deliver any answer of any peer at any moment.   *)
(***************************************************************************)
EXTENDS Naturals, Sequences, FiniteSets

CONSTANTS
    Callers,    \* application threads that may call getBlock()
    Peers,      \* addresses of the other nodes
    Broadcast,  \* address 0, which is also the default value of pending.peer
    NumBlocks,  \* blocks of every transfer (64 in the code)
    Contents,   \* payloads of a TRANSFER frame, up to what properties tell apart
    Empty       \* the payload of a TRANSFER frame without data

ASSUME InitiatorAssumption ==
    /\ NumBlocks \in Nat \ {0}
    /\ Broadcast \notin Peers
    /\ Empty \notin Contents

Address == Peers \cup {Broadcast}
Index   == 0 .. NumBlocks - 1
Block   == Contents \cup {Empty}

VARIABLES
    pending,   \* GetBlockManager::pending
    call,      \* locals and program counter of each caller
    lastData,  \* GetBlockManager::lastData
    heard      \* history: what each call's own peer gave to it so far, and the
               \*   cache as the call found it

vars == <<pending, call, lastData, heard>>

NoBlocks == [i \in Index |-> Empty]

PendingState ==
    [waitingAck : BOOLEAN, acked : BOOLEAN, waitingTransfers : BOOLEAN,
     done : BOOLEAN, ok : BOOLEAN, peer : Address, blocks : [Index -> Block],
     received : SUBSET Index]

NoPending ==
    [waitingAck |-> FALSE, acked |-> FALSE, waitingTransfers |-> FALSE,
     done |-> FALSE, ok |-> FALSE, peer |-> Broadcast, blocks |-> NoBlocks,
     received |-> {}]

(* A caller is between calls, or about to send the REQUEST or the START, or*)
(* waiting for the ACK or for the blocks.                                  *)
PC == {"idle", "request", "awaitAck", "start", "awaitBlocks"}

NoCall == [pc |-> "idle", to |-> Broadcast, success |-> FALSE]

Unheard == [ack |-> FALSE, sent |-> {}, blocks |-> NoBlocks, cache |-> <<>>]

(* The concatenation of the blocks, of which empty ones leave no trace.    *)
Assemble(blocks) ==
    LET kept   == {i \in Index : blocks[i] # Empty}
        Nth(n) == CHOOSE i \in kept : Cardinality({j \in kept : j < i}) = n - 1
    IN  [n \in 1 .. Cardinality(kept) |-> blocks[Nth(n)]]

(* What the cache may hold: nothing, or what came in by some transfer.     *)
Cached == {<<>>} \cup {Assemble(blocks) : blocks \in [Index -> Block]}

(* Blocks come in only after an ACK, and a call that waits for them and is *)
(* not refused is done just when all are there; everything else is typing. *)
TypeOK ==
    /\ pending \in PendingState
    /\ pending.received # {} => pending.acked /\ pending.waitingTransfers
    /\ pending.ok => pending.done /\ pending.received = Index
    /\ call \in [Callers -> [pc : PC, to : Address, success : BOOLEAN]]
    /\ lastData \in Cached
    /\ heard \in [Callers -> [ack : BOOLEAN, sent : SUBSET Index,
                              blocks : [Index -> Block], cache : Cached]]

Init ==
    /\ pending = NoPending
    /\ call = [c \in Callers |-> NoCall]
    /\ lastData = <<>>
    /\ heard = [c \in Callers |-> Unheard]

Goto(c, pc) == call' = [call EXCEPT ![c].pc = pc]

----------------------------------------------------------------------------
(* getBlock()                                                              *)

(* An empty address is refused before any shared state is touched.         *)
Refuse(c) ==
    /\ call[c].pc = "idle"
    /\ call' = [call EXCEPT ![c].success = FALSE]
    /\ UNCHANGED <<pending, lastData, heard>>

Begin(c, to) ==
    /\ call[c].pc = "idle"
    /\ pending' = [NoPending EXCEPT !.waitingAck = TRUE, !.peer = to]
    /\ call' = [call EXCEPT ![c] = [pc |-> "request", to |-> to, success |-> FALSE]]
    /\ heard' = [heard EXCEPT ![c] = [Unheard EXCEPT !.cache = lastData]]
    /\ UNCHANGED lastData

(* `pending = {}' and the return of the result.                            *)
Return(c, success) ==
    /\ pending' = NoPending
    /\ call' = [call EXCEPT ![c].pc = "idle", ![c].success = success]
    /\ UNCHANGED <<lastData, heard>>

SendRequest(c, sent) ==
    /\ call[c].pc = "request"
    /\ IF sent THEN Goto(c, "awaitAck") /\ UNCHANGED <<pending, lastData, heard>>
               ELSE Return(c, FALSE)

AckArrived == pending.acked \/ pending.done

WakeOnAck(c) ==
    /\ call[c].pc = "awaitAck"
    /\ AckArrived
    /\ IF pending.done
       THEN Return(c, FALSE)
       ELSE /\ pending' = [pending EXCEPT !.waitingTransfers = TRUE,
                             !.blocks = NoBlocks, !.received = {}]
            /\ Goto(c, "start")
            /\ UNCHANGED <<lastData, heard>>

AckTimeout(c) ==
    /\ call[c].pc = "awaitAck"
    /\ ~AckArrived
    /\ Return(c, FALSE)

(* The START asks for every block: all bits of its bitmap are set.         *)
SendStart(c, sent) ==
    /\ call[c].pc = "start"
    /\ IF sent THEN Goto(c, "awaitBlocks") /\ UNCHANGED <<pending, lastData, heard>>
               ELSE Return(c, FALSE)

(* Mutant: the verdict of the record is not looked at.                     *)
WakeOnDoneNotOk(c) ==
    /\ call[c].pc = "awaitBlocks"
    /\ pending.done
    /\ Return(c, TRUE)

WakeOnDone(c) ==
    /\ call[c].pc = "awaitBlocks"
    /\ pending.done
    /\ Return(c, pending.ok)

BlocksTimeout(c) ==
    /\ call[c].pc = "awaitBlocks"
    /\ ~pending.done
    /\ Return(c, FALSE)

----------------------------------------------------------------------------
(* onFrame(), the frames a peer sends to an initiator                      *)

OnAck(p) ==
    /\ pending' = IF pending.waitingAck /\ pending.peer = p
                  THEN [pending EXCEPT !.acked = TRUE, !.waitingAck = FALSE]
                  ELSE pending
    /\ heard' = [c \in Callers |->
                   IF call[c].to = p THEN [heard[c] EXCEPT !.ack = TRUE]
                   ELSE heard[c]]
    /\ UNCHANGED <<call, lastData>>

OnNack(p) ==
    /\ pending' = IF /\ pending.waitingAck \/ pending.waitingTransfers
                     /\ pending.peer = p
                  THEN [pending EXCEPT !.done = TRUE, !.ok = FALSE]
                  ELSE pending
    /\ UNCHANGED <<call, lastData, heard>>

(* History: the block as the callers see it that wait for blocks of p.     *)
Hear(p, seq, data) ==
    heard' = [c \in Callers |->
                IF call[c].to = p /\ call[c].pc \in {"start", "awaitBlocks"}
                THEN [heard[c] EXCEPT !.sent = @ \cup {seq}, !.blocks[seq] = data]
                ELSE heard[c]]

(* Mutants: a block counts before the ACK was seen; the last block ends    *)
(* the transfer; a block counts whoever sent it.                           *)
OnTransferEarly(p, seq, data) ==
    /\ pending' = IF pending.peer = p /\ seq \in Index
                  THEN [pending EXCEPT !.blocks[seq] = data,
                                       !.received = @ \cup {seq}]
                  ELSE pending
    /\ Hear(p, seq, data)
    /\ UNCHANGED <<call, lastData>>

OnTransferLastIsAll(p, seq, data) ==
    /\ IF pending.waitingTransfers /\ pending.peer = p /\ seq \in Index
       THEN LET blocks == [pending.blocks EXCEPT ![seq] = data]
                all    == seq = NumBlocks - 1
            IN  /\ pending' = [pending EXCEPT !.blocks = blocks,
                                 !.received = @ \cup {seq},
                                 !.done = @ \/ all, !.ok = @ \/ all]
                /\ lastData' = IF all THEN Assemble(blocks) ELSE lastData
       ELSE UNCHANGED <<pending, lastData>>
    /\ Hear(p, seq, data)
    /\ UNCHANGED call

OnTransferFromAnyone(p, seq, data) ==
    /\ IF pending.waitingTransfers /\ seq \in Index
       THEN LET blocks   == [pending.blocks EXCEPT ![seq] = data]
                received == pending.received \cup {seq}
                all      == received = Index
            IN  /\ pending' = [pending EXCEPT !.blocks = blocks,
                                 !.received = received,
                                 !.done = @ \/ all, !.ok = @ \/ all]
                /\ lastData' = IF all THEN Assemble(blocks) ELSE lastData
       ELSE UNCHANGED <<pending, lastData>>
    /\ Hear(p, seq, data)
    /\ UNCHANGED call

OnTransfer(p, seq, data) ==
    /\ IF pending.waitingTransfers /\ pending.peer = p /\ seq \in Index
       THEN LET blocks   == [pending.blocks EXCEPT ![seq] = data]
                received == pending.received \cup {seq}
                all      == received = Index
            IN  /\ pending' = [pending EXCEPT !.blocks = blocks,
                                 !.received = received,
                                 !.done = @ \/ all, !.ok = @ \/ all]
                /\ lastData' = IF all THEN Assemble(blocks) ELSE lastData
       ELSE UNCHANGED <<pending, lastData>>
    /\ Hear(p, seq, data)
    /\ UNCHANGED call

----------------------------------------------------------------------------
CallerStep(c) ==
    \/ \E sent \in BOOLEAN : SendRequest(c, sent) \/ SendStart(c, sent)
    \/ WakeOnAck(c)
    \/ AckTimeout(c)
    \/ WakeOnDone(c)
    \/ BlocksTimeout(c)

Answer ==
    \E p \in Peers :
        \/ OnAck(p)
        \/ OnNack(p)
        \/ \E seq \in Index, data \in Block : OnTransfer(p, seq, data)

Next ==
    \/ \E c \in Callers : Refuse(c)
    \/ \E c \in Callers, to \in Address : Begin(c, to)
    \/ \E c \in Callers : CallerStep(c)
    \/ Answer

Spec == Init /\ [][Next]_vars

----------------------------------------------------------------------------
(* When getBlock() returns true, the peer of this very call acknowledged   *)
(* it and then sent every block, and the cache holds just what it sent.    *)
SuccessMeansCached ==
    \A c \in Callers :
        call[c].success =>
            /\ heard[c].ack
            /\ heard[c].sent = Index
            /\ lastData = Assemble(heard[c].blocks)

(* The cache changes only through a call that has got every block: until   *)
(* then getLastData() returns what it returned before the call.            *)
CacheIsOldOrWhole ==
    \A c \in Callers :
        call[c].pc # "idle" =>
            \/ lastData = heard[c].cache
            \/ heard[c].sent = Index /\ lastData = Assemble(heard[c].blocks)
============================================================================
