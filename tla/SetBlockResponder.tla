------------------------- MODULE SetBlockResponder -------------------------
(***************************************************************************)
(* The receiving half of SetBlockManager: what onFrame() does with the     *)
(* REQUEST, TRANSFER, STATUS_REQUEST and ABORT frames of other nodes.      *)
(* onFrame() runs on the receive threads of the dispatcher, one for each   *)
(* interface, so frames that arrive on two interfaces are handled          *)
(* concurrently.  Every critical section of the mutex is one action; the   *)
(* handler and the sends run outside of it and are actions of their own.   *)
(***************************************************************************)
EXTENDS Naturals

CONSTANTS
    Clients,    \* addresses of the other nodes
    Threads,    \* receive threads, one per interface
    Hears,      \* Hears[t]: the peers whose frames arrive on t's interface
    Contents,   \* payloads of a TRANSFER frame, up to what properties tell apart
    Empty,      \* the block of a TRANSFER frame without data, or of none
    Capacity    \* blocks in the largest transfer (64 in the code)

ASSUME ResponderAssumption ==
    /\ Capacity \in Nat \ {0}
    /\ Hears \in [Threads -> SUBSET Clients]
    /\ Empty \notin Contents

BlockIndex == 0 .. Capacity - 1

VARIABLES
    handler,   \* whether a handler is registered
    sessions,  \* SetBlockManager::sessions
    rx,        \* locals and program counter of each receive thread
    taken,     \* history: how often (0, 1, "2 or more" times) the payload of
               \*   p's session was accepted by the handler or dropped for
               \*   want of one
    stale      \* history: threads whose session was replaced behind their back

serveVars == <<handler, sessions, rx, taken, stale>>

NoSession ==
    [exists |-> FALSE, accepted |-> FALSE, done |-> FALSE, numBlocks |-> 1,
     blocks |-> [i \in BlockIndex |-> Empty]]

Session ==
    [exists : BOOLEAN, accepted : BOOLEAN, done : BOOLEAN,
     numBlocks : 1 .. Capacity, blocks : [BlockIndex -> Contents \cup {Empty}]]

(* The blocks of a session that count as received, and those it expects.   *)
Received(s) == {i \in 0 .. s.numBlocks - 1 : s.blocks[i] # Empty}

(* Mutant: one block makes a payload complete.                             *)
CompleteAny(s) == Received(s) # {}

Complete(s) == Received(s) = 0 .. s.numBlocks - 1

(* Frames that answer a peer.                                              *)
Ack  == [type |-> "ack", done |-> FALSE, bitmap |-> {}]
Nack == [Ack EXCEPT !.type = "nack"]
Report(done, bitmap) == [type |-> "report", done |-> done, bitmap |-> bitmap]

(* A thread is idle in receive(), or in onFrame() about to call the        *)
(* handler, record its result, build the report or send a reply.           *)
Inside  == {"handler", "record", "report"}
ServePC == Inside \cup {"idle", "reply"}

Resting(p) == [pc |-> "idle", peer |-> p, done |-> FALSE, bitmap |-> {},
               blocks |-> [i \in BlockIndex |-> Empty], out |-> Ack]

Thread ==
    [pc : ServePC, peer : Clients, done : BOOLEAN, bitmap : SUBSET BlockIndex,
     blocks : [BlockIndex -> Contents \cup {Empty}],
     out : [type : {"ack", "nack", "report"}, done : BOOLEAN,
            bitmap : SUBSET BlockIndex]]

ServeTypeOK ==
    /\ handler \in BOOLEAN
    /\ sessions \in [Clients -> Session]
    /\ rx \in [Threads -> Thread]
    /\ taken \in [Clients -> 0 .. 2]
    /\ stale \in SUBSET Threads

ServeInit ==
    /\ handler = FALSE
    /\ sessions = [p \in Clients |-> NoSession]
    /\ \E p \in Clients : rx = [t \in Threads |-> Resting(p)]
    /\ taken = [p \in Clients |-> 0]
    /\ stale = {}

(* Thread t takes a frame of p off its interface.                          *)
Handles(t, p) == rx[t].pc = "idle" /\ p \in Hears[t]

(* t has nothing left to do for p but to send `frame'.                     *)
Respond(t, p, frame) ==
    rx' = [rx EXCEPT ![t] = [Resting(p) EXCEPT !.pc = "reply", !.out = frame]]

(* p's session becomes s: threads inside the old one act on a stale copy.  *)
Replace(t, p, s) ==
    /\ sessions' = [sessions EXCEPT ![p] = s]
    /\ taken' = [taken EXCEPT ![p] = 0]
    /\ stale' = (stale \cup {u \in Threads : rx[u].peer = p /\ rx[u].pc \in Inside})
                    \ {t}

Taken(p) == taken' = [taken EXCEPT ![p] = IF @ = 0 THEN 1 ELSE 2]

----------------------------------------------------------------------------
(* setHandler(), on an application thread                                  *)
SetHandler(h) ==
    /\ handler' = h
    /\ UNCHANGED <<sessions, rx, taken, stale>>

(* Mutants: the field taken for the number of blocks itself; and the done  *)
(* flag of the old session left standing.                                  *)
OnRequestNotPlusOne(t, p, low6, hasAddress) ==
    /\ Handles(t, p)
    /\ Replace(t, p, [NoSession EXCEPT !.exists = TRUE, !.numBlocks = low6,
                                       !.accepted = hasAddress])
    /\ Respond(t, p, Ack)
    /\ UNCHANGED handler

OnRequestKeepingDone(t, p, low6, hasAddress) ==
    /\ Handles(t, p)
    /\ Replace(t, p, [NoSession EXCEPT !.exists = TRUE, !.numBlocks = low6 + 1,
                                       !.accepted = hasAddress,
                                       !.done = sessions[p].done])
    /\ Respond(t, p, IF hasAddress THEN Ack ELSE Nack)
    /\ UNCHANGED handler

(* A REQUEST opens a new session over whatever there was; it is accepted   *)
(* unless it carries no block address.                                     *)
OnRequest(t, p, low6, hasAddress) ==
    /\ Handles(t, p)
    /\ Replace(t, p, [NoSession EXCEPT !.exists = TRUE, !.numBlocks = low6 + 1,
                                       !.accepted = hasAddress])
    /\ Respond(t, p, IF hasAddress THEN Ack ELSE Nack)
    /\ UNCHANGED handler

(* Mutant: the last block of a session is out of its bounds.               *)
OnTransferNotLast(t, p, seq, data) ==
    /\ Handles(t, p)
    /\ IF sessions[p].accepted /\ seq + 1 < sessions[p].numBlocks
       THEN /\ sessions' = [sessions EXCEPT ![p].blocks[seq] = data]
            /\ Respond(t, p, Ack)
       ELSE Respond(t, p, Nack) /\ UNCHANGED sessions
    /\ stale' = stale \ {t}
    /\ UNCHANGED <<handler, taken>>

(* A TRANSFER stores its data, even none, over the block it names.         *)
OnTransfer(t, p, seq, data) ==
    /\ Handles(t, p)
    /\ IF sessions[p].accepted /\ seq < sessions[p].numBlocks
       THEN /\ sessions' = [sessions EXCEPT ![p].blocks[seq] = data]
            /\ Respond(t, p, Ack)
       ELSE Respond(t, p, Nack) /\ UNCHANGED sessions
    /\ stale' = stale \ {t}
    /\ UNCHANGED <<handler, taken>>

(* Mutant: a complete payload goes to the handler at every status request. *)
OnStatusRequestAgain(t, p) ==
    LET s == sessions[p]
    IN  /\ Handles(t, p)
        /\ IF s.accepted
           THEN rx' = [rx EXCEPT ![t] =
                         [Resting(p) EXCEPT
                            !.pc = IF Complete(s) /\ handler
                                   THEN "handler" ELSE "report",
                            !.bitmap = Received(s), !.blocks = s.blocks]]
           ELSE Respond(t, p, Nack)
        /\ stale' = stale \ {t}
        /\ UNCHANGED <<handler, sessions, taken>>

(* First critical section of STATUS_REQUEST: a copy of the handler, of the *)
(* done flag and of the payload, if it is complete and still to be applied.*)
OnStatusRequest(t, p) ==
    LET s     == sessions[p]
        apply == Complete(s) /\ ~s.done
    IN  /\ Handles(t, p)
        /\ IF s.accepted
           THEN rx' = [rx EXCEPT ![t] =
                         [Resting(p) EXCEPT
                            !.pc = IF ~apply THEN "report"
                                   ELSE IF handler THEN "handler" ELSE "record",
                            !.done = s.done \/ (apply /\ ~handler),
                            !.bitmap = Received(s),
                            !.blocks = IF apply THEN s.blocks ELSE @]]
           ELSE Respond(t, p, Nack)
        /\ IF s.accepted /\ apply /\ ~handler THEN Taken(p) ELSE UNCHANGED taken
        /\ stale' = stale \ {t}
        /\ UNCHANGED <<handler, sessions>>

(* The copy of the handler runs on the copy of the payload, unlocked.      *)
RunHandler(t, result) ==
    /\ rx[t].pc = "handler"
    /\ rx' = [rx EXCEPT ![t].pc = "record", ![t].done = result]
    /\ IF result /\ t \notin stale THEN Taken(rx[t].peer) ELSE UNCHANGED taken
    /\ UNCHANGED <<handler, sessions, stale>>

RecordDone(t) ==
    /\ rx[t].pc = "record"
    /\ sessions' = [sessions EXCEPT ![rx[t].peer].done =
                      IF sessions[rx[t].peer].exists THEN rx[t].done ELSE @]
    /\ rx' = [rx EXCEPT ![t].pc = "report"]
    /\ UNCHANGED <<handler, taken, stale>>

(* Mutant: a complete payload is reported as processed.                    *)
BuildReportComplete(t) ==
    LET p == rx[t].peer
    IN  /\ rx[t].pc = "report"
        /\ Respond(t, p, Report(Complete(sessions[p]), Received(sessions[p])))
        /\ UNCHANGED <<handler, sessions, taken, stale>>

(* The report describes the session there is now; if there is none, what   *)
(* the thread remembers of the one it looked at.                           *)
BuildReport(t) ==
    LET p == rx[t].peer
        s == sessions[p]
    IN  /\ rx[t].pc = "report"
        /\ Respond(t, p, IF s.exists THEN Report(s.done, Received(s))
                        ELSE Report(rx[t].done, rx[t].bitmap))
        /\ UNCHANGED <<handler, sessions, taken, stale>>

OnAbort(t, p) ==
    /\ Handles(t, p)
    /\ Replace(t, p, NoSession)
    /\ Respond(t, p, Ack)
    /\ UNCHANGED handler

(* The result of the send is ignored.                                      *)
Reply(t) ==
    /\ rx[t].pc = "reply"
    /\ rx' = [rx EXCEPT ![t] = Resting(rx[t].peer)]
    /\ UNCHANGED <<handler, sessions, taken, stale>>

----------------------------------------------------------------------------
Frame(t, p) ==
    \/ \E low6 \in BlockIndex, hasAddress \in BOOLEAN :
          OnRequest(t, p, low6, hasAddress)
    \/ \E seq \in BlockIndex, data \in Contents \cup {Empty} :
          OnTransfer(t, p, seq, data)
    \/ OnStatusRequest(t, p)
    \/ OnAbort(t, p)

ThreadStep(t) ==
    \/ \E result \in BOOLEAN : RunHandler(t, result)
    \/ RecordDone(t)
    \/ BuildReport(t)
    \/ Reply(t)

ServeNext ==
    \/ \E h \in BOOLEAN : SetHandler(h)
    \/ \E t \in Threads, p \in Clients : Frame(t, p)
    \/ \E t \in Threads : ThreadStep(t)

ServeSpec == ServeInit /\ [][ServeNext]_serveVars

----------------------------------------------------------------------------
(* The payload of one transaction is accepted by the handler, or dropped   *)
(* because none is registered, at most once, however often the peer asks   *)
(* for the status and whatever the handler answered before.                *)
TakenOnce == \A p \in Clients : taken[p] \in {0, 1}

(* A session is marked done only when its own payload was disposed of, not *)
(* that of an earlier session of the same peer.                            *)
DoneMeansTaken == \A p \in Clients : sessions[p].done => taken[p] # 0

(* A peer is told "done" only while its payload has been disposed of.      *)
ReportMeansTaken ==
    \A t \in Threads :
        rx[t].pc = "reply" /\ rx[t].out.done => taken[rx[t].peer] # 0
============================================================================
