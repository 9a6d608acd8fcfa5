---------------------------- MODULE CanTsProtocol ----------------------------
(***************************************************************************)
(* CanTsProtocol on every node of a bus.  Each node has application        *)
(* threads and one receive thread, the one that its dispatcher runs for    *)
(* the interface: it takes one frame after the other into onFrame(), and   *)
(* runs the registered handlers, which may make calls of their own.        *)
(* sendTelecommand() ("tc") and requestTelemetry() ("tm") wait for an      *)
(* answer; unsolicited telemetry, of which a keep-alive is one ("utm"),    *)
(* and time sync ("ts") are sent and forgotten.  The block managers, which *)
(* onFrame() forwards to, have modules of their own.                       *)
(*                                                                         *)
(* The bus is not code of the repository: every frame reaches every node   *)
(* but its sender, in one order, and up to MaxLoss of them get lost.       *)
(* Requests are numbered; only the history variables look at the numbers,  *)
(* and that of a telemetry request also stands for the payload it returns. *)
(***************************************************************************)
EXTENDS Naturals, Sequences

CONSTANTS
    Nodes,     \* the addresses of the nodes
    Apps,      \* application threads of a node
    Callers,   \* the nodes whose application makes calls; the others serve
    Receiver,  \* the receive thread of a node
    Everyone,  \* address 0: every node takes the frame, none has this address
    KeepAlive, \* address 1, the destination of keep-alives
    Targets,   \* the addresses and channels that each node's calls are made to
    Channels,
    Preset,    \* the kinds whose handlers are registered before the nodes start
    Results,   \* what the handlers may return
    MaxCalls,  \* bound: calls that get past the busy check, and casts
    MaxLoss    \* bound: frames lost on the bus or refused by a send

Address == Nodes \cup {Everyone, KeepAlive}
Awaited == {"tc", "tm"}
Casts   == {"utm", "ts"}
Kinds   == Awaited \cup Casts

ASSUME ProtocolAssumption ==
    /\ Everyone \notin Nodes
    /\ Receiver \notin Apps
    /\ Callers \subseteq Nodes
    /\ Targets \in [Nodes -> SUBSET (Address \X Channels)]
    /\ Channels # {}
    /\ Preset \in [Nodes -> SUBSET Kinds]
    /\ Results \subseteq BOOLEAN
    /\ MaxCalls \in Nat /\ MaxLoss \in Nat

Threads   == Apps \cup {Receiver}
Ids       == 1 .. MaxCalls
None      == 0  \* no telemetry cached: lastTelemetryDlc is zero
NoChannel == CHOOSE ch \in Channels : TRUE

VARIABLES
    pending,   \* pendingTc and pendingTm of each node
    lastTm,    \* payload in lastTelemetry
    handlers,  \* the kinds that a handler is registered for
    peers,     \* the keys of `peers': whom isPeerConnected() knows
    call,      \* locals and program counter of each thread's call
    rx,        \* the frame whose handler runs, and whether there is one
    inbox,     \* frames on their way to each node
    count,     \* number of calls and casts so far
    lost,      \* number of frames lost so far
    accepted,  \* history: requests that each node's handlers accepted
    overdue,   \* history: what an answer that comes late may be taken for
    asked,     \* history: the last telemetry request of each node
    spoken     \* history: the nodes that have sent a frame

nodeVars    == <<pending, lastTm, handlers, peers>>
threadVars  == <<call, rx>>
busVars     == <<inbox, lost, spoken>>
historyVars == <<count, accepted, overdue, asked>>
vars        == <<nodeVars, threadVars, busVars, historyVars>>

PendingTcTm == [waiting : BOOLEAN, done : BOOLEAN, ok : BOOLEAN,
                peer : Address, channel : Channels]

NoPending == [waiting |-> FALSE, done |-> FALSE, ok |-> FALSE,
              peer |-> Everyone, channel |-> NoChannel]

Frame == {f \in [kind : Kinds, what : {"req", "ack", "nack", "cast"}, from : Nodes,
                 to : Address, channel : Channels, id : Ids \cup {0}] :
             f.what = "cast" <=> f.kind \in Casts}
Topic == [kind : Awaited, channel : Channels, peer : Nodes]

NoFrame == [kind |-> "none"]
Idle    == [handler |-> FALSE, frame |-> NoFrame]

(* What became of an answered call.  The code returns true for "ok", and   *)
(* false for every other call.                                             *)
Outcomes == {"none", "ok", "refused"}

Call == [pc : {"idle", "send", "wait"}, kind : Awaited, to : Address,
         channel : Channels, id : Ids \cup {0}, outcome : Outcomes]

NoCall == [pc |-> "idle", kind |-> "tc", to |-> Everyone,
           channel |-> NoChannel, id |-> 0, outcome |-> "none"]

Busy(n, t) == call[n][t].pc # "idle"

(* A record that no call waits on is blank; the receive thread makes calls *)
(* only from within the handler of a frame; the rest is typing.            *)
TypeOK ==
    /\ pending \in [Nodes -> [Awaited -> PendingTcTm]]
    /\ \A n \in Nodes, k \in Awaited :
           pending[n][k] = NoPending \/ pending[n][k].waiting
    /\ lastTm \in [Nodes -> Ids \cup {None}]
    /\ handlers \in [Nodes -> SUBSET Kinds]
    /\ peers \in [Nodes -> SUBSET Nodes]
    /\ call \in [Nodes -> [Threads -> Call]]
    /\ rx \in [Nodes -> [handler : BOOLEAN, frame : Frame \cup {NoFrame}]]
    /\ \A n \in Nodes : Busy(n, Receiver) => rx[n].handler
    /\ \A n \in Nodes : rx[n].handler => rx[n].frame # NoFrame
    /\ inbox \in [Nodes -> Seq(Frame)]
    /\ count \in 0 .. MaxCalls
    /\ lost \in 0 .. MaxLoss
    /\ accepted \in [Nodes -> SUBSET (Ids \cup {0})]
    /\ overdue \in [Nodes -> SUBSET Topic]
    /\ asked \in [Nodes -> Ids \cup {0}]
    /\ spoken \in SUBSET Nodes

Init ==
    /\ pending = [n \in Nodes |-> [k \in Awaited |-> NoPending]]
    /\ lastTm = [n \in Nodes |-> None]
    /\ handlers = Preset
    /\ peers = [n \in Nodes |-> {}]
    /\ call = [n \in Nodes |-> [t \in Threads |-> NoCall]]
    /\ rx = [n \in Nodes |-> Idle]
    /\ inbox = [n \in Nodes |-> <<>>]
    /\ count = 0 /\ lost = 0
    /\ accepted = [n \in Nodes |-> {}]
    /\ overdue = [n \in Nodes |-> {}]
    /\ asked = [n \in Nodes |-> 0]
    /\ spoken = {}

----------------------------------------------------------------------------
(* sendFrame()                                                             *)

Transmit(f) ==
    /\ inbox' = [n \in Nodes |-> IF n = f.from THEN inbox[n] ELSE Append(inbox[n], f)]
    /\ spoken' = spoken \cup {f.from}

(* An application thread may make a call at any time, the receive thread   *)
(* while it runs a handler.                                                *)
MayCall(n, t) ==
    /\ ~Busy(n, t)
    /\ IF t = Receiver THEN rx[n].handler ELSE n \in Callers

(* sendUnsolicitedTelemetry(), sendKeepAlive() and broadcastTimeSync()     *)
Cast(n, t, kind, to) ==
    /\ MayCall(n, t)
    /\ kind = "ts" => to = Everyone
    /\ count < MaxCalls /\ count' = count + 1
    /\ Transmit([kind |-> kind, what |-> "cast", from |-> n, to |-> to,
                 channel |-> NoChannel, id |-> 0])
    /\ UNCHANGED <<nodeVars, threadVars, lost, accepted, overdue, asked>>

----------------------------------------------------------------------------
(* sendTelecommand() and requestTelemetry(), which differ in `kind' only   *)

Return(n, t, outcome) ==
    call' = [call EXCEPT ![n][t] = [@ EXCEPT !.pc = "idle", !.outcome = outcome]]

Fail(n, t) == call' = [call EXCEPT ![n][t] = NoCall]

(* Mutant: the call only takes down its flag.                              *)
ClearWaiting(n, kind) ==
    pending' = [pending EXCEPT ![n][kind] = [@ EXCEPT !.waiting = FALSE]]

Clear(n, kind) == pending' = [pending EXCEPT ![n][kind] = NoPending]

(* Another call of the same kind is under way on this node.                *)
TurnAway(n, t, kind) ==
    /\ MayCall(n, t)
    /\ pending[n][kind].waiting
    /\ Fail(n, t)
    /\ UNCHANGED <<pending, lastTm, handlers, peers, rx, busVars, historyVars>>

(* Mutant: the busy check is left out.                                     *)
BeginThoughBusy(n, t, kind, to, channel) ==
    /\ MayCall(n, t)
    /\ count < MaxCalls /\ count' = count + 1
    /\ pending' = [pending EXCEPT ![n][kind] =
                     [NoPending EXCEPT !.waiting = TRUE, !.peer = to, !.channel = channel]]
    /\ call' = [call EXCEPT ![n][t] =
                  [pc |-> "send", kind |-> kind, to |-> to, channel |-> channel,
                   id |-> count', outcome |-> "none"]]
    /\ asked' = IF kind = "tm" THEN [asked EXCEPT ![n] = count'] ELSE asked
    /\ UNCHANGED <<lastTm, handlers, peers, rx, busVars, accepted, overdue>>

Begin(n, t, kind, to, channel) ==
    /\ MayCall(n, t)
    /\ ~pending[n][kind].waiting
    /\ count < MaxCalls /\ count' = count + 1
    /\ pending' = [pending EXCEPT ![n][kind] =
                     [NoPending EXCEPT !.waiting = TRUE, !.peer = to, !.channel = channel]]
    /\ call' = [call EXCEPT ![n][t] =
                  [pc |-> "send", kind |-> kind, to |-> to, channel |-> channel,
                   id |-> count', outcome |-> "none"]]
    /\ asked' = IF kind = "tm" THEN [asked EXCEPT ![n] = count'] ELSE asked
    /\ UNCHANGED <<lastTm, handlers, peers, rx, busVars, accepted, overdue>>

Send(n, t) ==
    LET c == call[n][t] IN
    /\ c.pc = "send"
    /\ Transmit([kind |-> c.kind, what |-> "req", from |-> n, to |-> c.to,
                 channel |-> c.channel, id |-> c.id])
    /\ call' = [call EXCEPT ![n][t] = [@ EXCEPT !.pc = "wait"]]
    /\ UNCHANGED <<nodeVars, rx, lost, historyVars>>

(* There is no transmitter, or its send() reports an error.                *)
SendFails(n, t) ==
    /\ call[n][t].pc = "send"
    /\ lost < MaxLoss /\ lost' = lost + 1
    /\ Clear(n, call[n][t].kind)
    /\ Fail(n, t)
    /\ UNCHANGED <<lastTm, handlers, peers, rx, inbox, spoken, historyVars>>

Wake(n, t) ==
    LET p == pending[n][call[n][t].kind] IN
    /\ call[n][t].pc = "wait"
    /\ p.done
    /\ Return(n, t, IF p.ok THEN "ok" ELSE "refused")
    /\ Clear(n, call[n][t].kind)
    /\ UNCHANGED <<lastTm, handlers, peers, rx, busVars, historyVars>>

(* Mutant: wait() in place of wait_for().                                  *)
NoTimeOut(n, t) ==
    /\ call[n][t].pc = "none"
    /\ Fail(n, t)
    /\ UNCHANGED <<nodeVars, rx, busVars, historyVars>>

(* The answer, if one comes, will still match a call that is made to the   *)
(* same peer on the same channel.                                          *)
TimeOut(n, t) ==
    LET c == call[n][t] IN
    /\ c.pc = "wait"
    /\ ~pending[n][c.kind].done
    /\ Fail(n, t)
    /\ Clear(n, c.kind)
    /\ overdue' = [overdue EXCEPT ![n] = @ \cup
          {a \in Topic : /\ a.kind = c.kind /\ a.channel = c.channel
                         /\ c.to \in {a.peer, Everyone}}]
    /\ UNCHANGED <<lastTm, handlers, peers, rx, busVars, count, accepted, asked>>

----------------------------------------------------------------------------
(* What is asked without a frame: isPeerConnected(), but for the age of the*)
(* last frame, which it compares with a time of the caller's choice.       *)

getLastTelemetry(n)   == lastTm[n]
isPeerConnected(n, m) == m \in peers[n]

----------------------------------------------------------------------------
(* onFrame(), on the receive thread                                        *)

(* The set...Handler() functions                                           *)
SetHandler(n, kind) ==
    /\ handlers' = [handlers EXCEPT ![n] = @ \cup {kind}]
    /\ UNCHANGED <<pending, lastTm, peers, threadVars, busVars, historyVars>>

First(n) == Head(inbox[n])
ForMe(n) == First(n).to \in {n, Everyone}

(* Mutants: a frame is taken while a handler runs; and a frame for another *)
(* node is rejected before its sender is noted.                            *)
TakeMeanwhile(n) ==
    /\ inbox[n] # <<>>
    /\ inbox' = [inbox EXCEPT ![n] = Tail(@)]
    /\ peers' = [peers EXCEPT ![n] = @ \cup {First(n).from}]

TakeNotingMine(n) ==
    /\ rx[n].frame = NoFrame
    /\ inbox[n] # <<>>
    /\ inbox' = [inbox EXCEPT ![n] = Tail(@)]
    /\ peers' = [peers EXCEPT ![n] = IF ForMe(n) THEN @ \cup {First(n).from} ELSE @]

(* The thread is back from the frame before, and notePeerAlive() comes     *)
(* first of all.                                                           *)
Take(n) ==
    /\ rx[n].frame = NoFrame
    /\ inbox[n] # <<>>
    /\ inbox' = [inbox EXCEPT ![n] = Tail(@)]
    /\ peers' = [peers EXCEPT ![n] = @ \cup {First(n).from}]

(* A frame for another node.                                               *)
Reject(n) ==
    /\ Take(n)
    /\ ~ForMe(n)
    /\ UNCHANGED <<pending, lastTm, handlers, threadVars, lost, spoken,
                   historyVars>>

(* A REQ, or a frame that wants no answer: the handler is copied under the *)
(* lock.  Without one the latter are done with.                            *)
TakeForHandler(n) ==
    LET f == First(n) IN
    /\ Take(n)
    /\ ForMe(n) /\ f.what \in {"req", "cast"}
    /\ rx' = IF f.what = "cast" /\ f.kind \notin handlers[n] THEN rx
             ELSE [rx EXCEPT ![n] = [handler |-> f.kind \in handlers[n], frame |-> f]]
    /\ UNCHANGED <<pending, lastTm, handlers, call, lost, spoken, historyVars>>

(* Mutant: an answer on whatever channel.                                  *)
MatchesAnyChannel(q, f) == q.waiting /\ q.peer = f.from

Matches(q, f) == q.waiting /\ q.peer = f.from /\ q.channel = f.channel

(* Mutant: a refusal is taken for consent.                                 *)
TakeAnswerAllOk(n) ==
    LET f == First(n) IN
    /\ Take(n)
    /\ ForMe(n) /\ f.what \in {"ack", "nack"}
    /\ IF Matches(pending[n][f.kind], f)
       THEN /\ pending' = [pending EXCEPT ![n][f.kind] =
                              [@ EXCEPT !.done = TRUE, !.ok = TRUE]]
            /\ lastTm' = IF f.kind = "tc" THEN lastTm ELSE [lastTm EXCEPT ![n] = f.id]
       ELSE UNCHANGED <<pending, lastTm>>
    /\ UNCHANGED <<handlers, threadVars, lost, spoken, historyVars>>

(* ACK or NACK.  Telemetry is cached either way; the NACK is empty.        *)
TakeAnswer(n) ==
    LET f == First(n) IN
    /\ Take(n)
    /\ ForMe(n) /\ f.what \in {"ack", "nack"}
    /\ IF Matches(pending[n][f.kind], f)
       THEN /\ pending' = [pending EXCEPT ![n][f.kind] =
                              [@ EXCEPT !.done = TRUE, !.ok = (f.what = "ack")]]
            /\ lastTm' = IF f.kind = "tc" THEN lastTm
                         ELSE [lastTm EXCEPT ![n] = IF f.what = "ack" THEN f.id ELSE None]
       ELSE UNCHANGED <<pending, lastTm>>
    /\ UNCHANGED <<handlers, threadVars, lost, spoken, historyVars>>

(* The handler, if there is one, returns, and a REQ is answered.           *)
Serve(n, result) ==
    LET f  == rx[n].frame
        ok == rx[n].handler /\ result
    IN  /\ f # NoFrame /\ f.what = "req"
        /\ ~Busy(n, Receiver)
        /\ accepted' = IF ok THEN [accepted EXCEPT ![n] = @ \cup {f.id}] ELSE accepted
        /\ Transmit([f EXCEPT !.what = IF ok THEN "ack" ELSE "nack",
                              !.from = n, !.to = f.from])
        /\ rx' = [rx EXCEPT ![n] = Idle]
        /\ UNCHANGED <<nodeVars, call, lost, count, overdue, asked>>

ServeCast(n) ==
    /\ rx[n].frame # NoFrame /\ rx[n].frame.what = "cast"
    /\ ~Busy(n, Receiver)
    /\ rx' = [rx EXCEPT ![n] = Idle]
    /\ UNCHANGED <<nodeVars, call, busVars, historyVars>>

(* The bus loses a frame on its way to n.                                  *)
Lose(n) ==
    /\ lost < MaxLoss /\ lost' = lost + 1
    /\ inbox[n] # <<>>
    /\ inbox' = [inbox EXCEPT ![n] = Tail(@)]
    /\ UNCHANGED <<nodeVars, threadVars, spoken, historyVars>>

----------------------------------------------------------------------------
CallProceeds(n, t) == Send(n, t) \/ SendFails(n, t) \/ Wake(n, t) \/ TimeOut(n, t)

Receives(n) ==
    \/ Reject(n) \/ TakeForHandler(n) \/ TakeAnswer(n)
    \/ ServeCast(n)
    \/ \E result \in Results : Serve(n, result)

Calls(n, t) ==
    \/ \E kind \in Awaited :
          \/ TurnAway(n, t, kind)
          \/ \E target \in Targets[n] : Begin(n, t, kind, target[1], target[2])
    \/ \E to \in {KeepAlive, Everyone} \cup {target[1] : target \in Targets[n]} :
          \E kind \in Casts : Cast(n, t, kind, to)
    \/ CallProceeds(n, t)

Next ==
    \E n \in Nodes :
        \/ \E t \in Threads : Calls(n, t)
        \/ \E kind \in Kinds : SetHandler(n, kind)
        \/ Receives(n)
        \/ Lose(n)

Spec == Init /\ [][Next]_vars

(* Threads run, sends and handlers return, frames that are not lost arrive,*)
(* and a wait ends at its timeout if nothing else ends it.                 *)
FairSpec ==
    /\ Spec
    /\ \A n \in Nodes :
          /\ WF_vars(Receives(n))
          /\ \A t \in Threads : WF_vars(CallProceeds(n, t))

----------------------------------------------------------------------------
Owns(n, t, kind) == Busy(n, t) /\ call[n][t].kind = kind

(* The busy check gives each of the two records one owner at a time, who   *)
(* keeps it until its call returns; and no call, however it returns, leaves*)
(* a record without an owner, which would turn all later calls away.       *)
OneOwner ==
    \A n \in Nodes, kind \in Awaited :
        /\ \A t, u \in Threads : Owns(n, t, kind) /\ Owns(n, u, kind) => t = u
        /\ pending[n][kind].waiting <=> \E t \in Threads : Owns(n, t, kind)

(* No earlier call of the same kind to the same peer and channel has timed *)
(* out, whose answer this one may take for its own.                        *)
Unmistakable(n, t) ==
    LET c == call[n][t] IN
    [kind |-> c.kind, channel |-> c.channel, peer |-> c.to] \notin overdue[n]

(* The verdict of a call is the verdict of the peer's handler on this very *)
(* request, whatever else is under way, unless an overdue answer matches.  *)
VerdictIsPeers ==
    \A n \in Nodes, t \in Threads :
        LET c      == call[n][t]
            agreed == c.to \in Nodes /\ c.id \in accepted[c.to]
        IN  /\ Unmistakable(n, t) /\ c.outcome = "ok" => agreed
            /\ Unmistakable(n, t) /\ c.outcome = "refused" => ~agreed

(* What getLastTelemetry() returns after a successful requestTelemetry()   *)
(* is the payload that answered it, late answers to other requests or not, *)
(* until another request is made (which wipes it when it is refused).      *)
TelemetryIsOwn ==
    \A n \in Nodes, t \in Threads :
        LET c == call[n][t] IN
        c.outcome = "ok" /\ c.kind = "tm" /\ c.id = asked[n] /\ Unmistakable(n, t)
            => getLastTelemetry(n) = c.id

(* On a node with one interface, a call that a handler makes is never      *)
(* answered: the thread that would take the answer is the one that waits   *)
(* for it.  Nor is a call to address 0 ever answered, though every node    *)
(* carries it out.                                                         *)
NestedUnanswered ==
    \A n \in Nodes, t \in Threads :
        call[n][t].outcome \in {"ok", "refused"}
            => t # Receiver /\ call[n][t].to \in Nodes \ {n}

(* A node that has sent anything, to whomever, is known to every node that *)
(* has taken all that was sent: isPeerConnected(), which "any successfully *)
(* decoded frame from the peer refreshes", keep-alives above all.          *)
SpokenMeansKnown ==
    \A n, m \in Nodes :
        n # m /\ m \in spoken /\ lost = 0 /\ (\A i \in DOMAIN inbox[n] : inbox[n][i].from # m)
            => isPeerConnected(n, m)

(* When no more calls are made, all nodes come to rest: every call returns *)
(* and every frame is taken, whoever loses or withholds an answer, whatever*)
(* address a call is made to, and though handlers wait for each other.     *)
AtRest ==
    \A n \in Nodes :
        inbox[n] = <<>> /\ rx[n].frame = NoFrame /\ \A t \in Threads : ~Busy(n, t)

ComesToRest == []<>AtRest
=============================================================================
