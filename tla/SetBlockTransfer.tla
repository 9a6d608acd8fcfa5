-------------------------- MODULE SetBlockTransfer --------------------------
(***************************************************************************)
(* One node that calls setBlock() and one that serves it, joined by a bus: *)
(* SetBlockInitiator and SetBlockResponder, composed over two FIFO         *)
(* channels.  The bus and the socket queues are not code of the            *)
(* repository: they may lose a frame, or deliver one twice in a row, up to *)
(* a bound each, but do not reorder what one node sends.                   *)
(*                                                                         *)
(* The payload of call k consists of blocks with content k, so that a      *)
(* payload put together from several calls shows.                          *)
(***************************************************************************)
EXTENDS Naturals, Sequences, FiniteSets

CONSTANTS
    MaxCalls,        \* bound: calls of setBlock()
    MaxBlocks,       \* bound: blocks of a call
    MaxLoss,         \* bound: frames lost on the bus or refused by a send
    MaxDup,          \* bound: frames delivered twice
    Patient,         \* whether a caller waits for the bus to fall silent, and
                     \*   the other node to be idle, before it calls again
    HandlerResults   \* what the registered handler may return

ASSUME TransferAssumption ==
    /\ MaxCalls \in Nat /\ MaxBlocks \in Nat \ {0}
    /\ MaxLoss \in Nat /\ MaxDup \in Nat /\ Patient \in BOOLEAN
    /\ HandlerResults \subseteq BOOLEAN

Calls == 1 .. MaxCalls

VARIABLES
    pending, call, heard,                   \* of the initiator
    handler, sessions, rx, taken, stale,    \* of the responder
    toNode, toApp,                          \* frames on their way
    sizes,                                  \* number of blocks of each call
    result,                                 \* what became of each call
    written,                                \* payloads disposed of, in order
    lost, duplicated,                       \* what the bus has done so far
    excused                                 \* history: a call gave up on answers still
                                            \*   to come, or the handler refused

iniVars == <<pending, call, heard>>
resVars == <<handler, sessions, rx, taken, stale>>
busVars == <<lost, duplicated, excused>>
vars    == <<iniVars, resVars, toNode, toApp, sizes, result, written, busVars>>

Ini == INSTANCE SetBlockInitiator
       WITH Callers <- {"app"}, Peers <- {"node"}, Broadcast <- "all"

Res == INSTANCE SetBlockResponder
       WITH Clients <- {"app"}, Threads <- {"rx"}, Contents <- Calls, Empty <- 0,
            Capacity <- MaxBlocks,
            Hears <- [t \in {"rx"} |-> {"app"}]

(* Calls are made in the order of their numbers, one at a time.            *)
Current == Cardinality({k \in Calls : result[k] # "unused"})

Payload(k) == [i \in 1 .. sizes[k] |-> k]
Count(k)   == Cardinality({i \in DOMAIN written : written[i] = Payload(k)})

Requests == [type : {"request", "transfer", "status", "abort"},
             low6 : 0 .. MaxBlocks - 1, data : Calls \cup {0}]
Request(type, low6, data) == [type |-> type, low6 |-> low6, data |-> data]
Answers == [type : {"ack", "nack", "report"}, done : BOOLEAN,
            bitmap : SUBSET (0 .. MaxBlocks - 1)]

TypeOK ==
    /\ Ini!TypeOK
    /\ Res!ServeTypeOK
    /\ toNode \in Seq(Requests)
    /\ toApp \in Seq(Answers)
    /\ sizes \in [Calls -> 1 .. MaxBlocks]
    /\ result \in [Calls -> {"unused", "open", "ok", "failed"}]
    /\ lost \in 0 .. MaxLoss
    /\ duplicated \in 0 .. MaxDup
    /\ excused \in BOOLEAN

Init ==
    /\ Ini!Init
    /\ Res!ServeInit
    /\ toNode = <<>> /\ toApp = <<>>
    /\ sizes = [k \in Calls |-> 1]
    /\ result = [k \in Calls |-> "unused"]
    /\ written = <<>>
    /\ lost = 0 /\ duplicated = 0 /\ excused = FALSE

----------------------------------------------------------------------------
(* The application                                                         *)

Register ==
    /\ ~handler
    /\ Res!SetHandler(TRUE)
    /\ UNCHANGED <<iniVars, toNode, toApp, sizes, result, written, busVars>>

Silent == toNode = <<>> /\ toApp = <<>> /\ rx["rx"].pc = "idle"

Begin(k, n) ==
    /\ k = Current + 1
    /\ Patient => Silent
    /\ handler
    /\ Ini!Begin("app", "node", n)
    /\ sizes' = [sizes EXCEPT ![k] = n]
    /\ result' = [result EXCEPT ![k] = "open"]
    /\ UNCHANGED <<resVars, toNode, toApp, written, busVars>>

(* Whatever the step, a call that has come back to idle has its result.    *)
Returns ==
    result' = IF call'["app"].pc = "idle"
              THEN [result EXCEPT ![Current] =
                      IF call'["app"].success THEN "ok" ELSE "failed"]
              ELSE result

(* A send puts its frame on the bus, or reports failure.                   *)
Send(frame, sent) ==
    /\ toNode' = IF sent THEN Append(toNode, frame) ELSE toNode
    /\ ~sent => lost < MaxLoss
    /\ lost' = IF sent THEN lost ELSE lost + 1

CallerSends ==
    LET c == call["app"] IN
    /\ \E sent \in BOOLEAN :
          \/ /\ Ini!SendRequest("app", sent)
             /\ Send(Request("request", c.numBlocks - 1, 0), sent)
          \/ /\ Ini!SendTransfer("app", sent)
             /\ Send(Request("transfer", c.next, Current), sent)
          \/ /\ Ini!SendStatusRequest("app", sent)
             /\ Send(Request("status", 0, 0), sent)
          \/ /\ Ini!SendAbort("app")
             /\ Send(Request("abort", 0, 0), sent)
    /\ Returns
    /\ UNCHANGED <<resVars, toApp, sizes, written, duplicated, excused>>

CallerThinks ==
    /\ \/ Ini!WakeOnAck("app")
       \/ Ini!Arm("app")
       \/ Ini!WakeOnReport("app")
    /\ Returns
    /\ UNCHANGED <<resVars, toNode, toApp, sizes, written, busVars>>

CallerTimesOut ==
    /\ Ini!AckTimeout("app") \/ Ini!ReportTimeout("app")
    /\ Returns
    /\ excused' = (excused \/ ~Silent)
    /\ UNCHANGED <<resVars, toNode, toApp, sizes, written, lost, duplicated>>

----------------------------------------------------------------------------
(* The bus: the head of a channel is received, once more or for the last   *)
(* time, or lost.                                                          *)

Receive(channel, rest) ==
    \/ rest = Tail(channel) /\ UNCHANGED duplicated
    \/ /\ duplicated < MaxDup
       /\ rest = channel
       /\ duplicated' = duplicated + 1

AppReceives ==
    /\ toApp # <<>>
    /\ LET frame == Head(toApp) IN
          \/ frame.type = "ack" /\ Ini!OnAck("node")
          \/ frame.type = "nack" /\ Ini!OnNack("node")
          \/ frame.type = "report" /\ Ini!OnReport("node", frame.done, frame.bitmap)
    /\ Receive(toApp, toApp')
    /\ UNCHANGED <<resVars, toNode, sizes, result, written, lost, excused>>

(* The payload that left the session in this step, if one did.             *)
Dispose ==
    LET n == sessions["app"].numBlocks IN
    written' = IF taken'["app"] > taken["app"]
               THEN Append(written, [i \in 1 .. n |-> rx'["rx"].blocks[i - 1]])
               ELSE written

NodeReceives ==
    /\ toNode # <<>>
    /\ LET frame == Head(toNode) IN
          \/ frame.type = "request" /\ Res!OnRequest("rx", "app", frame.low6, TRUE)
          \/ frame.type = "transfer" /\ Res!OnTransfer("rx", "app", frame.low6, frame.data)
          \/ frame.type = "status" /\ Res!OnStatusRequest("rx", "app")
          \/ frame.type = "abort" /\ Res!OnAbort("rx", "app")
    /\ Dispose
    /\ Receive(toNode, toNode')
    /\ UNCHANGED <<iniVars, toApp, sizes, result, lost, excused>>

BusLoses ==
    /\ lost < MaxLoss
    /\ \/ toNode # <<>> /\ toNode' = Tail(toNode) /\ UNCHANGED toApp
       \/ toApp # <<>> /\ toApp' = Tail(toApp) /\ UNCHANGED toNode
    /\ lost' = lost + 1
    /\ UNCHANGED <<iniVars, resVars, sizes, result, written, duplicated, excused>>

----------------------------------------------------------------------------
(* The serving node                                                        *)

NodeThinks ==
    /\ \/ \E answer \in HandlerResults :
             /\ Res!RunHandler("rx", answer)
             /\ excused' = (excused \/ ~answer)
       \/ Res!RecordDone("rx") /\ UNCHANGED excused
       \/ Res!BuildReport("rx") /\ UNCHANGED excused
    /\ Dispose
    /\ UNCHANGED <<iniVars, toNode, toApp, sizes, result, lost, duplicated>>

NodeReplies ==
    /\ Res!Reply("rx")
    /\ toApp' = Append(toApp, rx["rx"].out)
    /\ UNCHANGED <<iniVars, toNode, sizes, result, written, busVars>>

----------------------------------------------------------------------------
Caller == CallerSends \/ CallerThinks
Node   == NodeReceives \/ NodeThinks \/ NodeReplies

(* All calls made and answered, nothing on the bus: the system rests.      *)
Rest ==
    /\ \A k \in Calls : result[k] \in {"ok", "failed"}
    /\ Silent
    /\ UNCHANGED vars

Next ==
    \/ Register
    \/ \E k \in Calls, n \in 1 .. MaxBlocks : Begin(k, n)
    \/ Caller
    \/ CallerTimesOut
    \/ AppReceives
    \/ Node
    \/ BusLoses
    \/ Rest

Spec == Init /\ [][Next]_vars

(* Threads run, sends return, handlers return, frames that are not lost    *)
(* arrive, and a wait ends at its timeout if nothing else ends it.         *)
FairSpec ==
    /\ Spec
    /\ WF_vars(Caller)
    /\ WF_vars(CallerTimesOut)
    /\ WF_vars(AppReceives)
    /\ WF_vars(Node)

----------------------------------------------------------------------------
(* When setBlock() returns true, the other node has disposed of all of the *)
(* payload of that very call (the @return clause of setBlock).             *)
SuccessMeansWritten == \A k \in Calls : result[k] = "ok" => Count(k) > 0

(* The handler is given the payload of one call, all of it and nothing of  *)
(* another call, whatever the losses, provided that the caller is Patient. *)
PayloadsWhole == \A i \in DOMAIN written : \E k \in Calls : written[i] = Payload(k)

(* setBlock() returns true on a bus that loses nothing, with answers that  *)
(* come in time and a handler that accepts: frames that come twice, and    *)
(* the acknowledgement of the last ABORT, do not make a call fail, provided*)
(* that the caller is Patient.                                             *)
FailureHasReason == \A k \in Calls : result[k] = "failed" => lost > 0 \/ excused

(* The two halves and the bus implement BlockWrite, if the caller is       *)
(* Patient.                                                                *)
Abstract == INSTANCE BlockWrite WITH writes <- [k \in Calls |-> Count(k)]
ImplementsBlockWrite == Abstract!Spec
============================================================================
