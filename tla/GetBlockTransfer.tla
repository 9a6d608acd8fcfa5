-------------------------- MODULE GetBlockTransfer --------------------------
(***************************************************************************)
(* One node that calls getBlock() and one that serves it, joined by a bus: *)
(* GetBlockInitiator and GetBlockResponder, composed over two FIFO         *)
(* channels.  As in SetBlockTransfer the bus, which is not code of the     *)
(* repository, may lose a frame or deliver one twice in a row, up to a     *)
(* bound each, but does not reorder what one node sends.                   *)
(*                                                                         *)
(* The data behind the handler may change at any time: each run of the     *)
(* handler reads a new version of it, whose number is the content of the   *)
(* blocks it returns.                                                      *)
(***************************************************************************)
EXTENDS Naturals, Sequences, FiniteSets, FiniteSetsExt

CONSTANTS
    MaxCalls,   \* bound: calls of getBlock()
    NumBlocks,  \* blocks of a transfer (64 in the code)
    MaxReads,   \* bound: runs of the handler
    MaxLoss,    \* bound: frames lost on the bus or refused by a send
    MaxDup,     \* bound: frames delivered twice
    Patient     \* whether a caller waits for the bus to fall silent, and the
                \*   other node to be idle, before it calls again

ASSUME TransferAssumption ==
    /\ MaxCalls \in Nat /\ NumBlocks \in Nat \ {0} /\ MaxReads \in Nat
    /\ MaxLoss \in Nat /\ MaxDup \in Nat /\ Patient \in BOOLEAN

Calls    == 1 .. MaxCalls
Versions == 1 .. MaxReads

VARIABLES
    pending, call, lastData, heard,     \* of the initiator
    handler, sessions, rx, answered,    \* of the responder
    toNode, toApp,                      \* frames on their way
    result,                             \* what became of each call
    readFor,                            \* the call that was open, if any, when
                                        \*   the handler read each version
    lost, duplicated,                   \* what the bus has done so far
    excused                             \* history: a call gave up on answers still
                                        \*   to come, or the handler refused

iniVars == <<pending, call, lastData, heard>>
resVars == <<handler, sessions, rx, answered>>
busVars == <<lost, duplicated, excused>>
vars    == <<iniVars, resVars, toNode, toApp, result, readFor, busVars>>

Ini == INSTANCE GetBlockInitiator
       WITH Callers <- {"app"}, Peers <- {"node"}, Broadcast <- "all",
            Contents <- Versions, Empty <- 0

Res == INSTANCE GetBlockResponder
       WITH Clients <- {"app"}, Threads <- {"rx"}, Readings <- Versions,
            Nothing <- 0, MaxBlocks <- NumBlocks,
            Hears <- [t \in {"rx"} |-> {"app"}]

(* Calls are made in the order of their numbers, one at a time.            *)
Current == Cardinality({k \in Calls : result[k] # "unused"})

Index    == 0 .. NumBlocks - 1
Requests == {"request", "start"}
Answers  == [type : {"ack", "nack", "transfer"}, seq : Index,
             data : Versions \cup {0}]
Answer(type, seq, data) == [type |-> type, seq |-> seq, data |-> data]

TypeOK ==
    /\ Ini!TypeOK
    /\ Res!ServeTypeOK
    /\ toNode \in Seq(Requests)
    /\ toApp \in Seq(Answers)
    /\ result \in [Calls -> {"unused", "open", "ok", "failed"}]
    /\ readFor \in Seq(0 .. MaxCalls) /\ Len(readFor) <= MaxReads
    /\ lost \in 0 .. MaxLoss
    /\ duplicated \in 0 .. MaxDup
    /\ excused \in BOOLEAN

Init ==
    /\ Ini!Init
    /\ Res!ServeInit
    /\ toNode = <<>> /\ toApp = <<>>
    /\ result = [k \in Calls |-> "unused"]
    /\ readFor = <<>>
    /\ lost = 0 /\ duplicated = 0 /\ excused = FALSE

----------------------------------------------------------------------------
(* The application                                                         *)

Register ==
    /\ ~handler
    /\ Res!SetHandler(TRUE)
    /\ UNCHANGED <<iniVars, toNode, toApp, result, readFor, busVars>>

Silent == toNode = <<>> /\ toApp = <<>> /\ rx["rx"].pc = "idle"

Begin(k) ==
    /\ k = Current + 1
    /\ Patient => Silent
    /\ handler
    /\ Ini!Begin("app", "node")
    /\ result' = [result EXCEPT ![k] = "open"]
    /\ UNCHANGED <<resVars, toNode, toApp, readFor, busVars>>

(* Whatever the step, a call that has come back to idle has its result.    *)
Returns ==
    result' = IF call'["app"].pc = "idle"
              THEN [result EXCEPT ![Current] =
                      IF call'["app"].success THEN "ok" ELSE "failed"]
              ELSE result

(* A send puts its frame on the bus, or reports failure.                   *)
CallerSends ==
    /\ \E ok \in BOOLEAN :
          /\ \/ /\ Ini!SendRequest("app", ok)
                /\ toNode' = IF ok THEN Append(toNode, "request") ELSE toNode
             \/ /\ Ini!SendStart("app", ok)
                /\ toNode' = IF ok THEN Append(toNode, "start") ELSE toNode
          /\ ~ok => lost < MaxLoss
          /\ lost' = IF ok THEN lost ELSE lost + 1
    /\ Returns
    /\ UNCHANGED <<resVars, toApp, readFor, duplicated, excused>>

CallerWakes ==
    /\ Ini!WakeOnAck("app") \/ Ini!WakeOnDone("app")
    /\ Returns
    /\ UNCHANGED <<resVars, toNode, toApp, readFor, busVars>>

CallerTimesOut ==
    /\ Ini!AckTimeout("app") \/ Ini!BlocksTimeout("app")
    /\ Returns
    /\ excused' = (excused \/ ~Silent)
    /\ UNCHANGED <<resVars, toNode, toApp, readFor, lost, duplicated>>

----------------------------------------------------------------------------
(* The bus: the head of a channel is received, once more or for the last   *)
(* time, or lost.                                                          *)

Receive(channel, rest) ==
    \/ rest = Tail(channel) /\ UNCHANGED duplicated
    \/ /\ duplicated < MaxDup
       /\ rest = channel
       /\ duplicated' = duplicated + 1

AppReceives ==
    /\ toApp # <<>>
    /\ LET frame == Head(toApp) IN
          \/ frame.type = "ack" /\ Ini!OnAck("node")
          \/ frame.type = "nack" /\ Ini!OnNack("node")
          \/ frame.type = "transfer" /\ Ini!OnTransfer("node", frame.seq, frame.data)
    /\ Receive(toApp, toApp')
    /\ UNCHANGED <<resVars, toNode, result, readFor, lost, excused>>

NodeReceives ==
    /\ toNode # <<>>
    /\ \/ Head(toNode) = "request" /\ Res!OnRequest("rx", "app", NumBlocks - 1, TRUE)
       \/ Head(toNode) = "start" /\ Res!OnStart("rx", "app", Index)
    /\ Receive(toNode, toNode')
    /\ UNCHANGED <<iniVars, toApp, result, readFor, lost, excused>>

BusLoses ==
    /\ lost < MaxLoss
    /\ \/ toNode # <<>> /\ toNode' = Tail(toNode) /\ UNCHANGED toApp
       \/ toApp # <<>> /\ toApp' = Tail(toApp) /\ UNCHANGED toNode
    /\ lost' = lost + 1
    /\ UNCHANGED <<iniVars, resVars, result, readFor, duplicated, excused>>

----------------------------------------------------------------------------
(* The serving node                                                        *)

Open == {k \in Calls : result[k] = "open"}

NodeReads ==
    /\ Len(readFor) < MaxReads
    /\ \E ok \in BOOLEAN :
          /\ Res!RunHandler("rx", ok, NumBlocks, Len(readFor) + 1)
          /\ excused' = (excused \/ ~ok)
    /\ readFor' = Append(readFor, IF Open = {} THEN 0 ELSE Current)
    /\ UNCHANGED <<iniVars, toNode, toApp, result, lost, duplicated>>

NodeStores ==
    /\ Res!Store("rx")
    /\ UNCHANGED <<iniVars, toNode, toApp, result, readFor, busVars>>

NodeSends ==
    /\ LET t == rx["rx"] IN
          \/ /\ Res!SendReply("rx")
             /\ toApp' = Append(toApp, Answer(t.out, 0, 0))
          \/ /\ Res!SendTransfer("rx")
             /\ toApp' = Append(toApp, Answer("transfer", Min(t.todo), t.content))
    /\ UNCHANGED <<iniVars, toNode, result, readFor, busVars>>

----------------------------------------------------------------------------
Caller == CallerSends \/ CallerWakes
Node   == NodeReceives \/ NodeReads \/ NodeStores \/ NodeSends

(* All calls made and answered, nothing on the bus: the system rests.      *)
Rest ==
    /\ \A k \in Calls : result[k] \in {"ok", "failed"}
    /\ Silent
    /\ UNCHANGED vars

Next ==
    \/ Register
    \/ \E k \in Calls : Begin(k)
    \/ Caller
    \/ CallerTimesOut
    \/ AppReceives
    \/ Node
    \/ BusLoses
    \/ Rest

Spec == Init /\ [][Next]_vars

(* Threads run, sends return, handlers return, frames that are not lost    *)
(* arrive, and a wait ends at its timeout if nothing else ends it.         *)
FairSpec ==
    /\ Spec
    /\ WF_vars(Caller)
    /\ WF_vars(CallerTimesOut)
    /\ WF_vars(AppReceives)
    /\ WF_vars(Node)

----------------------------------------------------------------------------
(* The cache is the payload of a transfer (getLastData()): it never mixes  *)
(* blocks of two runs of the handler, nor misses one.  That holds for a    *)
(* Patient caller only, and nothing in the code makes a caller patient: a  *)
(* call made while blocks of an earlier one are still to come takes them   *)
(* for its own.                                                            *)
CacheWhole ==
    lastData = <<>> \/ \E v \in Versions : lastData = [i \in 1 .. NumBlocks |-> v]

(* getBlock() returns true on a bus that loses nothing, with answers that  *)
(* come in time and a handler that accepts; frames that come twice, and    *)
(* the second run of the handler that they cause, do not make a call fail, *)
(* provided that the caller is Patient.                                    *)
FailureHasReason == \A k \in Calls : result[k] = "failed" => lost > 0 \/ excused

(* The two halves and the bus implement BlockRead, if the caller is        *)
(* Patient.                                                                *)
Abstract == INSTANCE BlockRead
            WITH None  <- 0,
                 cache <- IF lastData = <<>> THEN 0 ELSE readFor[lastData[1]]
ImplementsBlockRead == Abstract!Spec
============================================================================
