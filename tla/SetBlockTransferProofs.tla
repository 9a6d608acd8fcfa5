----------------------- MODULE SetBlockTransferProofs -----------------------
(***************************************************************************)
(* Proofs about SetBlockTransfer, for any numbers of calls, blocks, losses *)
(* and repetitions.                                                        *)
(*                                                                         *)
(* Each half takes only steps of its own specification, so what            *)
(* SetBlockInitiatorProofs and SetBlockResponderProofs prove holds of it;  *)
(* TInv says what the frames between the two carry, and what both know of  *)
(* the call under way; GoodInv says what a bus that loses nothing adds.    *)
(* These need a caller that lets the bus fall silent between calls         *)
(* (Patient), which setBlock() leaves to it; SomeInv says what is left     *)
(* without it.                                                             *)
(***************************************************************************)
EXTENDS SetBlockTransfer, SequenceTheorems, FiniteSetTheorems, TLAPS

IniP == INSTANCE SetBlockInitiatorProofs
        WITH Callers <- {"app"}, Peers <- {"node"}, Broadcast <- "all"

ResP == INSTANCE SetBlockResponderProofs
        WITH Clients <- {"app"}, Threads <- {"rx"}, Contents <- Calls, Empty <- 0,
             Capacity <- MaxBlocks,
             Hears <- [t \in {"rx"} |-> {"app"}]

Halves == IniP!IInv /\ ResP!IInv

caller  == call["app"]
session == sessions["app"]
thread  == rx["rx"]
writes  == [k \in Calls |-> Count(k)]

(* The frames in a channel, in no order.                                   *)
Carried(q) == {q[i] : i \in DOMAIN q}
ToNode == Carried(toNode)
ToApp  == Carried(toApp)

Sent(type) == \E f \in ToNode : f.type = type
Quiet == ToNode = {} /\ ToApp = {} /\ thread.pc = "idle"

(* The calls made are the first Current ones, and the last one is open     *)
(* just while the caller is in it.                                         *)
CallsInv ==
    /\ result \in [Calls -> {"unused", "open", "ok", "failed"}]
    /\ sizes \in [Calls -> 1 .. MaxBlocks]
    /\ {k \in Calls : result[k] # "unused"} = 1 .. Current
    /\ \A k \in Calls : result[k] = "open" => k = Current /\ caller.pc # "idle"
    /\ caller.pc # "idle" => /\ Current \in Calls /\ result[Current] = "open"
                             /\ caller.numBlocks = sizes[Current]
                             /\ caller.to = "node"

(* A call sends its frames in this order; at pc, those of smaller rank.    *)
Rank(type) ==
    CASE type = "request"  -> 0
      [] type = "transfer" -> 1
      [] type = "status"   -> 2
      [] type = "abort"    -> 3

Below(pc) ==
    CASE pc = "request" -> 0
      [] pc = "awaitAck" -> 1
      [] pc \in {"transfer", "arm", "status"} -> 2
      [] pc \in {"awaitReport", "abort"} -> 3
      [] pc = "idle" -> 4

InOrder(q) == \A i, j \in DOMAIN q : i < j => Rank(q[i].type) <= Rank(q[j].type)

(* Whatever is on its way belongs to the current call.                     *)
FramesInv ==
    /\ toNode \in Seq(Requests) /\ toApp \in Seq(Answers) /\ InOrder(toNode)
    /\ \A f \in ToNode :
          /\ Rank(f.type) < Below(caller.pc)
          /\ f.type = "request" => f.low6 + 1 = sizes[Current]
          /\ f.type = "transfer" => f.low6 < sizes[Current] /\ f.data = Current
    /\ ~Quiet => Current \in Calls
    /\ caller.pc = "request" => Quiet

(* The node has acted on the request of the current call.                  *)
Answered ==
    \/ ToApp # {} \/ thread.pc # "idle" \/ pending.requestAcked
    \/ caller.pc \in {"transfer", "arm", "status", "awaitReport", "abort"}
    \/ \E f \in ToNode : f.type # "request"

(* From then on the session is that of the current call.                   *)
SessionInv ==
    /\ Answered /\ session.accepted =>
          /\ session.numBlocks = sizes[Current]
          /\ \A i \in 0 .. MaxBlocks - 1 : session.blocks[i] \in {0, Current}
          /\ writes[Current] = taken["app"]
    /\ thread.pc \in {"handler", "record", "report"}
          => session.accepted /\ ~Sent("request")
    /\ thread.pc = "handler" =>
          /\ thread.blocks = session.blocks
          /\ \A i \in 0 .. session.numBlocks - 1 : session.blocks[i] # 0

(* Payloads are written whole and once, "done" means written, and a call   *)
(* whose request has yet to be acted on has not been written.              *)
Payloads == UNION {[1 .. n -> Calls] : n \in 1 .. MaxBlocks}

WriteInv ==
    /\ written \in Seq(Payloads)
    /\ \A i \in DOMAIN written : \E k \in 1 .. Current : written[i] = Payload(k)
    /\ \A k \in Calls : writes[k] \in {0, 1}
    /\ Sent("request") \/ caller.pc = "request" => writes[Current] = 0
    /\ \A f \in ToApp : f.done => writes[Current] = 1
    /\ thread.pc = "reply" /\ thread.out.done => writes[Current] = 1
    /\ pending.ok /\ pending.done => writes[Current] = 1
    /\ caller.pc = "abort" /\ caller.success => writes[Current] = 1
    /\ \A k \in Calls : result[k] = "ok" => writes[k] = 1

TInv == CallsInv /\ FramesInv /\ SessionInv /\ WriteInv

(* Whatever the caller does, what the handler is about to be given has no  *)
(* hole, and "done", said by anyone, means that something was written.     *)
Told ==
    \/ \E f \in ToApp : f.done
    \/ thread.pc = "reply" /\ thread.out.done
    \/ pending.ok /\ pending.done
    \/ caller.pc = "abort" /\ caller.success
    \/ \E k \in Calls : result[k] = "ok"

Copied == thread.pc = "handler" => \A i \in 0 .. session.numBlocks - 1 : thread.blocks[i] # 0

SomeInv ==
    /\ Copied
    /\ written \in Seq(Payloads)
    /\ taken["app"] # 0 \/ Told => written # <<>>

(* As long as the bus loses nothing, no answer comes too late and the      *)
(* handler accepts, all goes well:                                         *)
Faultless == lost = 0 /\ ~excused

InFlight(i) == \E f \in ToNode : f.type = "transfer" /\ f.low6 = i
Working     == thread.pc \in {"handler", "record", "report"}
Expected    == 0 .. sizes[Current] - 1
Whole       == \A i \in 0 .. session.numBlocks - 1 : session.blocks[i] # 0

(* the node refuses nothing, and reports only what is complete and done;   *)
Good(f) == f.type # "nack" /\ (f.type = "report" => f.done /\ Expected \subseteq f.bitmap)

AnswersGood ==
    /\ \A f \in ToApp : Good(f)
    /\ thread.pc = "reply" => Good(thread.out)
    /\ Working => Whole
    /\ thread.pc = "record" => thread.done
    /\ thread.pc = "report" => session.done

(* what the caller has sent is on its way or has arrived, in order;        *)
Opened  == Sent("request") \/ session.accepted
Came(i) == InFlight(i) \/ (~Sent("request") /\ session.blocks[i] # 0)

SendsGood ==
    /\ caller.pc \notin {"idle", "request"} \/ Sent("transfer") \/ Sent("status") => Opened
    /\ caller.pc = "transfer" => \A i \in Expected : i < caller.next => Came(i)
    /\ caller.pc \in {"arm", "status"} \/ Sent("status") => \A i \in Expected : Came(i)

(* what the caller waits for has come or will;                             *)
WaitsGood ==
    /\ caller.pc = "awaitAck" =>
          /\ pending.requestAcked \/ ~Quiet
          /\ thread.pc \in {"idle", "reply"}
          /\ thread.pc = "reply" => thread.out.type = "ack"
          /\ \A f \in ToApp : f.type = "ack"
    /\ caller.pc = "awaitReport" =>
          \/ pending.reportReceived \/ Sent("status") \/ Working
          \/ thread.pc = "reply" /\ thread.out.type = "report"
          \/ \E f \in ToApp : f.type = "report"

(* and what has come lets the call succeed.                                *)
OutcomeGood ==
    /\ pending.done \/ pending.reportReceived => pending.ok
    /\ pending.ok => pending.done /\ Expected \subseteq pending.bitmap
    /\ caller.pc = "abort" => caller.success
    /\ \A k \in Calls : result[k] # "failed"

AllGood == AnswersGood /\ SendsGood /\ WaitsGood /\ OutcomeGood

GoodInv == Faultless => AllGood

----------------------------------------------------------------------------
(* The halves                                                              *)

LEMMA CallerConstants == IniP!InitiatorAssumption /\ IniP!SingleCaller
  BY TransferAssumption DEF IniP!InitiatorAssumption, IniP!SingleCaller

LEMMA ServerConstants == ResP!ResponderAssumption /\ ResP!SingleHomed
<1>1. 0 \notin Calls
  BY TransferAssumption DEF Calls
<1> QED
  BY <1>1, TransferAssumption DEF ResP!ResponderAssumption, ResP!SingleHomed

LEMMA InitHalves == Init => IniP!Init /\ ResP!ServeInit
<1>1. Ini!Init => IniP!Init
  BY DEF Ini!Init, Ini!NoPending, Ini!NoCall, IniP!Init, IniP!NoPending, IniP!NoCall
<1>2. Res!ServeInit => ResP!ServeInit
  BY DEF Res!ServeInit, Res!NoSession, Res!Resting, Res!BlockIndex, Res!Ack,
         ResP!ServeInit, ResP!NoSession, ResP!Resting, ResP!BlockIndex, ResP!Ack
<1> QED
  BY <1>1, <1>2 DEF Init

(* The types of everything, as each half needs the other's frames.         *)
Types ==
    /\ IniP!TInv /\ ResP!ServeTypeOK
    /\ toNode \in Seq(Requests) /\ toApp \in Seq(Answers)
    /\ sizes \in [Calls -> 1 .. MaxBlocks]
    /\ result \in [Calls -> {"unused", "open", "ok", "failed"}]
    /\ lost \in 0 .. MaxLoss /\ duplicated \in 0 .. MaxDup /\ excused \in BOOLEAN

LEMMA CurrentType == Current \in 0 .. MaxCalls
<1> DEFINE U == {k \in Calls : result[k] # "unused"}
<1>1. IsFiniteSet(Calls) /\ Cardinality(Calls) = MaxCalls
  BY TransferAssumption, FS_Interval DEF Calls
<1>2. IsFiniteSet(U) /\ Cardinality(U) <= MaxCalls
  BY <1>1, FS_Subset
<1>3. Cardinality(U) \in Nat
  BY <1>2, FS_CardinalityType
<1> QED
  BY <1>2, <1>3, TransferAssumption DEF Current

LEMMA CallerSteps ==
  ASSUME toApp \in Seq(Answers), [Next]_vars
  PROVE  [IniP!Next]_(IniP!vars)
<1> SUFFICES ASSUME ~ UNCHANGED iniVars PROVE IniP!Next
  BY DEF iniVars, IniP!vars
<1>1. ASSUME NEW k \in Calls, NEW n \in 1 .. MaxBlocks, Begin(k, n)
      PROVE  IniP!Next
  <2>1. IniP!Begin("app", "node", n)
    BY <1>1 DEF Begin, Ini!Begin, Ini!NoPending, IniP!Begin, IniP!NoPending
  <2> QED
    BY <2>1 DEF IniP!Next, IniP!Address
<1>2. CASE CallerSends \/ CallerThinks \/ CallerTimesOut
  <2>1. IniP!CallerStep("app")
    BY <1>2 DEF CallerSends, CallerThinks, CallerTimesOut,
       Ini!SendRequest, Ini!SendTransfer, Ini!SendStatusRequest, Ini!SendAbort,
       Ini!WakeOnAck, Ini!Arm, Ini!WakeOnReport, Ini!AckTimeout, Ini!ReportTimeout,
       Ini!GiveUp, Ini!Goto, Ini!AckArrived, Ini!ReportArrived, Ini!Blocks, Ini!NoPending,
       IniP!CallerStep,
       IniP!SendRequest, IniP!SendTransfer, IniP!SendStatusRequest, IniP!SendAbort,
       IniP!WakeOnAck, IniP!Arm, IniP!WakeOnReport, IniP!AckTimeout, IniP!ReportTimeout,
       IniP!GiveUp, IniP!Goto, IniP!AckArrived, IniP!ReportArrived, IniP!Blocks,
       IniP!NoPending
  <2> QED
    BY <2>1 DEF IniP!Next
<1>3. CASE AppReceives
  <2> DEFINE f == Head(toApp)
  <2>1. f \in Answers
    BY <1>3, HeadTailProperties DEF AppReceives
  <2>2. IniP!OnAck("node") \/ IniP!OnNack("node") \/ IniP!OnReport("node", f.done, f.bitmap)
    BY <1>3 DEF AppReceives, Ini!OnAck, Ini!OnNack, Ini!OnReport, Ini!Hear, Ini!PC,
       Ini!Blocks, Ini!Sending, Ini!Waiting,
       IniP!OnAck, IniP!OnNack, IniP!OnReport, IniP!Hear, IniP!PC,
       IniP!Blocks, IniP!Sending, IniP!Waiting
  <2>3. f.done \in BOOLEAN /\ f.bitmap \in SUBSET (0 .. MaxBlocks - 1)
    BY <2>1 DEF Answers
  <2> QED
    BY <2>2, <2>3 DEF IniP!Next, IniP!Answer, IniP!Index
<1> QED
  BY <1>1, <1>2, <1>3
  DEF Next, Caller, Node, Register, NodeReceives, NodeThinks, NodeReplies, BusLoses,
      Rest, vars

LEMMA ServerSteps ==
  ASSUME toNode \in Seq(Requests), [Next]_vars
  PROVE  [ResP!ServeNext]_(ResP!serveVars)
<1> SUFFICES ASSUME ~ UNCHANGED resVars PROVE ResP!ServeNext
  BY DEF resVars, ResP!serveVars
<1>1. CASE Register
  <2>1. ResP!SetHandler(TRUE)
    BY <1>1 DEF Register, Res!SetHandler, ResP!SetHandler
  <2> QED
    BY <2>1 DEF ResP!ServeNext
<1>2. CASE NodeReceives
  <2> DEFINE f == Head(toNode)
  <2>1. f \in Requests
    BY <1>2, HeadTailProperties DEF NodeReceives
  <2>2. f.low6 \in ResP!BlockIndex /\ f.data \in Calls \cup {0}
    BY <2>1 DEF Requests, ResP!BlockIndex
  <2>3. CASE Res!OnRequest("rx", "app", f.low6, TRUE)
    <3>1. ResP!OnRequest("rx", "app", f.low6, TRUE)
      BY <2>3 DEF Res!OnRequest, Res!Handles, Res!Replace, Res!Respond, Res!NoSession,
         Res!Ack, Res!Nack, Res!Resting, Res!BlockIndex, Res!Inside,
         ResP!OnRequest, ResP!Handles, ResP!Replace, ResP!Respond, ResP!NoSession,
         ResP!Ack, ResP!Nack, ResP!Resting, ResP!BlockIndex, ResP!Inside
    <3> QED
      BY <2>2, <3>1 DEF ResP!ServeNext, ResP!Frame
  <2>4. CASE Res!OnTransfer("rx", "app", f.low6, f.data)
    <3>1. ResP!OnTransfer("rx", "app", f.low6, f.data)
      BY <2>4 DEF Res!OnTransfer, Res!Handles, Res!Respond, Res!Ack, Res!Nack,
         Res!Resting, Res!BlockIndex,
         ResP!OnTransfer, ResP!Handles, ResP!Respond, ResP!Ack, ResP!Nack,
         ResP!Resting, ResP!BlockIndex
    <3> QED
      BY <2>2, <3>1 DEF ResP!ServeNext, ResP!Frame
  <2>5. CASE Res!OnStatusRequest("rx", "app")
    <3>1. ResP!OnStatusRequest("rx", "app")
      BY <2>5 DEF Res!OnStatusRequest, Res!Handles, Res!Respond, Res!Ack, Res!Nack,
         Res!Resting, Res!BlockIndex, Res!Complete, Res!Received, Res!Taken,
         ResP!OnStatusRequest, ResP!Handles, ResP!Respond, ResP!Ack, ResP!Nack,
         ResP!Resting, ResP!BlockIndex, ResP!Complete, ResP!Received, ResP!Taken
    <3> QED
      BY <3>1 DEF ResP!ServeNext, ResP!Frame
  <2>6. CASE Res!OnAbort("rx", "app")
    <3>1. ResP!OnAbort("rx", "app")
      BY <2>6 DEF Res!OnAbort, Res!Handles, Res!Replace, Res!Respond, Res!NoSession,
         Res!Ack, Res!Resting, Res!BlockIndex, Res!Inside,
         ResP!OnAbort, ResP!Handles, ResP!Replace, ResP!Respond, ResP!NoSession,
         ResP!Ack, ResP!Resting, ResP!BlockIndex, ResP!Inside
    <3> QED
      BY <3>1 DEF ResP!ServeNext, ResP!Frame
  <2> QED
    BY <1>2, <2>3, <2>4, <2>5, <2>6 DEF NodeReceives
<1>3. CASE NodeThinks
  <2>1. ASSUME NEW answer \in HandlerResults, Res!RunHandler("rx", answer)
        PROVE  ResP!ServeNext
    <3>1. ResP!RunHandler("rx", answer)
      BY <2>1 DEF Res!RunHandler, Res!Taken, ResP!RunHandler, ResP!Taken
    <3> QED
      BY <3>1, TransferAssumption DEF ResP!ServeNext, ResP!ThreadStep
  <2>2. CASE Res!RecordDone("rx")
    BY <2>2 DEF Res!RecordDone, ResP!RecordDone, ResP!ServeNext, ResP!ThreadStep
  <2>3. CASE Res!BuildReport("rx")
    <3>1. ResP!BuildReport("rx")
      BY <2>3 DEF Res!BuildReport, Res!Respond, Res!Resting, Res!BlockIndex, Res!Ack,
         Res!Report, Res!Received,
         ResP!BuildReport, ResP!Respond, ResP!Resting, ResP!BlockIndex, ResP!Ack,
         ResP!Report, ResP!Received
    <3> QED
      BY <3>1 DEF ResP!ServeNext, ResP!ThreadStep
  <2> QED
    BY <1>3, <2>1, <2>2, <2>3 DEF NodeThinks
<1>4. CASE NodeReplies
  <2>1. ResP!Reply("rx")
    BY <1>4 DEF NodeReplies, Res!Reply, Res!Resting, Res!BlockIndex, Res!Ack,
       ResP!Reply, ResP!Resting, ResP!BlockIndex, ResP!Ack
  <2> QED
    BY <2>1 DEF ResP!ServeNext, ResP!ThreadStep
<1> QED
  BY <1>1, <1>2, <1>3, <1>4
  DEF Next, Caller, Node, Begin, CallerSends, CallerThinks, CallerTimesOut,
      AppReceives, BusLoses, Rest, vars

LEMMA TypesInit == Init => Types
<1> SUFFICES ASSUME Init PROVE Types
  OBVIOUS
<1>0. ResP!ServeTypeOK
  BY InitHalves, ServerConstants, ResP!TypeInit DEF ResP!ResponderAssumption
<1>1. IniP!TInv
  BY InitHalves, TransferAssumption, IniP!TypeInit
<1>2. toNode \in Seq(Requests) /\ toApp \in Seq(Answers)
  BY EmptySeq DEF Init
<1>3. 1 \in 1 .. MaxBlocks /\ 0 \in 0 .. MaxLoss /\ 0 \in 0 .. MaxDup
  BY TransferAssumption
<1> QED
  BY <1>0, <1>1, <1>2, <1>3 DEF Init, Types

LEMMA ToNodeType ==
  ASSUME Types, [Next]_vars
  PROVE  toNode' \in Seq(Requests) /\ lost' \in 0 .. MaxLoss
<1> USE DEF Types
<1>1. CASE UNCHANGED <<toNode, lost>>
  BY <1>1
<1>2. CASE CallerSends
  <2>1. caller.numBlocks - 1 \in 0 .. MaxBlocks - 1
    BY TransferAssumption DEF caller, IniP!TInv, IniP!TypeOK, IniP!CallRecord
  <2>2. caller.pc = "transfer" => caller.next \in 0 .. MaxBlocks - 1
    BY TransferAssumption
    DEF caller, IniP!TInv, IniP!TypeOK, IniP!CallRecord, IniP!LoopBound
  <2>3. Current \in Calls \cup {0}
    BY CurrentType, TransferAssumption DEF Calls
  <2>4. PICK f \in Requests, sent \in BOOLEAN : Send(f, sent)
    <3>1. 0 \in 0 .. MaxBlocks - 1
      BY TransferAssumption
    <3> QED
      BY <1>2, <2>1, <2>2, <2>3, <3>1
      DEF CallerSends, Ini!SendTransfer, caller, Request, Requests
  <2>5. Append(toNode, f) \in Seq(Requests)
    BY AppendProperties
  <2> QED
    BY <2>4, <2>5, TransferAssumption DEF Send
<1>3. CASE NodeReceives
  <2>1. toNode' \in {toNode, Tail(toNode)} /\ toNode # <<>>
    BY <1>3 DEF NodeReceives, Receive
  <2> QED
    BY <1>3, <2>1, HeadTailProperties DEF NodeReceives
<1>4. CASE BusLoses
  <2>1. toNode' = toNode \/ (toNode # <<>> /\ toNode' = Tail(toNode))
    BY <1>4 DEF BusLoses
  <2>2. toNode' \in Seq(Requests)
    BY <2>1, HeadTailProperties
  <2>3. lost' \in 0 .. MaxLoss
    BY <1>4, TransferAssumption DEF BusLoses
  <2> QED
    BY <2>2, <2>3
<1> QED
  BY <1>1, <1>2, <1>3, <1>4
  DEF Next, Caller, Node, Register, Begin, CallerThinks, CallerTimesOut, AppReceives,
      NodeThinks, NodeReplies, Rest, vars, busVars

LEMMA ToAppType ==
  ASSUME Types, [Next]_vars
  PROVE  toApp' \in Seq(Answers) /\ duplicated' \in 0 .. MaxDup
<1> USE DEF Types
<1>1. CASE UNCHANGED <<toApp, duplicated>>
  BY <1>1
<1>2. CASE NodeReplies
  <2>1. thread.out \in Answers
    BY DEF thread, ResP!ServeTypeOK, ResP!Thread, ResP!BlockIndex, Answers
  <2> QED
    BY <1>2, <2>1, AppendProperties DEF NodeReplies, thread, busVars
<1>3. CASE AppReceives
  <2>1. toApp' \in {toApp, Tail(toApp)} /\ toApp # <<>>
    BY <1>3 DEF AppReceives, Receive
  <2>2. duplicated' \in 0 .. MaxDup
    BY <1>3, TransferAssumption DEF AppReceives, Receive
  <2> QED
    BY <2>1, <2>2, HeadTailProperties
<1>4. CASE BusLoses
  <2>1. toApp' = toApp \/ (toApp # <<>> /\ toApp' = Tail(toApp))
    BY <1>4 DEF BusLoses
  <2> QED
    BY <1>4, <2>1, HeadTailProperties DEF BusLoses
<1>5. CASE NodeReceives
  BY <1>5, TransferAssumption DEF NodeReceives, Receive
<1> QED
  BY <1>1, <1>2, <1>3, <1>4, <1>5
  DEF Next, Caller, Node, Register, Begin, CallerSends, CallerThinks, CallerTimesOut,
      NodeThinks, Rest, vars, busVars

LEMMA ResultType ==
  ASSUME Types, [Next]_vars
  PROVE  /\ sizes' \in [Calls -> 1 .. MaxBlocks]
         /\ result' \in [Calls -> {"unused", "open", "ok", "failed"}]
         /\ excused' \in BOOLEAN
<1> USE DEF Types
<1>1. CASE UNCHANGED <<sizes, result>>
  <2>1. excused' \in BOOLEAN
    BY <1>1 DEF Next, Caller, Node, Register, Begin, CallerSends, CallerThinks,
       CallerTimesOut, AppReceives, NodeReceives, NodeThinks, NodeReplies, BusLoses,
       Rest, vars, busVars
  <2> QED
    BY <1>1, <2>1
<1>2. ASSUME NEW k \in Calls, NEW n \in 1 .. MaxBlocks, Begin(k, n)
      PROVE  /\ sizes' \in [Calls -> 1 .. MaxBlocks] /\ excused' \in BOOLEAN
             /\ result' \in [Calls -> {"unused", "open", "ok", "failed"}]
  BY <1>2 DEF Begin, busVars
<1>3. CASE CallerSends \/ CallerThinks \/ CallerTimesOut
  <2>1. Returns /\ sizes' = sizes
    BY <1>3 DEF CallerSends, CallerThinks, CallerTimesOut
  <2>2. result' \in [Calls -> {"unused", "open", "ok", "failed"}]
    BY <2>1 DEF Returns
  <2>3. excused' \in BOOLEAN
    BY <1>3 DEF CallerSends, CallerThinks, CallerTimesOut, busVars
  <2> QED
    BY <2>1, <2>2, <2>3
<1> QED
  BY <1>1, <1>2, <1>3
  DEF Next, Caller, Node, Register, AppReceives, NodeReceives, NodeThinks, NodeReplies,
      BusLoses, Rest, vars, busVars

LEMMA TypesNext == Types /\ [Next]_vars => Types'
<1> SUFFICES ASSUME Types, [Next]_vars PROVE Types'
  OBVIOUS
<1>1. IniP!TInv'
  BY CallerSteps, IniP!TypeNext, TransferAssumption DEF Types
<1>2. ResP!ServeTypeOK'
  BY ServerSteps, ServerConstants, ResP!TypeNext DEF Types, ResP!ResponderAssumption
<1> QED
  BY <1>1, <1>2, ToNodeType, ToAppType, ResultType DEF Types

LEMMA TypesHold == Spec => []Types
  BY TypesInit, TypesNext, PTL DEF Spec

(* The composition keeps to its types, and so does each half in it.        *)
THEOREM TypeCorrect == Spec => []TypeOK
<1>1. Types => TypeOK
  BY DEF Types, TypeOK, IniP!TInv, IniP!TypeOK, Ini!TypeOK, ResP!ServeTypeOK, Res!ServeTypeOK,
     IniP!PendingRecord, IniP!CallRecord, Ini!PendingRecord, Ini!CallRecord,
     IniP!PC, IniP!Sending, IniP!Waiting, Ini!PC, Ini!Sending, Ini!Waiting,
     IniP!Address, Ini!Address, IniP!Index, Ini!Index, ResP!BlockIndex, Res!BlockIndex,
     ResP!Session, Res!Session, ResP!Thread, Res!Thread, ResP!ServePC, Res!ServePC,
     ResP!Inside, Res!Inside
<1> QED
  BY <1>1, TypesHold, PTL

(* Joined by the bus, each half still behaves as its own specification     *)
(* says: no frame the other sends is one that it does not allow for.       *)
THEOREM HalvesKeepTheirSpecs == Spec => IniP!Spec /\ ResP!ServeSpec
<1>1. Init => IniP!Init /\ ResP!ServeInit
  BY InitHalves
<1>2. Types /\ [Next]_vars => [IniP!Next]_(IniP!vars) /\ [ResP!ServeNext]_(ResP!serveVars)
  BY CallerSteps, ServerSteps DEF Types
<1> QED
  BY <1>1, <1>2, TypesHold, PTL DEF Spec, IniP!Spec, ResP!ServeSpec

(* So the theorems about each half hold of it here.                        *)
LEMMA HalvesHold == Spec => []Halves
<1>1. Spec => []IniP!IInv
  BY HalvesKeepTheirSpecs, CallerConstants, TransferAssumption, IniP!Invariance, PTL
<1>2. Spec => []ResP!IInv
  BY HalvesKeepTheirSpecs, ServerConstants, TransferAssumption, ResP!Invariance, PTL
<1> QED
  BY <1>1, <1>2, PTL DEF Halves

----------------------------------------------------------------------------
(* Channels, and what was written                                          *)

LEMMA HeadLeaves ==
  ASSUME NEW X, NEW q \in Seq(X), q # <<>>
  PROVE  /\ Head(q) \in X /\ Tail(q) \in Seq(X)
         /\ Carried(q) = {Head(q)} \cup Carried(Tail(q))
<1>1. Head(q) \in X /\ Tail(q) \in Seq(X) /\ Len(q) \in Nat \ {0}
  BY HeadTailProperties, EmptySeq, LenProperties
<1>2. /\ Head(q) = q[1] /\ DOMAIN q = 1 .. Len(q)
      /\ DOMAIN Tail(q) = 1 .. Len(q) - 1
      /\ \A i \in 1 .. Len(q) - 1 : Tail(q)[i] = q[i + 1]
  BY <1>1, HeadTailProperties, LenProperties
<1>3. \A i \in 1 .. Len(q) : i = 1 \/ (i - 1 \in 1 .. Len(q) - 1 /\ q[i] = Tail(q)[i - 1])
  BY <1>1, <1>2
<1>4. \A i \in 1 .. Len(q) - 1 : i + 1 \in 1 .. Len(q)
  BY <1>1
<1>5. /\ Carried(q) = {q[i] : i \in 1 .. Len(q)}
      /\ Carried(Tail(q)) = {Tail(q)[i] : i \in 1 .. Len(q) - 1}
  BY <1>2 DEF Carried
<1>6. ASSUME NEW x PROVE x \in Carried(q) <=> x = q[1] \/ x \in Carried(Tail(q))
  <2>1. 1 \in 1 .. Len(q)
    BY <1>1
  <2> QED
    BY <1>2, <1>3, <1>4, <1>5, <2>1
<1> QED
  BY <1>1, <1>2, <1>6

LEMMA LastJoins ==
  ASSUME NEW X, NEW q \in Seq(X), NEW x \in X
  PROVE  Append(q, x) \in Seq(X) /\ Carried(Append(q, x)) = Carried(q) \cup {x}
<1>1. Append(q, x) \in Seq(X) /\ Len(q) \in Nat /\ DOMAIN q = 1 .. Len(q)
  BY AppendProperties, LenProperties
<1>2. /\ DOMAIN Append(q, x) = 1 .. Len(q) + 1
      /\ \A i \in 1 .. Len(q) : Append(q, x)[i] = q[i]
      /\ Append(q, x)[Len(q) + 1] = x
  BY AppendProperties, LenProperties
<1>3. 1 .. Len(q) + 1 = (1 .. Len(q)) \cup {Len(q) + 1}
  BY <1>1
<1> QED
  BY <1>1, <1>2, <1>3 DEF Carried

RequestTypes == {"request", "transfer", "status", "abort"}

LEMMA RankType == \A x \in RequestTypes : Rank(x) \in 0 .. 3
  BY DEF Rank, RequestTypes

LEMMA OrderOfTail ==
  ASSUME NEW q \in Seq(Requests), q # <<>>, InOrder(q)
  PROVE  /\ InOrder(Tail(q))
         /\ \A f \in Carried(q) : Rank(Head(q).type) <= Rank(f.type)
<1>1. Len(q) \in Nat \ {0}
  BY EmptySeq, LenProperties
<1>2. /\ Head(q) = q[1] /\ DOMAIN q = 1 .. Len(q)
      /\ DOMAIN Tail(q) = 1 .. Len(q) - 1
      /\ \A i \in 1 .. Len(q) - 1 : Tail(q)[i] = q[i + 1]
  BY <1>1, HeadTailProperties, LenProperties
<1>3. InOrder(Tail(q))
  BY <1>1, <1>2 DEF InOrder
<1>4. ASSUME NEW i \in 1 .. Len(q) PROVE Rank(q[1].type) <= Rank(q[i].type)
  <2>1. CASE i = 1
    <3>1. q[1] \in Requests
      BY <1>1, <1>2, ElementOfSeq
    <3>2. Rank(q[1].type) \in 0 .. 3
      BY <3>1, RankType DEF Requests, RequestTypes
    <3> QED
      BY <2>1, <3>2
  <2>2. CASE i # 1
    BY <1>1, <1>2, <2>2 DEF InOrder
  <2> QED
    BY <2>1, <2>2
<1> QED
  BY <1>2, <1>3, <1>4 DEF Carried

LEMMA OrderOfAppend ==
  ASSUME NEW q \in Seq(Requests), InOrder(q), NEW x \in Requests,
         \A f \in Carried(q) : Rank(f.type) <= Rank(x.type)
  PROVE  InOrder(Append(q, x))
<1>1. Len(q) \in Nat /\ DOMAIN q = 1 .. Len(q)
  BY LenProperties
<1>2. /\ DOMAIN Append(q, x) = 1 .. Len(q) + 1
      /\ \A i \in 1 .. Len(q) : Append(q, x)[i] = q[i]
      /\ Append(q, x)[Len(q) + 1] = x
  BY <1>1, AppendProperties, LenProperties
<1>3. \A i \in 1 .. Len(q) : Rank(q[i].type) <= Rank(x.type)
  BY <1>1 DEF Carried
<1> QED
  BY <1>1, <1>2, <1>3 DEF InOrder

(* What a receiver takes from a channel stays there or does not.           *)
LEMMA NodeTakes ==
  ASSUME Types, InOrder(toNode), toNode # <<>>, toNode' \in {toNode, Tail(toNode)},
         NEW f, f = Head(toNode)
  PROVE  /\ f \in Requests /\ InOrder(toNode)' /\ ToNode = {f} \cup ToNode'
         /\ \A g \in ToNode : Rank(f.type) <= Rank(g.type)
<1>1. /\ f \in Requests
      /\ Carried(toNode) = {f} \cup Carried(Tail(toNode))
      /\ InOrder(Tail(toNode))
      /\ \A g \in Carried(toNode) : Rank(f.type) <= Rank(g.type)
  BY HeadLeaves, OrderOfTail DEF Types
<1> QED
  BY <1>1 DEF ToNode

LEMMA AppTakes ==
  ASSUME Types, toApp # <<>>, toApp' \in {toApp, Tail(toApp)}, NEW f, f = Head(toApp)
  PROVE  f \in Answers /\ ToApp = {f} \cup ToApp'
<1>1. f \in Answers /\ Carried(toApp) = {f} \cup Carried(Tail(toApp))
  BY HeadLeaves DEF Types
<1> QED
  BY <1>1 DEF ToApp

LEMMA QuietIsSilent == Types => (Quiet <=> Silent)
<1> SUFFICES ASSUME Types PROVE Quiet <=> Silent
  OBVIOUS
<1>1. ToNode = {} <=> toNode = <<>>
  BY HeadLeaves DEF ToNode, Types, Carried
<1>2. ToApp = {} <=> toApp = <<>>
  BY HeadLeaves DEF ToApp, Types, Carried
<1> QED
  BY <1>1, <1>2 DEF Quiet, Silent, thread

(* Payloads of different calls differ.                                     *)
LEMMA PayloadsDiffer ==
  ASSUME sizes \in [Calls -> 1 .. MaxBlocks], NEW j \in Calls, NEW k \in Calls, j # k
  PROVE  Payload(j) # Payload(k) /\ Payload(j) \in Payloads
<1>1. 1 \in 1 .. sizes[j] /\ 1 \in 1 .. sizes[k]
  BY TransferAssumption
<1>2. Payload(j)[1] = j /\ Payload(k)[1] = k
  BY <1>1 DEF Payload
<1>3. Payload(j) \in [1 .. sizes[j] -> Calls] /\ sizes[j] \in 1 .. MaxBlocks
  BY DEF Payload
<1> QED
  BY <1>2, <1>3 DEF Payloads

LEMMA WritesKept == UNCHANGED <<written, sizes>> => writes' = writes
  BY DEF writes, Count, Payload

(* One more payload written.                                               *)
LEMMA WritesMore ==
  ASSUME written \in Seq(Payloads), sizes \in [Calls -> 1 .. MaxBlocks], sizes' = sizes,
         NEW k \in Calls, written' = Append(written, Payload(k))
  PROVE  /\ written' \in Seq(Payloads)
         /\ writes'[k] = writes[k] + 1
         /\ \A j \in Calls \ {k} : writes'[j] = writes[j]
<1> DEFINE At(w, x) == {i \in DOMAIN w : w[i] = x}
           P(j) == [i \in 1 .. sizes[j] |-> j]
           n == Len(written) + 1
<1>1. Payload(k) \in [1 .. sizes[k] -> Calls]
  BY DEF Payload
<1>2. Payload(k) \in Payloads
  BY <1>1 DEF Payloads
<1>3. /\ DOMAIN written = 1 .. n - 1 /\ n \in Nat \ {0}
      /\ DOMAIN written' = 1 .. n /\ written'[n] = Payload(k)
      /\ \A i \in 1 .. n - 1 : written'[i] = written[i]
      /\ written' \in Seq(Payloads)
  BY <1>2, LenProperties, AppendProperties
<1>4. /\ writes = [j \in Calls |-> Cardinality(At(written, P(j)))]
      /\ writes' = [j \in Calls |-> Cardinality(At(written', P(j)))]
  BY DEF writes, Count, Payload
<1>5. ASSUME NEW j \in Calls \ {k} PROVE writes'[j] = writes[j]
  <2>1. P(j) # Payload(k)
    BY PayloadsDiffer DEF Payload
  <2>2. At(written', P(j)) = At(written, P(j))
    BY <1>3, <2>1
  <2> QED
    BY <1>4, <2>2
<1>6. writes'[k] = writes[k] + 1
  <2>1. P(k) = Payload(k)
    BY DEF Payload
  <2>2. At(written', P(k)) = At(written, P(k)) \cup {n} /\ n \notin At(written, P(k))
    BY <1>3, <2>1
  <2>3. IsFiniteSet(At(written, P(k)))
    <3>1. IsFiniteSet(1 .. n - 1) /\ At(written, P(k)) \subseteq 1 .. n - 1
      BY <1>3, FS_Interval
    <3> QED
      BY <3>1, FS_Subset
  <2>4. Cardinality(At(written', P(k))) = Cardinality(At(written, P(k))) + 1
    BY <2>2, <2>3, FS_AddElement
  <2> QED
    BY <1>4, <2>4
<1> QED
  BY <1>3, <1>5, <1>6

----------------------------------------------------------------------------
(* The calls                                                               *)

InCall == CallerSends \/ CallerThinks \/ CallerTimesOut

(* What a step inside setBlock() does to the call.                         *)
LEMMA CallerKeeps ==
  ASSUME Types, InCall
  PROVE  /\ caller.pc # "idle" /\ caller'.numBlocks = caller.numBlocks
         /\ caller'.to = caller.to /\ Returns /\ sizes' = sizes
<1>1. /\ call \in [{"app"} -> IniP!CallRecord]
  BY DEF Types, IniP!TInv, IniP!TypeOK
<1> QED
  BY <1>1 DEF InCall, CallerSends, CallerThinks, CallerTimesOut, caller, IniP!CallRecord,
     Ini!SendRequest, Ini!SendTransfer, Ini!SendStatusRequest, Ini!SendAbort,
     Ini!WakeOnAck, Ini!Arm, Ini!WakeOnReport, Ini!AckTimeout, Ini!ReportTimeout,
     Ini!GiveUp, Ini!Goto

CallKept == UNCHANGED <<call, sizes, result>>

LEMMA StepCases ==
  ASSUME [Next]_vars
  PROVE  \/ CallKept
         \/ \E k \in Calls, n \in 1 .. MaxBlocks : Begin(k, n)
         \/ InCall
  BY DEF Next, Caller, Node, Register, AppReceives, NodeReceives, NodeThinks,
     NodeReplies, BusLoses, Rest, vars, CallKept, InCall, iniVars,
     Ini!OnAck, Ini!OnNack, Ini!OnReport

LEMMA BeginCall ==
  ASSUME Types, CallsInv, NEW k \in Calls, NEW n \in 1 .. MaxBlocks, Begin(k, n)
  PROVE  /\ CallsInv' /\ Current' = k /\ k = Current + 1
         /\ caller' = [pc |-> "request", to |-> "node", numBlocks |-> n, next |-> 0,
                       success |-> FALSE]
         /\ sizes' = [sizes EXCEPT ![k] = n] /\ caller.pc = "idle"
         /\ \A j \in Calls : result[j] # "open"
         /\ result' = [result EXCEPT ![k] = "open"]
<1>1. /\ k = Current + 1 /\ caller.pc = "idle"
      /\ caller' = [pc |-> "request", to |-> "node", numBlocks |-> n, next |-> 0,
                       success |-> FALSE]
      /\ sizes' = [sizes EXCEPT ![k] = n] /\ result' = [result EXCEPT ![k] = "open"]
  BY DEF Begin, Ini!Begin, caller, Types, IniP!TInv, IniP!TypeOK
<1>2. Current \in Nat
  BY CurrentType
<1>3. {j \in Calls : result'[j] # "unused"} = 1 .. k
  <2>1. {j \in Calls : result'[j] # "unused"} =
           {j \in Calls : result[j] # "unused"} \cup {k}
    BY <1>1 DEF CallsInv
  <2>2. 1 .. k = (1 .. Current) \cup {k}
    BY <1>1, <1>2
  <2> QED
    BY <2>1, <2>2 DEF CallsInv
<1>4. Current' = k
  <2>1. k \in Int /\ k >= 1
    BY <1>1, <1>2
  <2>2. Cardinality(1 .. k) = k
    BY <2>1, FS_Interval
  <2>3. Current' = Cardinality(1 .. k)
    BY <1>3 DEF Current
  <2> QED
    BY <2>2, <2>3
<1>5. \A j \in Calls : result[j] # "open"
  BY <1>1 DEF CallsInv
<1>6. CallsInv'
  <2>1. /\ result' \in [Calls -> {"unused", "open", "ok", "failed"}]
        /\ sizes' \in [Calls -> 1 .. MaxBlocks] /\ sizes'[k] = n
        /\ result'[k] = "open" /\ \A j \in Calls \ {k} : result'[j] = result[j]
    BY <1>1 DEF Types
  <2> QED
    BY <1>1, <1>3, <1>4, <1>5, <2>1 DEF CallsInv
<1> QED
  BY <1>1, <1>4, <1>5, <1>6

(* Any step but the beginning of a call.                                   *)
LEMMA CallGoesOn ==
  ASSUME Types, CallsInv, CallKept \/ InCall
  PROVE  /\ CallsInv' /\ Current' = Current /\ sizes' = sizes
         /\ result' = IF caller.pc # "idle" /\ caller'.pc = "idle"
                      THEN [result EXCEPT ![Current] =
                                IF caller'.success THEN "ok" ELSE "failed"]
                      ELSE result
<1>1. CASE CallKept
  <2>1. Current' = Current
    BY <1>1 DEF CallKept, Current
  <2> QED
    BY <1>1, <2>1 DEF CallKept, CallsInv, caller
<1>2. CASE InCall
  <2>1. /\ caller.pc # "idle" /\ caller'.numBlocks = caller.numBlocks
        /\ caller'.to = caller.to /\ Returns /\ sizes' = sizes
    BY <1>2, CallerKeeps
  <2>2. /\ Current \in Calls /\ result[Current] = "open"
        /\ result' = IF caller'.pc = "idle"
                     THEN [result EXCEPT ![Current] =
                                IF caller'.success THEN "ok" ELSE "failed"]
                     ELSE result
    BY <2>1 DEF CallsInv, Returns, caller
  <2>3. {k \in Calls : result'[k] # "unused"} = {k \in Calls : result[k] # "unused"}
    BY <2>2 DEF CallsInv
  <2>4. Current' = Current
    BY <2>3 DEF Current
  <2>5. result' \in [Calls -> {"unused", "open", "ok", "failed"}]
    BY <2>2 DEF CallsInv
  <2>6. CallsInv'
    BY <2>1, <2>2, <2>3, <2>4, <2>5 DEF CallsInv
  <2> QED
    BY <2>1, <2>2, <2>4, <2>6
<1> QED
  BY <1>1, <1>2

----------------------------------------------------------------------------
(* The frames                                                              *)

(* Nothing new for the node, in the course of a call that sends no REQUEST.*)
LEMMA NothingSent ==
  ASSUME Types', FramesInv, InOrder(toNode)', ToNode' \subseteq ToNode,
         Current' = Current, sizes' = sizes, ~Quiet \/ (Quiet' <=> Quiet),
         caller'.pc = caller.pc \/ caller'.pc # "request",
         \A x \in RequestTypes : Rank(x) < Below(caller.pc) => Rank(x) < Below(caller'.pc)
  PROVE  FramesInv'
<1>1. \A f \in ToNode' : f.type \in RequestTypes
  <2>1. ASSUME NEW q \in Seq(Requests), NEW f \in Carried(q) PROVE f.type \in RequestTypes
    <3>1. f \in Requests
      BY <2>1, LenProperties, ElementOfSeq DEF Carried
    <3> QED
      BY <3>1 DEF Requests, RequestTypes
  <2> QED
    BY <2>1 DEF ToNode, Types
<1>2. ~Quiet' => Current' \in Calls
  BY DEF FramesInv
<1>3. caller'.pc = "request" => Quiet'
  BY DEF FramesInv
<1> QED
  BY <1>1, <1>2, <1>3 DEF FramesInv, Types

LEMMA LostFrame ==
  ASSUME Types, InOrder(toNode), BusLoses
  PROVE  /\ ToNode' \subseteq ToNode /\ ToApp' \subseteq ToApp /\ InOrder(toNode)'
         /\ ~Quiet /\ lost' # 0
<1>1. CASE toNode # <<>> /\ toNode' = Tail(toNode) /\ UNCHANGED toApp
  <2>1. InOrder(toNode)' /\ ToNode = {Head(toNode)} \cup ToNode'
    BY <1>1, NodeTakes
  <2> QED
    BY <1>1, <2>1, TransferAssumption DEF ToApp, Quiet, BusLoses, Types
<1>2. CASE toApp # <<>> /\ toApp' = Tail(toApp) /\ UNCHANGED toNode
  <2>1. ToApp = {Head(toApp)} \cup ToApp'
    BY <1>2, AppTakes
  <2>2. toNode' = toNode
    BY <1>2
  <2>3. InOrder(toNode)'
    BY <2>2
  <2>4. ToNode' = ToNode
    BY <2>2 DEF ToNode
  <2>5. lost' # 0
    BY TransferAssumption DEF BusLoses, Types
  <2> QED
    BY <2>1, <2>3, <2>4, <2>5 DEF Quiet
<1> QED
  BY <1>1, <1>2 DEF BusLoses

(* A send adds its frame, or nothing.                                      *)
LEMMA FrameSent ==
  ASSUME Types, InOrder(toNode), NEW f \in Requests, NEW sent \in BOOLEAN, Send(f, sent),
         \A g \in ToNode : Rank(g.type) <= Rank(f.type)
  PROVE  /\ InOrder(toNode)' /\ ToNode' = IF sent THEN ToNode \cup {f} ELSE ToNode
         /\ ~sent => lost' # 0
<1>1. CASE sent
  <2>1. Carried(Append(toNode, f)) = Carried(toNode) \cup {f} /\ InOrder(Append(toNode, f))
    BY LastJoins, OrderOfAppend DEF Types, ToNode
  <2> QED
    BY <1>1, <2>1 DEF ToNode, Send
<1>2. CASE ~sent
  BY <1>2, TransferAssumption DEF ToNode, Send, Types
<1> QED
  BY <1>1, <1>2

(* What each sending step sends.                                           *)
LEMMA CallerSendsWhat ==
  ASSUME Types, CallsInv, FramesInv, CallerSends
  PROVE  \E f \in Requests, sent \in BOOLEAN :
            /\ InOrder(toNode)' /\ ToNode' = (IF sent THEN ToNode \cup {f} ELSE ToNode)
            /\ ~sent => lost' # 0
            /\ \/ /\ Ini!SendRequest("app", sent)
                  /\ f.type = "request" /\ f.low6 + 1 = sizes[Current]
               \/ /\ Ini!SendTransfer("app", sent)
                  /\ f.type = "transfer" /\ f.low6 = caller.next /\ f.data = Current
                  /\ f.low6 < sizes[Current]
               \/ Ini!SendStatusRequest("app", sent) /\ f.type = "status"
               \/ Ini!SendAbort("app") /\ f.type = "abort"
<1>1. /\ caller \in IniP!CallRecord /\ IniP!LoopBound("app")
      /\ caller.pc # "idle" /\ Current \in Calls /\ caller.numBlocks = sizes[Current]
      /\ sizes[Current] \in 1 .. MaxBlocks
  BY CallerKeeps DEF CallsInv, Types, IniP!TInv, IniP!TypeOK, caller, InCall
<1>2. 0 \in 0 .. MaxBlocks - 1 /\ sizes[Current] - 1 \in 0 .. MaxBlocks - 1
      /\ sizes[Current] - 1 + 1 = sizes[Current]
  BY <1>1, TransferAssumption
<1>3. PICK sent \in BOOLEAN :
        \/ /\ Ini!SendRequest("app", sent)
           /\ Send(Request("request", caller.numBlocks - 1, 0), sent)
        \/ /\ Ini!SendTransfer("app", sent)
           /\ Send(Request("transfer", caller.next, Current), sent)
        \/ /\ Ini!SendStatusRequest("app", sent)
           /\ Send(Request("status", 0, 0), sent)
        \/ /\ Ini!SendAbort("app")
           /\ Send(Request("abort", 0, 0), sent)
  BY DEF CallerSends, caller
<1>4. \A g \in ToNode : g.type \in RequestTypes /\ Rank(g.type) < Below(caller.pc)
  <2>1. ASSUME NEW g \in Carried(toNode) PROVE g.type \in RequestTypes
    <3>1. g \in Requests
      BY LenProperties, ElementOfSeq DEF Carried, Types
    <3> QED
      BY <3>1 DEF Requests, RequestTypes
  <2> QED
    BY <2>1 DEF ToNode, FramesInv
<1>5. CASE Ini!SendRequest("app", sent)
           /\ Send(Request("request", caller.numBlocks - 1, 0), sent)
  <2> DEFINE f == Request("request", caller.numBlocks - 1, 0)
  <2>1. f \in Requests /\ f.type = "request" /\ f.low6 + 1 = sizes[Current]
    BY <1>1, <1>2 DEF Requests, Request
  <2>2. caller.pc = "request"
    BY <1>5 DEF Ini!SendRequest, caller
  <2>3. \A g \in ToNode : Rank(g.type) <= Rank("request")
    BY <2>2 DEF FramesInv, Quiet
  <2> QED
    BY <1>5, <2>1, <2>3, FrameSent DEF FramesInv
<1>6. CASE Ini!SendTransfer("app", sent)
           /\ Send(Request("transfer", caller.next, Current), sent)
  <2> DEFINE f == Request("transfer", caller.next, Current)
  <2>1. caller.pc = "transfer" /\ caller.next < sizes[Current] /\ caller.next \in Nat
    BY <1>1, <1>6 DEF Ini!SendTransfer, caller, IniP!LoopBound, IniP!CallRecord
  <2>2. f \in Requests /\ f.type = "transfer" /\ f.low6 = caller.next /\ f.data = Current
    <3>1. caller.next \in 0 .. MaxBlocks - 1
      BY <1>1, <2>1, TransferAssumption
    <3> QED
      BY <1>1, <3>1 DEF Requests, Request
  <2>3. \A g \in ToNode : Rank(g.type) <= Rank("transfer")
    BY <1>4, <2>1 DEF Below, Rank, RequestTypes
  <2> QED
    BY <1>6, <2>1, <2>2, <2>3, FrameSent DEF FramesInv
<1>7. CASE Ini!SendStatusRequest("app", sent) /\ Send(Request("status", 0, 0), sent)
  <2> DEFINE f == Request("status", 0, 0)
  <2>1. caller.pc = "status"
    BY <1>7 DEF Ini!SendStatusRequest, caller
  <2>2. f \in Requests /\ f.type = "status"
    BY <1>2 DEF Requests, Request
  <2>3. \A g \in ToNode : Rank(g.type) <= Rank("status")
    BY <1>4, <2>1 DEF Below, Rank, RequestTypes
  <2> QED
    BY <1>7, <2>2, <2>3, FrameSent DEF FramesInv
<1>8. CASE Ini!SendAbort("app") /\ Send(Request("abort", 0, 0), sent)
  <2> DEFINE f == Request("abort", 0, 0)
  <2>1. caller.pc = "abort"
    BY <1>8 DEF Ini!SendAbort, caller
  <2>2. f \in Requests /\ f.type = "abort"
    BY <1>2 DEF Requests, Request
  <2>3. \A g \in ToNode : Rank(g.type) <= Rank("abort")
    BY <1>4, <2>1 DEF Below, Rank, RequestTypes
  <2> QED
    BY <1>8, <2>2, <2>3, FrameSent DEF FramesInv
<1> QED
  BY <1>3, <1>5, <1>6, <1>7, <1>8

(* Only the caller puts frames on their way to the node, and only they     *)
(* break a silence.                                                        *)
LEMMA NoFrameMade ==
  ASSUME Types, InOrder(toNode), [Next]_vars, ~CallerSends
  PROVE  ToNode' \subseteq ToNode /\ InOrder(toNode)' /\ (~Quiet \/ (Quiet' <=> Quiet))
<1>1. CASE UNCHANGED toNode
  <2>1. InOrder(toNode)'
    BY <1>1
  <2>2. ToNode' = ToNode
    BY <1>1 DEF ToNode
  <2>3. ~Quiet \/ (Quiet' <=> Quiet)
    <3>1. CASE UNCHANGED <<toApp, rx>>
      BY <1>1, <3>1 DEF Quiet, ToNode, ToApp, thread
    <3>2. CASE toApp # <<>> \/ thread.pc # "idle"
      BY <3>2, QuietIsSilent DEF Silent, thread
    <3>3. NodeReceives => ~Quiet
      BY QuietIsSilent DEF NodeReceives, Silent
    <3>4. AppReceives => toApp # <<>>
      BY DEF AppReceives
    <3>5. NodeThinks \/ NodeReplies => thread.pc # "idle"
      BY DEF NodeThinks, NodeReplies, Res!RunHandler, Res!RecordDone, Res!BuildReport,
         Res!Reply, thread
    <3>6. UNCHANGED <<toApp, rx>> \/ NodeReceives \/ AppReceives \/ NodeThinks
             \/ NodeReplies \/ BusLoses
      BY DEF Next, Caller, Node, Register, Begin, CallerSends, CallerThinks,
         CallerTimesOut, Res!SetHandler, Rest, vars, resVars
    <3>7. BusLoses => ~Quiet
      BY LostFrame
    <3> QED
      BY <3>1, <3>2, <3>3, <3>4, <3>5, <3>6, <3>7
  <2> QED
    BY <2>1, <2>2, <2>3
<1>2. CASE NodeReceives
  <2>1. toNode # <<>> /\ toNode' \in {toNode, Tail(toNode)}
    BY <1>2 DEF NodeReceives, Receive
  <2>2. InOrder(toNode)' /\ ToNode = {Head(toNode)} \cup ToNode'
    BY <2>1, NodeTakes
  <2> QED
    BY <2>2 DEF Quiet
<1>3. CASE BusLoses
  BY <1>3, LostFrame
<1> QED
  BY <1>1, <1>2, <1>3
  DEF Next, Caller, Node, Register, Begin, CallerThinks, CallerTimesOut, AppReceives,
      NodeThinks, NodeReplies, Rest, vars, iniVars, resVars

(* A step of a call only goes forward.                                     *)
LEMMA CallForward ==
  ASSUME Types, CallKept \/ InCall
  PROVE  /\ caller'.pc = caller.pc \/ caller'.pc # "request"
         /\ \A x \in RequestTypes :
               Rank(x) < Below(caller.pc) => Rank(x) < Below(caller'.pc)
<1>1. CASE CallKept
  BY <1>1 DEF CallKept, caller
<1>2. CASE InCall
  <2>1. call \in [{"app"} -> IniP!CallRecord]
    BY DEF Types, IniP!TInv, IniP!TypeOK
  <2>2. \/ caller'.pc = "idle"
        \/ <<caller.pc, caller'.pc>> \in
              {<<"request", "awaitAck">>, <<"awaitAck", "transfer">>,
               <<"transfer", "transfer">>, <<"transfer", "arm">>, <<"arm", "status">>,
               <<"status", "awaitReport">>, <<"awaitReport", "abort">>}
    BY <1>2, <2>1 DEF InCall, CallerSends, CallerThinks, CallerTimesOut, caller,
       Ini!SendRequest, Ini!SendTransfer, Ini!SendStatusRequest, Ini!SendAbort,
       Ini!WakeOnAck, Ini!Arm, Ini!WakeOnReport, Ini!AckTimeout, Ini!ReportTimeout,
       Ini!GiveUp, Ini!Goto, IniP!CallRecord
  <2>3. CASE caller'.pc = "idle"
    <3>1. \A x \in RequestTypes : Rank(x) < 4
      BY RankType
    <3> QED
      BY <2>3, <3>1 DEF Below
  <2>4. CASE caller'.pc # "idle"
    <3>1. Below("request") = 0 /\ Below("awaitAck") = 1 /\ Below("transfer") = 2
          /\ Below("arm") = 2 /\ Below("status") = 2 /\ Below("awaitReport") = 3
          /\ Below("abort") = 3
      BY DEF Below
    <3>2. Below(caller.pc) \in Nat /\ Below(caller'.pc) \in Nat
          /\ Below(caller.pc) <= Below(caller'.pc) /\ caller'.pc # "request"
      BY <2>2, <2>4, <3>1
    <3> QED
      BY <3>2, RankType
  <2> QED
    BY <2>3, <2>4
<1> QED
  BY <1>1, <1>2

LEMMA FramesInit == Init => FramesInv
<1> SUFFICES ASSUME Init PROVE FramesInv
  OBVIOUS
<1>1. toNode = <<>> /\ toApp = <<>> /\ thread.pc = "idle" /\ caller.pc = "idle"
  BY DEF Init, Ini!Init, Ini!NoCall, Res!ServeInit, Res!Resting, caller, thread
<1>2. toNode \in Seq(Requests) /\ toApp \in Seq(Answers)
  BY <1>1, EmptySeq
<1>3. ToNode = {} /\ ToApp = {} /\ InOrder(toNode)
  BY <1>1 DEF ToNode, ToApp, Carried, InOrder
<1> QED
  BY <1>1, <1>2, <1>3 DEF FramesInv, Quiet

LEMMA FramesNext ==
  ASSUME Patient, Types, Types', CallsInv, FramesInv, [Next]_vars
  PROVE  FramesInv'
<1>1. ASSUME NEW k \in Calls, NEW n \in 1 .. MaxBlocks, Begin(k, n)
      PROVE  FramesInv'
  <2>1. Current' = k
    BY <1>1, BeginCall
  <2>2. Quiet
    BY <1>1, QuietIsSilent DEF Begin
  <2>3. UNCHANGED <<toNode, toApp, rx>>
    BY <1>1 DEF Begin, resVars
  <2>4. ToNode' = ToNode /\ ToApp' = ToApp /\ thread' = thread
    BY <2>3 DEF ToNode, ToApp, thread
  <2>5. InOrder(toNode)'
    BY <2>3 DEF FramesInv
  <2> QED
    BY <2>1, <2>2, <2>4, <2>5 DEF FramesInv, Quiet, Types
<1>2. CASE (CallKept \/ InCall) /\ ~CallerSends
  <2>1. Current' = Current /\ sizes' = sizes
    BY <1>2, CallGoesOn
  <2>2. ToNode' \subseteq ToNode /\ InOrder(toNode)' /\ (~Quiet \/ (Quiet' <=> Quiet))
    BY <1>2, NoFrameMade DEF FramesInv
  <2> QED
    BY <1>2, <2>1, <2>2, CallForward, NothingSent
<1>3. CASE CallerSends
  <2>1. Current' = Current /\ sizes' = sizes /\ caller.pc # "idle" /\ Current \in Calls
    BY <1>3, CallGoesOn, CallerKeeps DEF InCall, CallsInv
  <2>2. caller'.pc # "request" \/ caller'.pc = caller.pc
    BY <1>3, CallForward DEF InCall
  <2>3. PICK f \in Requests, sent \in BOOLEAN :
            /\ InOrder(toNode)' /\ ToNode' = (IF sent THEN ToNode \cup {f} ELSE ToNode)
            /\ ~sent => lost' # 0
            /\ \/ /\ Ini!SendRequest("app", sent)
                  /\ f.type = "request" /\ f.low6 + 1 = sizes[Current]
               \/ /\ Ini!SendTransfer("app", sent)
                  /\ f.type = "transfer" /\ f.low6 = caller.next /\ f.data = Current
                  /\ f.low6 < sizes[Current]
               \/ Ini!SendStatusRequest("app", sent) /\ f.type = "status"
               \/ Ini!SendAbort("app") /\ f.type = "abort"
    BY <1>3, CallerSendsWhat
  <2>4. \A g \in ToNode : g \in Requests /\ g.type \in RequestTypes
    <3>1. ASSUME NEW g \in Carried(toNode) PROVE g \in Requests
      BY LenProperties, ElementOfSeq DEF Carried, Types
    <3> QED
      BY <3>1 DEF ToNode, Requests, RequestTypes
  <2>5. caller'.pc # "request"
    <3>1. call \in [{"app"} -> IniP!CallRecord]
      BY DEF Types, IniP!TInv, IniP!TypeOK
    <3> QED
      BY <2>3, <3>1 DEF caller, Ini!SendRequest, Ini!SendTransfer, Ini!SendStatusRequest,
         Ini!SendAbort, Ini!GiveUp, Ini!Goto, IniP!CallRecord
  <2>6. sent => Rank(f.type) < Below(caller'.pc)
    <3>1. call \in [{"app"} -> IniP!CallRecord]
      BY DEF Types, IniP!TInv, IniP!TypeOK
    <3>2. sent => \/ f.type = "request" /\ caller'.pc = "awaitAck"
                  \/ f.type = "transfer" /\ caller'.pc \in {"transfer", "arm"}
                  \/ f.type = "status" /\ caller'.pc = "awaitReport"
                  \/ f.type = "abort" /\ caller'.pc = "idle"
      BY <2>3, <3>1 DEF caller, Ini!SendRequest, Ini!SendTransfer, Ini!SendStatusRequest,
         Ini!SendAbort, Ini!GiveUp, Ini!Goto, IniP!CallRecord
    <3> QED
      BY <3>2 DEF Rank, Below
  <2>7. \A g \in ToNode : Rank(g.type) < Below(caller'.pc)
    BY <1>3, <2>4, CallForward DEF InCall, FramesInv
  <2>8. f.type = "transfer" => f.low6 < sizes[Current] /\ f.data = Current
    BY <2>3
  <2>9. f.type = "request" => f.low6 + 1 = sizes[Current]
    BY <2>3
  <2>10. \A g \in ToNode' : g \in ToNode \/ (sent /\ g = f)
    BY <2>3
  <2> QED
    BY <2>1, <2>3, <2>5, <2>6, <2>7, <2>8, <2>9, <2>10 DEF FramesInv, Types
<1> QED
  BY <1>1, <1>2, <1>3, StepCases DEF InCall

----------------------------------------------------------------------------
(* The serving node                                                        *)

LEMMA ServerTypes ==
  Types => /\ sessions \in [{"app"} -> ResP!Session] /\ rx \in [{"rx"} -> ResP!Thread]
           /\ session \in ResP!Session /\ thread \in ResP!Thread /\ thread.peer = "app"
           /\ taken \in [{"app"} -> 0 .. 2]
  BY DEF Types, ResP!ServeTypeOK, session, thread, ResP!Thread

(* A REQUEST opens a session, an ABORT closes it, and both are answered.   *)
LEMMA RequestOpens ==
  ASSUME Types, NEW n \in 0 .. MaxBlocks - 1, Res!OnRequest("rx", "app", n, TRUE)
  PROVE  /\ thread.pc = "idle" /\ thread'.pc = "reply" /\ ~thread'.out.done
         /\ thread'.out.type = "ack" /\ session'.accepted /\ session'.numBlocks = n + 1
         /\ session'.blocks = [i \in 0 .. MaxBlocks - 1 |-> 0]
         /\ taken'["app"] = 0
  BY ServerTypes
  DEF Res!OnRequest, Res!Handles, Res!Replace, Res!Respond, Res!NoSession, Res!Resting,
      Res!Ack, Res!BlockIndex, session, thread

LEMMA AbortCloses ==
  ASSUME Types, Res!OnAbort("rx", "app")
  PROVE  /\ thread.pc = "idle" /\ thread'.pc = "reply" /\ ~thread'.out.done
         /\ thread'.out.type = "ack" /\ ~session'.accepted /\ taken'["app"] = 0
  BY ServerTypes
  DEF Res!OnAbort, Res!Handles, Res!Replace, Res!Respond, Res!NoSession, Res!Resting,
      Res!Ack, Res!BlockIndex, session, thread

LEMMA TransferStores ==
  ASSUME Types, NEW n \in 0 .. MaxBlocks - 1, NEW d \in Calls \cup {0},
         Res!OnTransfer("rx", "app", n, d)
  PROVE  /\ thread.pc = "idle" /\ thread'.pc = "reply" /\ ~thread'.out.done
         /\ session' = IF session.accepted /\ n < session.numBlocks
                       THEN [session EXCEPT !.blocks[n] = d] ELSE session
         /\ session.accepted /\ n < session.numBlocks => thread'.out.type = "ack"
         /\ taken' = taken
<1>1. thread.pc = "idle" /\ taken' = taken
  BY DEF Res!OnTransfer, Res!Handles, thread
<1>2. CASE session.accepted /\ n < session.numBlocks
  <2>1. session' = [session EXCEPT !.blocks[n] = d]
    BY <1>2, ServerTypes DEF Res!OnTransfer, session
  <2>2. Res!Respond("rx", "app", Res!Ack)
    BY <1>2 DEF Res!OnTransfer, session
  <2>3. thread'.pc = "reply" /\ thread'.out = Res!Ack
    BY <2>2, ServerTypes DEF Res!Respond, Res!Resting, thread
  <2> QED
    BY <1>1, <1>2, <2>1, <2>3 DEF Res!Ack
<1>3. CASE ~(session.accepted /\ n < session.numBlocks)
  <2>1. session' = session
    BY <1>3 DEF Res!OnTransfer, session
  <2>2. Res!Respond("rx", "app", Res!Nack)
    BY <1>3 DEF Res!OnTransfer, session
  <2>3. thread'.pc = "reply" /\ thread'.out = Res!Nack
    BY <2>2, ServerTypes DEF Res!Respond, Res!Resting, thread
  <2> QED
    BY <1>1, <1>3, <2>1, <2>3 DEF Res!Ack, Res!Nack
<1> QED
  BY <1>2, <1>3

(* A STATUS_REQUEST hands the payload over, if it is whole and still to be *)
(* applied, to the handler or to nobody.                                   *)
Seen(pc, done, blocks) ==
    [Res!Resting("app") EXCEPT !.pc = pc, !.done = done, !.bitmap = Res!Received(session),
                               !.blocks = blocks]

LEMMA StatusLooks ==
  ASSUME Types, Res!OnStatusRequest("rx", "app")
  PROVE  /\ thread.pc = "idle" /\ sessions' = sessions
         /\ \/ ~session.accepted /\ thread'.pc = "reply" /\ ~thread'.out.done
               /\ taken' = taken
            \/ session.accepted /\ thread'.pc = "report" /\ taken' = taken
               /\ (Whole => session.done)
            \/ session.accepted /\ thread'.pc = "handler" /\ taken' = taken
               /\ thread'.blocks = session.blocks /\ Whole
            \/ session.accepted /\ thread'.pc = "record" /\ Res!Taken("app")
               /\ thread'.blocks = session.blocks /\ Whole /\ ~session.done
               /\ thread'.done
<1>1. sessions' = sessions /\ thread.pc = "idle"
  BY DEF Res!OnStatusRequest, Res!Handles, thread
<1>2. CASE ~session.accepted
  <2>1. Res!Respond("rx", "app", Res!Nack) /\ taken' = taken
    BY <1>2 DEF Res!OnStatusRequest, session
  <2>2. thread'.pc = "reply" /\ thread'.out = Res!Nack
    BY <2>1, ServerTypes DEF Res!Respond, Res!Resting, thread
  <2> QED
    BY <1>1, <1>2, <2>1, <2>2 DEF Res!Ack, Res!Nack
<1>3. CASE session.accepted
  <2>1. Res!Complete(session) <=> Whole
    BY DEF Res!Complete, Res!Received, Whole
  <2> DEFINE apply == Res!Complete(session) /\ ~session.done
             blocks == IF apply THEN session.blocks ELSE Res!Resting("app").blocks
             done == session.done \/ (apply /\ ~handler)
  <2>2. CASE ~apply
    <3>1. rx' = [rx EXCEPT !["rx"] = Seen("report", done, blocks)]
      BY <1>3, <2>2 DEF Res!OnStatusRequest, Seen, session
    <3>2. taken' = taken
      BY <1>3, <2>2 DEF Res!OnStatusRequest, session
    <3>3. thread'.pc = "report"
      BY <3>1, ServerTypes DEF Seen, Res!Resting, thread
    <3> QED
      BY <1>1, <1>3, <2>1, <2>2, <3>2, <3>3
  <2>3. CASE apply /\ handler
    <3>1. rx' = [rx EXCEPT !["rx"] = Seen("handler", done, session.blocks)]
      BY <1>3, <2>3 DEF Res!OnStatusRequest, Seen, session
    <3>2. taken' = taken
      BY <1>3, <2>3 DEF Res!OnStatusRequest, session
    <3>3. thread'.pc = "handler" /\ thread'.blocks = session.blocks
      BY <3>1, ServerTypes DEF Seen, Res!Resting, thread
    <3> QED
      BY <1>1, <1>3, <2>1, <2>3, <3>2, <3>3
  <2>4. CASE apply /\ ~handler
    <3>1. rx' = [rx EXCEPT !["rx"] = Seen("record", TRUE, session.blocks)]
      BY <1>3, <2>4 DEF Res!OnStatusRequest, Seen, session
    <3>2. Res!Taken("app")
      BY <1>3, <2>4 DEF Res!OnStatusRequest, session
    <3>3. thread'.pc = "record" /\ thread'.blocks = session.blocks /\ thread'.done
      BY <3>1, ServerTypes DEF Seen, Res!Resting, thread
    <3> QED
      BY <1>1, <1>3, <2>1, <2>4, <3>2, <3>3
  <2> QED
    BY <2>2, <2>3, <2>4
<1> QED
  BY <1>2, <1>3

LEMMA HandlerRuns ==
  ASSUME Types, NEW answer \in BOOLEAN, Res!RunHandler("rx", answer)
  PROVE  /\ thread.pc = "handler" /\ thread'.pc = "record" /\ sessions' = sessions
         /\ thread'.blocks = thread.blocks /\ thread'.done = answer
         /\ taken' = taken \/ Res!Taken("app")
  BY ServerTypes DEF Res!RunHandler, thread, ResP!Thread

LEMMA RecordKept ==
  ASSUME Types, Halves, Res!RecordDone("rx")
  PROVE  /\ thread.pc = "record" /\ thread'.pc = "report" /\ taken' = taken
         /\ session'.accepted = session.accepted /\ session'.numBlocks = session.numBlocks
         /\ session'.blocks = session.blocks /\ session'.done = thread.done
<1>1. thread.pc = "record" /\ thread'.pc = "report" /\ taken' = taken
  BY ServerTypes DEF Res!RecordDone, thread, ResP!Thread
<1>2. session.exists
  BY <1>1, ServerTypes DEF Halves, ResP!IInv, ResP!ThreadInv, ResP!Inside, thread, session
<1>3. session' = [session EXCEPT !.done = thread.done]
  BY <1>2, ServerTypes DEF Res!RecordDone, thread, session
<1> QED
  BY <1>1, <1>3, ServerTypes DEF ResP!Session

LEMMA ReportTells ==
  ASSUME Types, Halves, Res!BuildReport("rx")
  PROVE  /\ thread.pc = "report" /\ thread'.pc = "reply" /\ sessions' = sessions
         /\ taken' = taken /\ (thread'.out.done => taken["app"] = 1)
         /\ thread'.out = Res!Report(session.done, Res!Received(session))
<1>1. /\ thread.pc = "report" /\ UNCHANGED <<sessions, taken>>
  BY DEF Res!BuildReport, thread
<1>2. session.exists
  BY <1>1, ServerTypes DEF Halves, ResP!IInv, ResP!ThreadInv, ResP!Inside, thread, session
<1>3. Res!Respond("rx", "app", Res!Report(session.done, Res!Received(session)))
  BY <1>2, ServerTypes DEF Res!BuildReport, thread, session
<1>4. thread'.pc = "reply" /\ thread'.out = Res!Report(session.done, Res!Received(session))
  BY <1>3, ServerTypes DEF Res!Respond, Res!Resting, thread
<1>5. session.done => taken["app"] = 1
  BY DEF Halves, ResP!IInv, ResP!PeerInv, session
<1> QED
  BY <1>1, <1>4, <1>5 DEF Res!Report

(* What leaves a whole session of the current call is that call's payload. *)
LEMMA WholePayload ==
  ASSUME Types, SessionInv, Answered, session.accepted, Whole, Dispose,
         Current \in Calls, thread'.blocks = session.blocks, taken'["app"] > taken["app"]
  PROVE  written' = Append(written, Payload(Current))
<1>1. /\ session.numBlocks = sizes[Current] /\ sizes[Current] \in 1 .. MaxBlocks
      /\ \A i \in 0 .. MaxBlocks - 1 : session.blocks[i] \in {0, Current}
  BY DEF SessionInv, Types
<1>2. \A i \in 1 .. sizes[Current] : thread'.blocks[i - 1] = Current
  <2>1. ASSUME NEW i \in 1 .. sizes[Current] PROVE session.blocks[i - 1] = Current
    <3>1. i - 1 \in 0 .. session.numBlocks - 1 /\ i - 1 \in 0 .. MaxBlocks - 1
      BY <1>1, TransferAssumption
    <3> QED
      BY <1>1, <3>1 DEF Whole
  <2> QED
    BY <2>1
<1>3. written' = Append(written, [i \in 1 .. sizes[Current] |-> thread'.blocks[i - 1]])
  BY <1>1 DEF Dispose, session, thread
<1> QED
  BY <1>2, <1>3 DEF Payload

(* A step disposes of the whole payload of the current call, for the first *)
(* time, or of nothing.                                                    *)
Takes ==
    /\ taken["app"] = 0 /\ taken'["app"] = 1
    /\ session.accepted /\ Answered /\ ~Sent("request") /\ ~Quiet
    /\ Current \in Calls /\ written' = Append(written, Payload(Current))
    /\ UNCHANGED <<iniVars, sessions, sizes, result, toApp>>
    /\ thread'.pc = "record" /\ ToNode' \subseteq ToNode

TakesNothing == written' = written /\ (taken' = taken \/ taken'["app"] = 0)

LEMMA OnceTaken ==
  ASSUME Types, Halves, Res!Taken("app"),
         thread.pc = "handler" \/ (thread.pc = "idle" /\ ~session.done)
  PROVE  taken["app"] = 0 /\ taken'["app"] = 1
<1>1. taken["app"] = 0
  BY ServerTypes DEF Halves, ResP!IInv, ResP!ThreadInv, ResP!PeerInv, thread, session
<1> QED
  BY <1>1, ServerTypes DEF Res!Taken

LEMMA Disposed ==
  ASSUME Types, Halves, FramesInv, SessionInv, [Next]_vars
  PROVE  Takes \/ TakesNothing
<1>1. CASE NodeReceives
  <2> DEFINE f == Head(toNode)
  <2>1. toNode # <<>> /\ toNode' \in {toNode, Tail(toNode)} /\ Dispose
    BY <1>1 DEF NodeReceives, Receive
  <2>2. /\ f \in Requests /\ ToNode = {f} \cup ToNode'
        /\ \A g \in ToNode : Rank(f.type) <= Rank(g.type)
    BY <2>1, NodeTakes DEF FramesInv
  <2>3. taken["app"] \in 0 .. 2
    BY ServerTypes
  <2>4. taken' = taken \/ taken'["app"] = 0 => TakesNothing
    BY <2>1, <2>3 DEF Dispose, TakesNothing
  <2>5. CASE Res!OnRequest("rx", "app", f.low6, TRUE)
    BY <2>2, <2>4, <2>5, RequestOpens DEF Requests
  <2>6. CASE Res!OnTransfer("rx", "app", f.low6, f.data)
    BY <2>2, <2>4, <2>6, TransferStores DEF Requests
  <2>7. CASE Res!OnAbort("rx", "app")
    BY <2>4, <2>7, AbortCloses
  <2>8. CASE f.type = "status" /\ Res!OnStatusRequest("rx", "app")
    <3>1. CASE taken' = taken
      BY <2>4, <3>1
    <3>2. CASE session.accepted /\ thread'.pc = "record" /\ Res!Taken("app")
               /\ thread'.blocks = session.blocks /\ Whole /\ ~session.done
      <4>1. taken["app"] = 0 /\ taken'["app"] = 1
        BY <2>8, <3>2, StatusLooks, OnceTaken
      <4>2. ~Quiet /\ Answered /\ Current \in Calls
        BY <2>2, <2>8 DEF Quiet, Answered, FramesInv
      <4>3. ~Sent("request")
        BY <2>2, <2>8 DEF Sent, Rank
      <4>4. written' = Append(written, Payload(Current))
        BY <2>1, <3>2, <4>1, <4>2, WholePayload
      <4>5. /\ UNCHANGED <<iniVars, sessions, sizes, result, toApp>>
            /\ ToNode' \subseteq ToNode
        BY <1>1, <2>2, <2>8, StatusLooks DEF NodeReceives
      <4> QED
        BY <3>2, <4>1, <4>2, <4>3, <4>4, <4>5 DEF Takes
    <3> QED
      BY <2>8, <3>1, <3>2, StatusLooks
  <2> QED
    BY <1>1, <2>5, <2>6, <2>7, <2>8 DEF NodeReceives
<1>2. CASE NodeThinks
  <2>1. ASSUME NEW answer \in HandlerResults, Res!RunHandler("rx", answer)
        PROVE  Takes \/ TakesNothing
    <3>1. /\ thread.pc = "handler" /\ thread'.pc = "record" /\ sessions' = sessions
          /\ thread'.blocks = thread.blocks
          /\ taken' = taken \/ Res!Taken("app")
      BY <2>1, HandlerRuns, TransferAssumption
    <3>2. Dispose /\ taken["app"] \in 0 .. 2
      BY <1>2, ServerTypes DEF NodeThinks
    <3>3. CASE taken' = taken
      BY <3>2, <3>3 DEF Dispose, TakesNothing
    <3>4. CASE Res!Taken("app")
      <4>1. taken["app"] = 0 /\ taken'["app"] = 1
        BY <3>1, <3>4, OnceTaken
      <4>2. /\ session.accepted /\ ~Sent("request") /\ Whole
            /\ thread'.blocks = session.blocks
        BY <3>1 DEF SessionInv, Whole
      <4>3. Answered /\ ~Quiet /\ Current \in Calls
        BY <3>1 DEF Answered, Quiet, FramesInv
      <4>4. written' = Append(written, Payload(Current))
        BY <3>2, <4>1, <4>2, <4>3, WholePayload
      <4>5. UNCHANGED <<iniVars, sessions, sizes, result, toApp>> /\ toNode' = toNode
        BY <1>2, <3>1 DEF NodeThinks
      <4>6. ToNode' \subseteq ToNode
        BY <4>5 DEF ToNode
      <4> QED
        BY <3>1, <4>1, <4>2, <4>3, <4>4, <4>5, <4>6 DEF Takes
    <3> QED
      BY <3>1, <3>3, <3>4
  <2>2. CASE Res!RecordDone("rx") \/ Res!BuildReport("rx")
    <3>1. taken' = taken
      BY <2>2 DEF Res!RecordDone, Res!BuildReport
    <3> QED
      BY <1>2, <3>1, ServerTypes DEF NodeThinks, Dispose, TakesNothing
  <2> QED
    BY <1>2, <2>1, <2>2 DEF NodeThinks
<1>3. CASE ~NodeReceives /\ ~NodeThinks
  BY <1>3 DEF Next, Caller, Node, Register, Begin, CallerSends, CallerThinks,
     CallerTimesOut, AppReceives, NodeReplies, Res!SetHandler, Res!Reply, BusLoses, Rest,
     vars, resVars, TakesNothing
<1> QED
  BY <1>1, <1>2, <1>3

----------------------------------------------------------------------------
(* The session of the current call                                         *)

OpensSession ==
    /\ NodeReceives /\ Sent("request") /\ Current \in Calls
    /\ session'.accepted /\ session'.numBlocks = sizes[Current]
    /\ session'.blocks = [i \in 0 .. MaxBlocks - 1 |-> 0]
    /\ taken'["app"] = 0 /\ thread'.pc = "reply" /\ ~thread'.out.done

ClosesSession == ~session'.accepted /\ thread'.pc = "reply" /\ ~thread'.out.done

(* The session itself is left alone, or takes one block of the call.       *)
FillsSession ==
    /\ session.accepted /\ session'.accepted /\ session'.numBlocks = session.numBlocks
    /\ \A i \in 0 .. MaxBlocks - 1 : session'.blocks[i] \in {session.blocks[i], Current}
    /\ taken' = taken
    /\ \/ thread'.pc = "reply" /\ ~thread'.out.done
       \/ thread.pc = "record" /\ thread'.pc = "report"

(* A thread that enters onFrame() for a status request looks at a session  *)
(* whose call has sent its REQUEST before.                                 *)
Looks ==
    /\ sessions' = sessions /\ session.accepted /\ ~Sent("request") /\ Working'
    /\ thread'.pc = "handler" => thread'.blocks = session.blocks /\ Whole
    /\ ToNode' \subseteq ToNode /\ (Takes \/ taken' = taken)

LEMMA RequestOpensSession ==
  ASSUME Types, FramesInv, NodeReceives, Head(toNode).type = "request"
  PROVE  OpensSession
<1> DEFINE f == Head(toNode)
<1>1. toNode # <<>> /\ toNode' \in {toNode, Tail(toNode)}
  BY DEF NodeReceives, Receive
<1>2. f \in Requests /\ f \in ToNode
  BY <1>1, NodeTakes DEF FramesInv
<1>3. Res!OnRequest("rx", "app", f.low6, TRUE) /\ f.low6 \in 0 .. MaxBlocks - 1
  BY <1>2 DEF NodeReceives, Requests
<1>4. f.low6 + 1 = sizes[Current]
  BY <1>2 DEF FramesInv
<1>5. Sent("request") /\ Current \in Calls
  BY <1>2 DEF Sent, FramesInv, Quiet
<1> QED
  BY <1>3, <1>4, <1>5, RequestOpens DEF OpensSession

LEMMA SessionCases ==
  ASSUME Types, Halves, FramesInv, SessionInv, [Next]_vars
  PROVE  \/ UNCHANGED <<sessions, rx, taken>>
         \/ OpensSession \/ ClosesSession \/ FillsSession \/ Looks
         \/ /\ NodeThinks /\ sessions' = sessions /\ thread.pc \in {"handler", "report"}
            /\ thread'.pc \in {"record", "reply"} /\ (Takes \/ taken' = taken)
            /\ thread'.pc = "reply" /\ thread'.out.done => taken["app"] = 1
         \/ /\ NodeReplies /\ UNCHANGED <<sessions, taken>> /\ thread'.pc = "idle"
<1>1. CASE NodeReceives
  <2> DEFINE f == Head(toNode)
  <2>1. toNode # <<>> /\ toNode' \in {toNode, Tail(toNode)}
    BY <1>1 DEF NodeReceives, Receive
  <2>2. /\ f \in Requests /\ ToNode = {f} \cup ToNode'
        /\ \A g \in ToNode : Rank(f.type) <= Rank(g.type)
    BY <2>1, NodeTakes DEF FramesInv
  <2>3. CASE f.type = "request"
    BY <1>1, <2>3, RequestOpensSession
  <2>4. CASE f.type = "transfer" /\ Res!OnTransfer("rx", "app", f.low6, f.data)
    <3>1. f.low6 \in 0 .. MaxBlocks - 1 /\ f.data \in Calls \cup {0} /\ f.data = Current
      BY <2>2, <2>4 DEF Requests, FramesInv
    <3>2. /\ thread'.pc = "reply" /\ ~thread'.out.done /\ taken' = taken
          /\ session' = IF session.accepted /\ f.low6 < session.numBlocks
                        THEN [session EXCEPT !.blocks[f.low6] = Current] ELSE session
      BY <2>4, <3>1, TransferStores
    <3>3. session \in ResP!Session
      BY ServerTypes
    <3>4. CASE session.accepted
      BY <3>1, <3>2, <3>3, <3>4 DEF FillsSession, ResP!Session, ResP!BlockIndex
    <3>5. CASE ~session.accepted
      BY <3>2, <3>5 DEF ClosesSession
    <3> QED
      BY <3>4, <3>5
  <2>5. CASE f.type = "status" /\ Res!OnStatusRequest("rx", "app")
    <3>1. ~Sent("request")
      BY <2>2, <2>5 DEF Sent, Rank
    <3>2. Takes \/ TakesNothing
      BY Disposed
    <3>3. CASE ~session.accepted
      BY <2>5, <3>3, StatusLooks DEF ClosesSession, session
    <3>4. CASE session.accepted /\ taken' = taken
      BY <2>2, <2>5, <3>1, <3>4, StatusLooks DEF Looks, Working, ClosesSession, session
    <3>5. CASE session.accepted /\ Res!Taken("app") /\ ~session.done
      <4>1. Takes
        BY <2>5, <3>2, <3>5, StatusLooks, OnceTaken DEF TakesNothing
      <4> QED
        BY <3>1, <3>5, <4>1 DEF Takes, Looks, Working
    <3> QED
      BY <2>5, <3>3, <3>4, <3>5, StatusLooks
  <2>6. CASE Res!OnAbort("rx", "app")
    BY <2>6, AbortCloses DEF ClosesSession
  <2> QED
    BY <1>1, <2>3, <2>4, <2>5, <2>6 DEF NodeReceives
<1>2. CASE NodeThinks
  <2>1. ASSUME NEW answer \in HandlerResults, Res!RunHandler("rx", answer)
        PROVE  /\ sessions' = sessions /\ thread.pc = "handler" /\ thread'.pc = "record"
               /\ Takes \/ taken' = taken
    <3>1. /\ thread.pc = "handler" /\ thread'.pc = "record" /\ sessions' = sessions
          /\ taken' = taken \/ Res!Taken("app")
      BY <2>1, HandlerRuns, TransferAssumption
    <3>2. Takes \/ TakesNothing
      BY Disposed
    <3> QED
      BY <3>1, <3>2, OnceTaken DEF TakesNothing
  <2>2. CASE Res!RecordDone("rx")
    <3>1. session.accepted
      BY <2>2, RecordKept DEF SessionInv
    <3> QED
      BY <2>2, <3>1, RecordKept DEF FillsSession
  <2>3. CASE Res!BuildReport("rx")
    BY <1>2, <2>3, ReportTells
  <2> QED
    BY <1>2, <2>1, <2>2, <2>3 DEF NodeThinks
<1>3. CASE NodeReplies
  BY <1>3, ServerTypes DEF NodeReplies, Res!Reply, Res!Resting, thread
<1>4. CASE ~NodeReceives /\ ~NodeThinks /\ ~NodeReplies
  BY <1>4 DEF Next, Caller, Node, Register, Begin, CallerSends, CallerThinks,
     CallerTimesOut, AppReceives, Res!SetHandler, BusLoses, Rest, vars, resVars
<1> QED
  BY <1>1, <1>2, <1>3, <1>4

(* Nothing but its REQUEST makes the node act on a call.                   *)
LEMMA AnsweredSince ==
  ASSUME Types, CallsInv, FramesInv, CallKept \/ InCall, [Next]_vars, Answered'
  PROVE  Answered \/ OpensSession
<1> SUFFICES ASSUME ~Answered, ~OpensSession PROVE FALSE
  OBVIOUS
<1>1. /\ ToApp = {} /\ thread.pc = "idle" /\ ~pending.requestAcked
      /\ \A f \in ToNode : f.type = "request"
  BY DEF Answered
<1>2. /\ caller.pc \in {"idle", "request", "awaitAck"}
      /\ call \in [{"app"} -> IniP!CallRecord] /\ pending \in IniP!PendingRecord
  BY DEF Answered, Types, IniP!TInv, IniP!TypeOK, IniP!CallRecord, IniP!PC, IniP!Sending,
     IniP!Waiting, caller
<1>3. toApp = <<>>
  <2>1. toApp \in Seq(Answers)
    BY DEF Types
  <2> QED
    BY <1>1, <2>1, HeadLeaves DEF ToApp
<1>4. ~NodeReceives
  <2>1. SUFFICES ASSUME NodeReceives PROVE FALSE
    OBVIOUS
  <2>2. toNode # <<>> /\ toNode' \in {toNode, Tail(toNode)}
    BY <2>1 DEF NodeReceives, Receive
  <2>3. Head(toNode) \in ToNode
    BY <2>2, NodeTakes DEF FramesInv
  <2> QED
    BY <1>1, <2>1, <2>3, RequestOpensSession
<1>5. UNCHANGED <<rx, toApp>>
  BY <1>1, <1>3, <1>4
  DEF Next, Caller, Node, Register, Begin, CallerSends, CallerThinks, CallerTimesOut,
      AppReceives, NodeThinks, NodeReplies, Res!SetHandler, Res!RunHandler,
      Res!RecordDone, Res!BuildReport, Res!Reply, BusLoses, Rest, vars, resVars, thread
<1>6. ~pending'.requestAcked /\ caller'.pc \in {"idle", "request", "awaitAck"}
  <2>1. CASE UNCHANGED <<pending, call>>
    BY <1>1, <1>2, <2>1 DEF caller
  <2>2. CASE InCall
    BY <1>1, <1>2, <2>2
    DEF InCall, CallerSends, CallerThinks, CallerTimesOut, caller,
       Ini!SendRequest, Ini!SendTransfer, Ini!SendStatusRequest, Ini!SendAbort,
       Ini!WakeOnAck, Ini!Arm, Ini!WakeOnReport, Ini!AckTimeout, Ini!ReportTimeout,
       Ini!GiveUp, Ini!Goto, Ini!NoPending, IniP!CallRecord
  <2>3. UNCHANGED <<pending, call>> \/ InCall
    <3>1. ASSUME NEW k \in Calls, NEW n \in 1 .. MaxBlocks, Begin(k, n), CallKept
          PROVE  FALSE
      BY <1>2, <3>1 DEF Begin, Ini!Begin, CallKept, caller
    <3>2. CASE InCall
      BY <3>2
    <3>3. CASE CallKept /\ ~InCall
      BY <1>3, <3>1, <3>3
      DEF Next, Caller, Node, Register, AppReceives, NodeReceives, NodeThinks,
          NodeReplies, BusLoses, Rest, vars, iniVars, InCall
    <3> QED
      BY <3>2, <3>3
  <2> QED
    BY <2>1, <2>2, <2>3
<1>7. \A f \in ToNode' : f.type = "request"
  <2>1. CASE ~CallerSends
    BY <1>1, <2>1, NoFrameMade DEF FramesInv
  <2>2. CASE CallerSends
    <3>1. PICK f \in Requests, sent \in BOOLEAN :
            /\ ToNode' = (IF sent THEN ToNode \cup {f} ELSE ToNode)
            /\ \/ Ini!SendRequest("app", sent) /\ f.type = "request"
               \/ Ini!SendTransfer("app", sent)
               \/ Ini!SendStatusRequest("app", sent)
               \/ Ini!SendAbort("app")
      BY <2>2, CallerSendsWhat
    <3>2. f.type = "request"
      BY <1>2, <3>1 DEF Ini!SendTransfer, Ini!SendStatusRequest, Ini!SendAbort, caller
    <3> QED
      BY <1>1, <3>1, <3>2
  <2> QED
    BY <2>1, <2>2
<1>8. ToApp' = {} /\ thread'.pc = "idle"
  BY <1>1, <1>5 DEF ToApp, thread
<1> QED
  BY <1>6, <1>7, <1>8 DEF Answered

(* A call that has begun to be answered sends no second REQUEST.           *)
LEMMA NoNewRequest ==
  ASSUME Types, CallsInv, FramesInv, [Next]_vars, ~Sent("request"), ~Quiet
  PROVE  ~Sent("request")'
<1>1. CASE ~CallerSends
  BY <1>1, NoFrameMade DEF FramesInv, Sent
<1>2. CASE CallerSends
  <2>1. PICK f \in Requests, sent \in BOOLEAN :
            /\ ToNode' = (IF sent THEN ToNode \cup {f} ELSE ToNode)
            /\ \/ Ini!SendRequest("app", sent)
               \/ f.type = "transfer"
               \/ f.type = "status"
               \/ f.type = "abort"
    BY <1>2, CallerSendsWhat
  <2>2. ~Ini!SendRequest("app", sent)
    BY DEF Ini!SendRequest, FramesInv, caller
  <2> QED
    BY <2>1, <2>2 DEF Sent
<1> QED
  BY <1>1, <1>2

(* How often the calls' payloads have been written, after a step.          *)
LEMMA WritesAfter ==
  ASSUME Types, WriteInv, sizes' = sizes, Takes \/ TakesNothing
  PROVE  /\ TakesNothing => writes' = writes
         /\ Takes => /\ writes'[Current] = writes[Current] + 1
                     /\ \A j \in Calls \ {Current} : writes'[j] = writes[j]
<1>1. CASE Takes
  BY <1>1, WritesMore DEF Takes, TakesNothing, Types, WriteInv
<1>2. CASE ~Takes
  BY <1>2, WritesKept DEF TakesNothing
<1> QED
  BY <1>1, <1>2

LEMMA SessionNext ==
  ASSUME Patient, Types, Types', Halves, CallsInv, FramesInv, SessionInv, WriteInv,
         [Next]_vars
  PROVE  SessionInv'
<1>1. ASSUME NEW k \in Calls, NEW n \in 1 .. MaxBlocks, Begin(k, n)
      PROVE  SessionInv'
  <2>1. Quiet /\ UNCHANGED <<toNode, toApp, rx>> /\ ~pending'.requestAcked
    BY <1>1, QuietIsSilent DEF Begin, Ini!Begin, Ini!NoPending, resVars
  <2>2. ToNode' = {} /\ ToApp' = {} /\ thread'.pc = "idle"
    BY <2>1 DEF Quiet, ToNode, ToApp, thread
  <2>3. caller'.pc = "request"
    BY <1>1, BeginCall
  <2> QED
    BY <2>1, <2>2, <2>3 DEF SessionInv, Answered
<1>2. ASSUME CallKept \/ InCall
      PROVE  SessionInv'
  <2>1. Current' = Current /\ sizes' = sizes
    BY <1>2, CallGoesOn
  <2>2. Takes \/ TakesNothing
    BY Disposed
  <2>3. /\ TakesNothing => writes' = writes
        /\ Takes => writes'[Current] = writes[Current] + 1
    BY <2>1, <2>2, WritesAfter
  <2>4. \/ UNCHANGED <<sessions, rx, taken>>
        \/ OpensSession \/ ClosesSession \/ FillsSession \/ Looks
        \/ /\ NodeThinks /\ sessions' = sessions /\ thread.pc \in {"handler", "report"}
           /\ thread'.pc \in {"record", "reply"} /\ (Takes \/ taken' = taken)
        \/ /\ UNCHANGED <<sessions, taken>> /\ thread'.pc = "idle"
    BY SessionCases
  <2>5. ASSUME Answered', session'.accepted
        PROVE  /\ session'.numBlocks = sizes[Current]
               /\ \A i \in 0 .. MaxBlocks - 1 : session'.blocks[i] \in {0, Current}
               /\ writes'[Current] = taken'["app"]
    <3>1. CASE OpensSession
      <4>1. TakesNothing /\ writes[Current] = 0
        BY <2>2, <3>1 DEF OpensSession, Takes, WriteInv
      <4> QED
        BY <2>3, <3>1, <4>1 DEF OpensSession
    <3>2. CASE ~OpensSession
      <4>1. Answered
        BY <1>2, <2>5, <3>2, AnsweredSince
      <4>2. /\ session.accepted
            /\ \/ sessions' = sessions /\ (Takes \/ taken' = taken)
               \/ FillsSession
        BY <2>4, <2>5, <3>2 DEF ClosesSession, FillsSession, Looks, session
      <4>3. /\ session.numBlocks = sizes[Current]
            /\ \A i \in 0 .. MaxBlocks - 1 : session.blocks[i] \in {0, Current}
            /\ writes[Current] = taken["app"]
        BY <4>1, <4>2 DEF SessionInv
      <4>4. writes'[Current] = taken'["app"]
        BY <2>2, <2>3, <4>2, <4>3 DEF FillsSession, Takes, TakesNothing
      <4>5. /\ session'.numBlocks = sizes[Current]
            /\ \A i \in 0 .. MaxBlocks - 1 : session'.blocks[i] \in {0, Current}
        <5>1. CASE sessions' = sessions
          BY <4>3, <5>1 DEF session
        <5>2. CASE FillsSession
          BY <4>3, <5>2 DEF FillsSession
        <5> QED
          BY <4>2, <5>1, <5>2
      <4> QED
        BY <4>4, <4>5
    <3> QED
      BY <3>1, <3>2
  <2>6. ASSUME Working'
        PROVE  session'.accepted /\ ~Sent("request")'
    <3>1. CASE Looks
      BY <3>1 DEF Looks, Sent, session
    <3>2. CASE ~Looks
      <4>1. Working /\ (sessions' = sessions \/ session'.accepted)
        BY <2>4, <2>6, <3>2
        DEF Working, OpensSession, ClosesSession, FillsSession, thread
      <4>2. session.accepted /\ ~Sent("request") /\ ~Quiet
        BY <4>1 DEF Working, SessionInv, Quiet
      <4> QED
        BY <4>1, <4>2, NoNewRequest DEF session
    <3> QED
      BY <3>1, <3>2
  <2>7. ASSUME thread'.pc = "handler"
        PROVE  /\ thread'.blocks = session'.blocks
               /\ \A i \in 0 .. session'.numBlocks - 1 : session'.blocks[i] # 0
    <3>1. UNCHANGED <<sessions, rx>> \/ Looks
      BY <2>4, <2>7 DEF OpensSession, ClosesSession, FillsSession
    <3>2. CASE UNCHANGED <<sessions, rx>>
      BY <2>7, <3>2 DEF SessionInv, session, thread
    <3>3. CASE Looks
      BY <2>7, <3>3 DEF Looks, Whole, session
    <3> QED
      BY <3>1, <3>2, <3>3
  <2> QED
    BY <2>1, <2>5, <2>6, <2>7 DEF SessionInv, Working
<1> QED
  BY <1>1, <1>2, StepCases

----------------------------------------------------------------------------
(* What was written                                                        *)

(* A call that begins has not been written, whatever was written before.   *)
LEMMA BeginWrites ==
  ASSUME Types, CallsInv, WriteInv, NEW k \in Calls, NEW n \in 1 .. MaxBlocks, Begin(k, n)
  PROVE  /\ written' = written /\ writes'[k] = 0
         /\ \A j \in Calls \ {k} : writes'[j] = writes[j]
         /\ \A i \in DOMAIN written : \E j \in 1 .. Current : written[i] = Payload(j)'
<1>1. /\ k = Current + 1 /\ sizes' = [sizes EXCEPT ![k] = n] /\ written' = written
      /\ Current \in Nat /\ 1 .. Current \subseteq Calls
  <2>1. k = Current + 1 /\ sizes' = [sizes EXCEPT ![k] = n]
    BY BeginCall
  <2>2. Current \in Nat
    BY CurrentType
  <2>3. 1 .. Current \subseteq Calls
    BY DEF CallsInv
  <2> QED
    BY <2>1, <2>2, <2>3 DEF Begin
<1>2. sizes' \in [Calls -> 1 .. MaxBlocks] /\ \A j \in Calls \ {k} : sizes'[j] = sizes[j]
  BY <1>1 DEF Types
<1>3. \A j \in Calls \ {k} : Payload(j)' = Payload(j)
  BY <1>2 DEF Payload
<1>4. \A j \in 1 .. Current : j \in Calls \ {k}
  BY <1>1
<1>5. \A i \in DOMAIN written : \E j \in 1 .. Current : written[i] = Payload(j)'
  BY <1>3, <1>4 DEF WriteInv
<1>6. \A j \in Calls \ {k} : Payload(j)' # Payload(k)'
  <2>1. ASSUME NEW j \in Calls \ {k} PROVE Payload(j)' # Payload(k)'
    <3>1. 1 \in 1 .. sizes'[j] /\ 1 \in 1 .. sizes'[k]
      BY <1>2, TransferAssumption
    <3>2. Payload(j)'[1] = j /\ Payload(k)'[1] = k
      BY <3>1 DEF Payload
    <3> QED
      BY <3>2
  <2> QED
    BY <2>1
<1>7. {i \in DOMAIN written : written[i] = Payload(k)'} = {}
  BY <1>4, <1>5, <1>6
<1>8. writes'[k] = 0
  <2>1. Count(k)' = Cardinality({i \in DOMAIN written : written[i] = Payload(k)'})
    BY <1>1 DEF Count
  <2> QED
    BY <1>7, <2>1, FS_EmptySet DEF writes
<1>9. \A j \in Calls \ {k} : writes'[j] = writes[j]
  <2>1. ASSUME NEW j \in Calls \ {k} PROVE Count(j)' = Count(j)
    BY <1>1, <1>3 DEF Count
  <2> QED
    BY <2>1 DEF writes
<1> QED
  BY <1>1, <1>5, <1>8, <1>9

LEMMA WriteInit == Init => WriteInv
<1> SUFFICES ASSUME Init PROVE WriteInv
  OBVIOUS
<1>1. /\ written = <<>> /\ toNode = <<>> /\ toApp = <<>> /\ pending.ok = FALSE
      /\ thread.pc = "idle" /\ caller.pc = "idle" /\ \A k \in Calls : result[k] # "ok"
  BY DEF Init, Ini!Init, Ini!NoCall, Ini!NoPending, Res!ServeInit, Res!Resting, caller, thread
<1>2. ToNode = {} /\ ToApp = {} /\ DOMAIN written = {} /\ written \in Seq(Payloads)
  BY <1>1, EmptySeq DEF ToNode, ToApp, Carried
<1>3. \A k \in Calls : writes[k] = 0
  <2>1. ASSUME NEW k \in Calls PROVE Count(k) = 0
    <3>1. {i \in DOMAIN written : written[i] = Payload(k)} = {}
      BY <1>2
    <3> QED
      BY <3>1, FS_EmptySet DEF Count
  <2> QED
    BY <2>1 DEF writes
<1> QED
  BY <1>1, <1>2, <1>3 DEF WriteInv, Sent

LEMMA CallsInit == Init => CallsInv
<1> SUFFICES ASSUME Init PROVE CallsInv
  OBVIOUS
<1>1. {k \in Calls : result[k] # "unused"} = {}
  BY DEF Init
<1>2. Current = 0
  BY <1>1, FS_EmptySet DEF Current
<1>3. 1 .. Current = {} /\ caller.pc = "idle" /\ 1 \in 1 .. MaxBlocks
  BY <1>2, TransferAssumption DEF Init, Ini!Init, Ini!NoCall, caller
<1> QED
  BY <1>1, <1>3 DEF CallsInv, Init

LEMMA TransferInit == Init => TInv
<1> SUFFICES ASSUME Init PROVE TInv
  OBVIOUS
<1>1. /\ ToNode = {} /\ ToApp = {} /\ thread.pc = "idle" /\ ~pending.requestAcked
      /\ caller.pc = "idle"
  BY DEF Init, Ini!Init, Ini!NoCall, Ini!NoPending, Res!ServeInit, Res!Resting, caller, thread,
     ToNode, ToApp, Carried
<1>2. SessionInv
  BY <1>1 DEF SessionInv, Answered
<1> QED
  BY <1>2, CallsInit, FramesInit, WriteInit DEF TInv

----------------------------------------------------------------------------
(* Where a report that says "done" comes from.  The caller learns of it    *)
(* from a frame, ...                                                       *)
LEMMA PendingDone ==
  ASSUME Types, [Next]_vars, pending'.ok /\ pending'.done
  PROVE  (pending.ok /\ pending.done) \/ \E f \in ToApp : f.done
<1>1. pending \in IniP!PendingRecord
  BY DEF Types, IniP!TInv, IniP!TypeOK
<1>2. CASE pending.ok /\ pending.done
  BY <1>2
<1>3. CASE AppReceives
  <2> DEFINE f == Head(toApp)
  <2>1. toApp # <<>> /\ toApp' \in {toApp, Tail(toApp)}
    BY <1>3 DEF AppReceives, Receive
  <2>2. f \in ToApp
    BY <2>1, AppTakes
  <2>3. (pending.ok /\ pending.done) \/ f.done
    BY <1>1, <1>3 DEF AppReceives, Ini!OnAck, Ini!OnNack, Ini!OnReport, IniP!PendingRecord
  <2> QED
    BY <2>2, <2>3
<1>4. CASE ~(pending.ok /\ pending.done) /\ ~AppReceives
  <2>1. CASE CallerSends
    BY <1>1, <1>4, <2>1
    DEF CallerSends, Ini!SendRequest, Ini!SendTransfer, Ini!SendStatusRequest,
       Ini!SendAbort, Ini!GiveUp, Ini!NoPending
  <2>2. CASE CallerThinks \/ CallerTimesOut
    <3>1. ~Ini!NoPending.ok
      BY DEF Ini!NoPending
    <3>2. CASE Ini!Arm("app")
      BY <1>1, <3>2 DEF Ini!Arm, IniP!PendingRecord
    <3>3. CASE Ini!WakeOnAck("app") \/ Ini!WakeOnReport("app") \/ Ini!AckTimeout("app")
               \/ Ini!ReportTimeout("app")
      <4>1. pending' = pending \/ pending' = Ini!NoPending
        BY <3>3 DEF Ini!WakeOnAck, Ini!WakeOnReport, Ini!AckTimeout, Ini!ReportTimeout,
           Ini!GiveUp
      <4> QED
        BY <1>4, <3>1, <4>1
    <3> QED
      BY <2>2, <3>2, <3>3 DEF CallerThinks, CallerTimesOut
  <2>3. ASSUME NEW k \in Calls, NEW n \in 1 .. MaxBlocks, Begin(k, n)
        PROVE  ~pending'.ok
    BY <2>3 DEF Begin, Ini!Begin, Ini!NoPending
  <2>4. CASE UNCHANGED pending
    BY <1>4, <2>4
  <2> QED
    BY <1>4, <2>1, <2>2, <2>3, <2>4
    DEF Next, Caller, Node, Register, NodeReceives, NodeThinks, NodeReplies, BusLoses,
       Rest, vars, iniVars
<1> QED
  BY <1>2, <1>3, <1>4

(* ... remembers it until it returns, ...                                  *)
LEMMA SuccessDone ==
  ASSUME Types, Halves, CallKept \/ InCall, caller.pc # "idle",
         caller'.success, caller'.pc \in {"abort", "idle"}
  PROVE  (caller.pc = "abort" /\ caller.success) \/ (pending.ok /\ pending.done)
<1>1. /\ call \in [{"app"} -> IniP!CallRecord]
      /\ caller.success => caller.pc \in {"abort", "idle"}
  BY DEF Types, IniP!TInv, IniP!TypeOK, Halves, IniP!IInv, IniP!CallInv,
     IniP!FlagsMeanAnswers, IniP!InCall, caller
<1>2. CASE CallKept
  BY <1>1, <1>2 DEF CallKept, caller
<1>3. CASE InCall
  <2>1. CASE caller.pc = "abort"
    <3>1. caller'.success = caller.success
      BY <1>1, <1>3, <2>1
      DEF InCall, CallerSends, CallerThinks, CallerTimesOut, caller, IniP!CallRecord,
         Ini!SendRequest, Ini!SendTransfer, Ini!SendStatusRequest, Ini!SendAbort,
         Ini!WakeOnAck, Ini!Arm, Ini!WakeOnReport, Ini!AckTimeout, Ini!ReportTimeout,
         Ini!Goto
    <3> QED
      BY <1>1, <2>1, <3>1
  <2>2. CASE Ini!WakeOnReport("app")
    <3>1. pending.ok /\ pending.done
      BY <1>1, <2>2 DEF Ini!WakeOnReport, Ini!GiveUp, Ini!Goto, caller, IniP!CallRecord
    <3> QED
      BY <3>1
  <2>3. CASE caller.pc # "abort" /\ ~Ini!WakeOnReport("app")
    <3>1. caller'.success = caller.success
      BY <1>1, <1>3, <2>3
      DEF InCall, CallerSends, CallerThinks, CallerTimesOut, caller, IniP!CallRecord,
         Ini!SendRequest, Ini!SendTransfer, Ini!SendStatusRequest, Ini!SendAbort,
         Ini!WakeOnAck, Ini!Arm, Ini!AckTimeout, Ini!ReportTimeout, Ini!GiveUp, Ini!Goto
    <3> QED
      BY <1>1, <2>3, <3>1
  <2> QED
    BY <2>1, <2>2, <2>3
<1> QED
  BY <1>2, <1>3

(* ... and the node says it in a frame, when its handler has taken the     *)
(* payload of the session.                                                 *)
LEMMA FramesDone ==
  ASSUME Types, [Next]_vars, NEW f \in ToApp', f.done
  PROVE  f \in ToApp \/ (thread.pc = "reply" /\ thread.out.done)
<1>1. CASE NodeReplies
  <2>1. thread.pc = "reply" /\ toApp' = Append(toApp, thread.out)
    BY <1>1 DEF NodeReplies, Res!Reply, thread
  <2>2. thread.out \in Answers
    BY DEF thread, Types, ResP!ServeTypeOK, ResP!Thread, ResP!BlockIndex, Answers
  <2>3. Carried(Append(toApp, thread.out)) = Carried(toApp) \cup {thread.out}
    BY <2>2, LastJoins DEF Types
  <2> QED
    BY <2>1, <2>3 DEF ToApp
<1>2. CASE toApp # <<>> /\ toApp' \in {toApp, Tail(toApp)}
  BY <1>2, AppTakes
<1>3. CASE toApp' = toApp
  BY <1>3 DEF ToApp
<1> QED
  BY <1>1, <1>2, <1>3
  DEF Next, Caller, Node, Register, Begin, CallerSends, CallerThinks, CallerTimesOut,
     AppReceives, Receive, NodeReceives, NodeThinks, BusLoses, Rest, vars

LEMMA ReplyDone ==
  ASSUME Types, Halves, [Next]_vars, thread'.pc = "reply", thread'.out.done
  PROVE  \/ thread.pc = "reply" /\ thread.out.done
         \/ thread.pc = "report" /\ taken["app"] = 1
<1>1. CASE NodeReceives
  <2> DEFINE f == Head(toNode)
  <2>1. f \in Requests
    BY <1>1, HeadLeaves DEF NodeReceives, Types
  <2>2. f.low6 \in 0 .. MaxBlocks - 1 /\ f.data \in Calls \cup {0}
    BY <2>1 DEF Requests
  <2> QED
    BY <1>1, <2>2, RequestOpens, TransferStores, AbortCloses, StatusLooks
    DEF NodeReceives
<1>2. CASE NodeThinks
  <2>1. ASSUME NEW answer \in HandlerResults, Res!RunHandler("rx", answer)
        PROVE  FALSE
    BY <2>1, HandlerRuns, TransferAssumption
  <2> QED
    BY <1>2, <2>1, RecordKept, ReportTells DEF NodeThinks
<1>3. CASE NodeReplies
  BY <1>3, ServerTypes DEF NodeReplies, Res!Reply, Res!Resting, thread
<1>4. CASE rx' = rx
  BY <1>4 DEF thread
<1> QED
  BY <1>1, <1>2, <1>3, <1>4
  DEF Next, Caller, Node, Register, Begin, CallerSends, CallerThinks, CallerTimesOut,
     AppReceives, BusLoses, Rest, vars, resVars, Res!SetHandler

LEMMA RequestIsNew ==
  ASSUME Types, CallsInv, FramesInv, CallKept \/ InCall, [Next]_vars,
         Sent("request")' \/ caller'.pc = "request"
  PROVE  Sent("request") \/ caller.pc = "request"
<1>1. CASE caller'.pc = "request"
  BY <1>1, CallForward
<1>2. CASE Sent("request")' /\ ~CallerSends
  BY <1>2, NoFrameMade DEF FramesInv, Sent
<1>3. CASE Sent("request")' /\ CallerSends
  <2>1. PICK f \in Requests, sent \in BOOLEAN :
            /\ ToNode' = (IF sent THEN ToNode \cup {f} ELSE ToNode)
            /\ \/ Ini!SendRequest("app", sent)
               \/ f.type = "transfer"
               \/ f.type = "status"
               \/ f.type = "abort"
    BY <1>3, CallerSendsWhat
  <2>2. Ini!SendRequest("app", sent) => caller.pc = "request"
    BY DEF Ini!SendRequest, caller
  <2> QED
    BY <1>3, <2>1, <2>2 DEF Sent
<1> QED
  BY <1>1, <1>2, <1>3

LEMMA WriteNext ==
  ASSUME Patient, Types, Types', Halves, CallsInv, FramesInv, SessionInv, WriteInv,
         [Next]_vars
  PROVE  WriteInv'
<1>1. ASSUME NEW k \in Calls, NEW n \in 1 .. MaxBlocks, Begin(k, n)
      PROVE  WriteInv'
  <2>1. /\ written' = written /\ writes'[k] = 0
        /\ \A j \in Calls \ {k} : writes'[j] = writes[j]
        /\ \A i \in DOMAIN written : \E j \in 1 .. Current : written[i] = Payload(j)'
    BY <1>1, BeginWrites
  <2>2. /\ Current' = k /\ k = Current + 1 /\ caller'.pc = "request"
        /\ result' = [result EXCEPT ![k] = "open"]
    BY <1>1, BeginCall
  <2>3. Quiet /\ UNCHANGED <<toNode, toApp, rx>> /\ ~pending'.ok
    BY <1>1, QuietIsSilent DEF Begin, Ini!Begin, Ini!NoPending, resVars
  <2>4. ToNode' = {} /\ ToApp' = {} /\ thread'.pc = "idle"
    BY <2>3 DEF Quiet, ToNode, ToApp, thread
  <2>5. \A j \in 1 .. Current : j \in 1 .. Current'
    BY <2>2, CurrentType
  <2>6. \A j \in Calls : result'[j] = "ok" => j # k /\ result[j] = "ok"
    BY <2>2 DEF Types
  <2>7. \A i \in DOMAIN written' : \E j \in 1 .. Current' : written'[i] = Payload(j)'
    BY <2>1, <2>5
  <2> QED
    BY <2>1, <2>2, <2>3, <2>4, <2>6, <2>7 DEF WriteInv
<1>2. ASSUME CallKept \/ InCall
      PROVE  WriteInv'
  <2>1. /\ Current' = Current /\ sizes' = sizes
        /\ result' = IF caller.pc # "idle" /\ caller'.pc = "idle"
                     THEN [result EXCEPT ![Current] =
                                IF caller'.success THEN "ok" ELSE "failed"]
                     ELSE result
    BY <1>2, CallGoesOn
  <2>2. Takes \/ TakesNothing
    BY Disposed
  <2>3. /\ TakesNothing => writes' = writes
        /\ Takes => /\ writes'[Current] = writes[Current] + 1
                    /\ \A j \in Calls \ {Current} : writes'[j] = writes[j]
    BY <2>1, <2>2, WritesAfter
  <2>4. Takes => writes[Current] = 0 /\ Current \in Calls
    BY DEF Takes, SessionInv
  <2>5. \A k \in Calls : writes'[k] \in {0, 1} /\ (writes[k] = 1 => writes'[k] = 1)
    BY <2>2, <2>3, <2>4 DEF WriteInv
  <2>6. \A k \in Calls : Payload(k)' = Payload(k)
    BY <2>1 DEF Payload
  <2>7. written' \in Seq(Payloads)
    BY <2>1, <2>2, WritesMore DEF Takes, TakesNothing, WriteInv, Types
  <2>8. \A i \in DOMAIN written' : \E k \in 1 .. Current' : written'[i] = Payload(k)'
    <3>1. 1 .. Current \subseteq Calls
      BY DEF CallsInv
    <3>2. ASSUME Takes, NEW i \in DOMAIN written'
          PROVE  \E k \in 1 .. Current : written'[i] = Payload(k)
      <4>1. /\ Payload(Current) \in Payloads /\ written \in Seq(Payloads)
            /\ written' = Append(written, Payload(Current)) /\ Current \in Calls
        <5>1. Current \in Calls
          BY <3>2 DEF Takes
        <5>2. Payload(Current) \in [1 .. sizes[Current] -> Calls]
              /\ sizes[Current] \in 1 .. MaxBlocks
          BY <5>1 DEF Payload, Types
        <5> QED
          BY <3>2, <5>1, <5>2 DEF Takes, WriteInv, Payloads
      <4>2. /\ DOMAIN written = 1 .. Len(written) /\ Len(written) \in Nat
            /\ DOMAIN written' = 1 .. Len(written) + 1
            /\ \A j \in 1 .. Len(written) : written'[j] = written[j]
            /\ written'[Len(written) + 1] = Payload(Current)
        BY <4>1, AppendProperties, LenProperties
      <4>3. Current \in 1 .. Current
        BY <4>1 DEF Calls
      <4>4. CASE i = Len(written) + 1
        BY <4>2, <4>3, <4>4
      <4>5. CASE i # Len(written) + 1
        <5>1. i \in DOMAIN written /\ written'[i] = written[i]
          BY <3>2, <4>2, <4>5
        <5> QED
          BY <5>1 DEF WriteInv
      <4> QED
        BY <4>4, <4>5
    <3> QED
      BY <2>1, <2>2, <2>6, <3>1, <3>2 DEF TakesNothing, WriteInv
  <2>9. Sent("request")' \/ caller'.pc = "request" => writes'[Current] = 0
    <3>1. SUFFICES ASSUME Sent("request")' \/ caller'.pc = "request"
                   PROVE  writes'[Current] = 0
      OBVIOUS
    <3>2. Sent("request") \/ caller.pc = "request"
      BY <1>2, <3>1, RequestIsNew
    <3>3. ~Takes
      BY <3>2 DEF Takes, FramesInv
    <3> QED
      BY <2>2, <2>3, <3>2, <3>3 DEF WriteInv
  <2>10. /\ \A f \in ToApp' : f.done => writes[Current] = 1
         /\ thread'.pc = "reply" /\ thread'.out.done => writes[Current] = 1
    <3>1. thread.pc = "report" /\ taken["app"] = 1 => writes[Current] = 1
      BY DEF SessionInv, Answered
    <3> QED
      BY <3>1, FramesDone, ReplyDone DEF WriteInv
  <2>11. pending'.ok /\ pending'.done => writes[Current] = 1
    BY PendingDone DEF WriteInv
  <2>12. caller.pc # "idle" /\ caller'.success /\ caller'.pc \in {"abort", "idle"}
            => writes[Current] = 1
    BY <1>2, SuccessDone DEF WriteInv
  <2>13. caller'.pc = "abort" => caller.pc # "idle"
    BY <1>2, CallerKeeps DEF CallKept, caller
  <2>14. writes[Current] = 1 => writes'[Current] = 1
    BY <2>2, <2>3, <2>4
  <2>15. \A k \in Calls : result'[k] = "ok" => writes'[k] = 1
    <3>1. ASSUME NEW k \in Calls, result'[k] = "ok" PROVE writes[k] = 1
      <4>1. CASE result[k] = "ok"
        BY <4>1 DEF WriteInv
      <4>2. CASE result[k] # "ok"
        <5>1. k = Current /\ caller.pc # "idle" /\ caller'.pc = "idle" /\ caller'.success
          BY <2>1, <3>1, <4>2 DEF Types
        <5> QED
          BY <2>12, <5>1
      <4> QED
        BY <4>1, <4>2
    <3> QED
      BY <2>5, <3>1
  <2> QED
    BY <2>1, <2>5, <2>7, <2>8, <2>9, <2>10, <2>11, <2>12, <2>13, <2>14, <2>15 DEF WriteInv
<1> QED
  BY <1>1, <1>2, StepCases

LEMMA CallsNext ==
  ASSUME Types, CallsInv, [Next]_vars
  PROVE  CallsInv'
  BY StepCases, BeginCall, CallGoesOn

LEMMA TransferHolds == ASSUME Patient PROVE Spec => [](Types /\ Halves /\ TInv)
<1>1. Types /\ Halves /\ TInv /\ Types' /\ [Next]_vars => TInv'
  BY CallsNext, FramesNext, SessionNext, WriteNext DEF TInv
<1> QED
  BY <1>1, TransferInit, TypesHold, HalvesHold, PTL DEF Spec

----------------------------------------------------------------------------
(* The theorems                                                            *)

(* If the caller makes no call while anything is on the bus (Patient), the *)
(* handler of the other node is only ever given the payload of one call,   *)
(* whole, whatever is lost or comes twice: no block of an earlier call, or *)
(* of one that gave up, gets into it.                                      *)
THEOREM PayloadsAreWhole == ASSUME Patient PROVE Spec => []PayloadsWhole
<1>1. Types /\ Halves /\ TInv => PayloadsWhole
  <2>1. CallsInv => 1 .. Current \subseteq Calls
    BY DEF CallsInv
  <2> QED
    BY <2>1 DEF TInv, WriteInv, PayloadsWhole
<1> QED
  BY <1>1, TransferHolds, PTL

(* setBlock() returns true only when the other node has disposed of the    *)
(* payload of that very call, if callers wait for the bus to fall silent   *)
(* between calls.  TransferImpatient shows that the condition is needed.   *)
THEOREM SuccessIsWritten == ASSUME Patient PROVE Spec => []SuccessMeansWritten
<1>1. Types /\ Halves /\ TInv => SuccessMeansWritten
  BY DEF TInv, WriteInv, SuccessMeansWritten, writes
<1> QED
  BY <1>1, TransferHolds, PTL

(* A call that is yet to begin has not been written.                       *)
LEMMA UnusedUnwritten ==
  ASSUME Types, CallsInv, WriteInv, NEW k \in Calls, result[k] = "unused"
  PROVE  writes[k] = 0
<1>1. k \notin 1 .. Current /\ 1 .. Current \subseteq Calls
  BY DEF CallsInv
<1>2. \A j \in 1 .. Current : Payload(j) # Payload(k)
  BY <1>1, PayloadsDiffer DEF Types
<1>3. {i \in DOMAIN written : written[i] = Payload(k)} = {}
  BY <1>2 DEF WriteInv
<1> QED
  BY <1>3, FS_EmptySet DEF writes, Count

LEMMA StepOfBlockWrite ==
  ASSUME Patient, Types, Types', Halves, TInv, TInv', [Next]_vars
  PROVE  [Abstract!Next]_(Abstract!vars)
<1> USE DEF TInv
<1> DEFINE Same == result' = result /\ writes' = writes
<1>0. Same => [Abstract!Next]_(Abstract!vars)
  BY DEF Abstract!vars, writes
<1>1. ASSUME NEW k \in Calls, NEW n \in 1 .. MaxBlocks, Begin(k, n)
      PROVE  Abstract!Open(k)
  <2>1. /\ Current' = k /\ k = Current + 1 /\ result' = [result EXCEPT ![k] = "open"]
    BY <1>1, BeginCall
  <2>2. result[k] = "unused"
    BY <2>1, CurrentType DEF CallsInv
  <2>3. writes[k] = 0 /\ writes'[k] = 0 /\ \A j \in Calls \ {k} : writes'[j] = writes[j]
    BY <1>1, <2>2, UnusedUnwritten, BeginWrites
  <2>4. writes' = writes
    BY <2>3 DEF writes
  <2> QED
    BY <2>1, <2>2, <2>4 DEF Abstract!Open, writes
<1>2. ASSUME CallKept \/ InCall
      PROVE  [Abstract!Next]_(Abstract!vars)
  <2>1. /\ sizes' = sizes
        /\ result' = IF caller.pc # "idle" /\ caller'.pc = "idle"
                     THEN [result EXCEPT ![Current] =
                                IF caller'.success THEN "ok" ELSE "failed"]
                     ELSE result
    BY <1>2, CallGoesOn
  <2>2. Takes \/ TakesNothing
    BY Disposed
  <2>3. /\ TakesNothing => writes' = writes
        /\ Takes => /\ writes'[Current] = writes[Current] + 1
                    /\ \A j \in Calls \ {Current} : writes'[j] = writes[j]
    BY <2>1, <2>2, WritesAfter
  <2>4. CASE Takes
    <3>1. Current \in Calls /\ writes[Current] = 0 /\ result' = result
      BY <2>4 DEF Takes, SessionInv
    <3>2. Current \in 1 .. Current
      BY <3>1 DEF Calls
    <3>3. result[Current] # "unused"
      BY <3>1, <3>2 DEF CallsInv
    <3>4. writes' = [writes EXCEPT ![Current] = 1]
      <4>1. writes = [k \in Calls |-> writes[k]] /\ writes' = [k \in Calls |-> writes'[k]]
        BY DEF writes
      <4>2. writes'[Current] = 1 /\ \A j \in Calls \ {Current} : writes'[j] = writes[j]
        BY <2>3, <2>4, <3>1
      <4> QED
        BY <3>1, <4>1, <4>2
    <3>5. Abstract!Write(Current)
      BY <3>1, <3>3, <3>4 DEF Abstract!Write, writes
    <3> QED
      BY <3>1, <3>5 DEF Abstract!Next
  <2>5. CASE TakesNothing /\ result' # result
    <3>1. Current \in Calls /\ result[Current] = "open" /\ writes' = writes
      BY <2>1, <2>3, <2>5 DEF CallsInv
    <3>2. caller.pc # "idle" /\ caller'.pc = "idle"
      BY <2>1, <2>5
    <3>3. CASE caller'.success
      <4>1. writes[Current] = 1
        BY <1>2, <3>2, <3>3, SuccessDone DEF TInv, WriteInv
      <4>2. Abstract!Succeed(Current)
        BY <2>1, <3>1, <3>2, <3>3, <4>1 DEF Abstract!Succeed, writes
      <4> QED
        BY <3>1, <4>2 DEF Abstract!Next
    <3>4. CASE ~caller'.success
      <4>1. Abstract!Fail(Current)
        BY <2>1, <3>1, <3>2, <3>4 DEF Abstract!Fail, writes
      <4> QED
        BY <3>1, <4>1 DEF Abstract!Next
    <3> QED
      BY <3>3, <3>4
  <2>6. CASE TakesNothing /\ result' = result
    BY <1>0, <2>3, <2>6
  <2> QED
    BY <2>2, <2>4, <2>5, <2>6
<1> QED
  BY <1>1, <1>2, StepCases DEF Abstract!Next

(* For a caller that makes no call while anything is on the bus or the     *)
(* other node busy, the two halves and the bus do step for step what       *)
(* BlockWrite allows: a payload is written at most once, and only a written*)
(* one lets its call succeed.  Nothing in the code holds a caller back, and*)
(* without the condition the statement is false (TransferImpatient).  (That*)
(* every call returns is left to the runs.)                                *)
THEOREM PatientImplementsBlockWrite ==
  ASSUME Patient PROVE Spec => Abstract!Init /\ [][Abstract!Next]_(Abstract!vars)
<1>1. Init => Abstract!Init
  <2> SUFFICES ASSUME Init PROVE Abstract!Init
    OBVIOUS
  <2>1. Types /\ TInv
    BY TypesInit, TransferInit
  <2>2. result = [k \in Calls |-> "unused"]
    BY DEF Init
  <2>3. \A k \in Calls : writes[k] = 0
    BY <2>1, <2>2, UnusedUnwritten DEF TInv
  <2> QED
    BY <2>2, <2>3 DEF Abstract!Init, writes
<1>2. Types /\ Halves /\ TInv /\ (Types /\ Halves /\ TInv)' /\ [Next]_vars
         => [Abstract!Next]_(Abstract!vars)
  BY StepOfBlockWrite
<1> QED
  BY <1>1, <1>2, TransferHolds, PTL DEF Spec

----------------------------------------------------------------------------
(* A bus that loses nothing                                                *)

LEMMA FaultlessBefore ==
  ASSUME Types, [Next]_vars, Faultless'
  PROVE  Faultless /\ ~BusLoses
<1>1. lost \in Nat
  BY TransferAssumption DEF Types
<1>2. ~BusLoses
  BY <1>1 DEF BusLoses, Faultless
<1>3. lost = 0
  <2>1. CASE UNCHANGED lost
    BY <2>1 DEF Faultless
  <2>2. CASE CallerSends
    BY <1>1, <2>2 DEF CallerSends, Send, Faultless
  <2> QED
    BY <1>2, <2>1, <2>2
    DEF Next, Caller, Node, Register, Begin, CallerThinks, CallerTimesOut, AppReceives,
       NodeReceives, NodeThinks, NodeReplies, Rest, vars, busVars
<1>4. excused => excused'
  <2>1. CASE UNCHANGED excused
    BY <2>1
  <2>2. CASE CallerTimesOut \/ NodeThinks
    BY <2>2 DEF CallerTimesOut, NodeThinks
  <2> QED
    BY <1>2, <2>1, <2>2
    DEF Next, Caller, Node, Register, Begin, CallerSends, CallerThinks, AppReceives,
       NodeReceives, NodeReplies, Rest, vars, busVars
<1> QED
  BY <1>2, <1>3, <1>4 DEF Faultless

(* The frame that a step puts on its way to the node.                      *)
Sends(type) == \E f \in Requests : f.type = type /\ ToNode' = ToNode \cup {f}

(* The steps of a call in which nothing goes wrong.                        *)
GoodStep ==
    \/ /\ caller.pc = "request" /\ caller'.pc = "awaitAck"
       /\ Sends("request") /\ pending' = pending
    \/ /\ caller.pc = "awaitAck" /\ caller'.pc = "transfer"
       /\ caller'.next = 0 /\ ToNode' = ToNode /\ pending' = pending
    \/ /\ caller.pc = "transfer" /\ pending' = pending
       /\ \E f \in Requests : /\ f.type = "transfer" /\ f.low6 = caller.next
                              /\ ToNode' = ToNode \cup {f}
       /\ IF caller.next + 1 = sizes[Current]
          THEN caller'.pc = "arm"
          ELSE caller'.pc = "transfer" /\ caller'.next = caller.next + 1
    \/ /\ caller.pc = "arm" /\ caller'.pc = "status" /\ ToNode' = ToNode
       /\ ~pending'.done /\ ~pending'.reportReceived /\ ~pending'.ok
    \/ /\ caller.pc = "status" /\ caller'.pc = "awaitReport"
       /\ Sends("status") /\ pending' = pending
    \/ /\ caller.pc = "awaitReport" /\ caller'.pc = "abort" /\ caller'.success
       /\ ToNode' = ToNode /\ ~pending'.done /\ ~pending'.reportReceived /\ ~pending'.ok
    \/ /\ caller.pc = "abort" /\ caller'.pc = "idle" /\ caller'.success
       /\ Sends("abort") /\ pending' = pending

LEMMA CallerSendsGood ==
  ASSUME Types, Halves, CallsInv, FramesInv, OutcomeGood, CallerSends, Faultless'
  PROVE  GoodStep
<1>1. /\ call \in [{"app"} -> IniP!CallRecord] /\ pending \in IniP!PendingRecord
      /\ caller.numBlocks = sizes[Current]
  BY CallerKeeps DEF Types, IniP!TInv, IniP!TypeOK, CallsInv, InCall
<1>2. PICK f \in Requests, sent \in BOOLEAN :
            /\ ToNode' = (IF sent THEN ToNode \cup {f} ELSE ToNode)
            /\ ~sent => lost' # 0
            /\ \/ /\ Ini!SendRequest("app", sent)
                  /\ f.type = "request"
               \/ /\ Ini!SendTransfer("app", sent)
                  /\ f.type = "transfer" /\ f.low6 = caller.next
               \/ Ini!SendStatusRequest("app", sent) /\ f.type = "status"
               \/ Ini!SendAbort("app") /\ f.type = "abort"
  BY CallerSendsWhat
<1>3. sent /\ ToNode' = ToNode \cup {f}
  BY <1>2 DEF Faultless
<1>4. CASE Ini!SendRequest("app", sent) /\ f.type = "request"
  <2>1. caller.pc = "request" /\ caller'.pc = "awaitAck" /\ pending' = pending
    BY <1>1, <1>3, <1>4 DEF Ini!SendRequest, Ini!Goto, caller, IniP!CallRecord
  <2> QED
    BY <1>3, <1>4, <2>1 DEF GoodStep, Sends
<1>5. CASE Ini!SendTransfer("app", sent) /\ f.type = "transfer" /\ f.low6 = caller.next
  <2>1. /\ caller.pc = "transfer" /\ pending' = pending
        /\ caller'.next = caller.next + 1
        /\ caller'.pc = IF caller.next + 1 = sizes[Current] THEN "arm" ELSE "transfer"
    BY <1>1, <1>3, <1>5 DEF Ini!SendTransfer, caller, IniP!CallRecord
  <2> QED
    BY <1>3, <1>5, <2>1 DEF GoodStep
<1>6. CASE Ini!SendStatusRequest("app", sent) /\ f.type = "status"
  <2>1. caller.pc = "status" /\ caller'.pc = "awaitReport" /\ pending' = pending
    BY <1>1, <1>3, <1>6 DEF Ini!SendStatusRequest, Ini!Goto, caller, IniP!CallRecord
  <2> QED
    BY <1>3, <1>6, <2>1 DEF GoodStep, Sends
<1>7. CASE Ini!SendAbort("app") /\ f.type = "abort"
  <2>1. /\ caller.pc = "abort" /\ caller'.pc = "idle" /\ pending' = pending
        /\ caller'.success = caller.success
    BY <1>1, <1>7 DEF Ini!SendAbort, Ini!Goto, caller, IniP!CallRecord
  <2> QED
    BY <1>3, <1>7, <2>1 DEF GoodStep, Sends, OutcomeGood
<1> QED
  BY <1>2, <1>4, <1>5, <1>6, <1>7

LEMMA CallerThinksGood ==
  ASSUME Types, Halves, CallsInv, FramesInv, WaitsGood, OutcomeGood,
         CallerThinks \/ CallerTimesOut, Faultless'
  PROVE  GoodStep
<1>1. /\ call \in [{"app"} -> IniP!CallRecord] /\ pending \in IniP!PendingRecord
      /\ caller.numBlocks = sizes[Current] /\ toNode' = toNode
      /\ caller.pc = "awaitAck" => caller.next = 0
  <2>1. caller.pc # "idle"
    BY CallerKeeps DEF InCall
  <2> QED
    BY <2>1 DEF Types, IniP!TInv, IniP!TypeOK, IniP!LoopBound, CallsInv, caller,
       CallerThinks, CallerTimesOut
<1>2. ToNode' = ToNode
  BY <1>1 DEF ToNode
<1>3. /\ pending.reportReceived => caller.pc \in {"status", "awaitReport"}
      /\ pending.done => pending.reportReceived
  BY DEF Halves, IniP!IInv, IniP!Unowned, IniP!NoPending, IniP!InCall, IniP!CallInv,
     IniP!PhaseFlags, IniP!Reporting, caller, OutcomeGood
<1>4. CASE Ini!WakeOnAck("app")
  <2>1. caller.pc = "awaitAck" /\ ~pending.done /\ pending.requestAcked
    BY <1>3, <1>4 DEF Ini!WakeOnAck, Ini!AckArrived, caller
  <2>2. caller'.pc = "transfer" /\ caller'.next = caller.next /\ pending' = pending
    BY <1>1, <1>4, <2>1 DEF Ini!WakeOnAck, Ini!Goto, caller, IniP!CallRecord
  <2> QED
    BY <1>1, <1>2, <2>1, <2>2 DEF GoodStep
<1>5. CASE Ini!Arm("app")
  <2>1. caller.pc = "arm" /\ caller'.pc = "status"
    BY <1>1, <1>5 DEF Ini!Arm, Ini!Goto, caller, IniP!CallRecord
  <2>2. ~pending'.done /\ ~pending'.reportReceived /\ ~pending'.ok
    BY <1>1, <1>5 DEF Ini!Arm, IniP!PendingRecord
  <2> QED
    BY <1>2, <2>1, <2>2 DEF GoodStep
<1>6. CASE Ini!WakeOnReport("app")
  <2>1. /\ caller.pc = "awaitReport" /\ pending.reportReceived /\ pending.ok /\ pending.done
        /\ Expected \subseteq pending.bitmap
    BY <1>3, <1>6 DEF Ini!WakeOnReport, Ini!ReportArrived, OutcomeGood, caller
  <2>2. Ini!Blocks("app") = Expected
    BY <1>1 DEF Ini!Blocks, Expected, caller
  <2>3. /\ call' = [call EXCEPT !["app"].pc = "abort", !["app"].success = TRUE]
        /\ pending' = Ini!NoPending
    BY <1>6, <2>1, <2>2 DEF Ini!WakeOnReport
  <2>4. caller'.pc = "abort" /\ caller'.success
    BY <1>1, <2>3 DEF caller, IniP!CallRecord
  <2>5. ~pending'.done /\ ~pending'.reportReceived /\ ~pending'.ok
    BY <2>3 DEF Ini!NoPending
  <2> QED
    BY <1>2, <2>1, <2>4, <2>5 DEF GoodStep
<1>7. CASE CallerTimesOut
  <2>1. Silent
    BY <1>7 DEF CallerTimesOut, Faultless
  <2>2. ToNode = {} /\ ToApp = {} /\ thread.pc = "idle"
    BY <2>1, QuietIsSilent DEF Quiet
  <2>3. ~Ini!AckTimeout("app")
    BY <2>2 DEF WaitsGood, Quiet, Ini!AckTimeout, Ini!AckArrived, caller
  <2>4. ~Ini!ReportTimeout("app")
    BY <2>2 DEF WaitsGood, Sent, Working, Ini!ReportTimeout, Ini!ReportArrived, caller
  <2> QED
    BY <1>7, <2>3, <2>4 DEF CallerTimesOut
<1> QED
  BY <1>4, <1>5, <1>6, <1>7 DEF CallerThinks

(* Where nothing has been sent anew and nothing was taken back, what came  *)
(* is still there.                                                         *)
LEMMA CallGood ==
  ASSUME Types, Halves, CallsInv, FramesInv, AllGood, InCall, GoodStep
  PROVE  AllGood'
<1>1. /\ Current' = Current /\ sizes' = sizes
      /\ result' = IF caller'.pc = "idle"
                   THEN [result EXCEPT ![Current] =
                              IF caller'.success THEN "ok" ELSE "failed"]
                   ELSE result
  BY CallGoesOn, CallerKeeps
<1>2. /\ UNCHANGED <<rx, sessions, toApp>>
  BY DEF InCall, CallerSends, CallerThinks, CallerTimesOut, resVars
<1>3. /\ thread' = thread /\ session' = session /\ ToApp' = ToApp /\ Expected' = Expected
  BY <1>1, <1>2 DEF thread, session, ToApp, Expected
<1>4. AnswersGood'
  BY <1>3 DEF AllGood, AnswersGood, Good, Working, Whole
<1>5. ToNode \subseteq ToNode'
  BY DEF GoodStep, Sends
<1>6. caller.next \in Nat /\ sizes[Current] \in Nat /\ Expected = 0 .. sizes[Current] - 1
  <2>1. Current \in Calls
    BY CallerKeeps DEF CallsInv
  <2> QED
    BY <2>1, TransferAssumption
    DEF Types, IniP!TInv, IniP!TypeOK, IniP!CallRecord, caller, Expected
<1>7. caller.pc = "request" => ToNode = {} /\ ToApp = {} /\ thread.pc = "idle"
  BY DEF FramesInv, Quiet
<1>8. SendsGood'
  <2>1. Opened'
    <3>1. CASE caller.pc = "request"
      BY <3>1 DEF GoodStep, Sends, Opened, Sent
    <3>2. CASE caller.pc # "request"
      <4>1. Opened
        BY <3>2, CallerKeeps DEF AllGood, SendsGood
      <4> QED
        BY <1>3, <1>5, <4>1 DEF Opened, Sent
    <3> QED
      BY <3>1, <3>2
  <2>2. ASSUME caller.pc # "request", NEW i, Came(i) PROVE Came(i)'
    <3>1. Sent("request")' => Sent("request")
      BY <2>2 DEF GoodStep, Sends, Sent
    <3> QED
      BY <1>3, <1>5, <2>2, <3>1 DEF Came, InFlight
  <2>3. ASSUME caller'.pc = "transfer", NEW i \in Expected, i < caller'.next
        PROVE  Came(i)'
    <3>1. CASE caller.pc = "awaitAck"
      BY <1>6, <2>3, <3>1 DEF GoodStep
    <3>2. CASE caller.pc = "transfer" /\ i < caller.next
      BY <2>2, <3>2 DEF AllGood, SendsGood
    <3>3. CASE caller.pc = "transfer" /\ ~(i < caller.next)
      <4>1. i = caller.next
        BY <1>6, <2>3, <3>3 DEF GoodStep
      <4> QED
        BY <3>3, <4>1 DEF GoodStep, Came, InFlight
    <3> QED
      BY <2>3, <3>1, <3>2, <3>3 DEF GoodStep
  <2>4. ASSUME caller'.pc \in {"arm", "status"} \/ Sent("status")', NEW i \in Expected
        PROVE  Came(i)'
    <3>1. CASE caller.pc = "transfer" /\ caller'.pc = "arm"
      <4>1. caller.next + 1 = sizes[Current]
        BY <3>1 DEF GoodStep
      <4>2. i < caller.next \/ i = caller.next
        BY <1>6, <4>1
      <4>3. i = caller.next => Came(i)'
        BY <3>1 DEF GoodStep, Came, InFlight
      <4> QED
        BY <2>2, <3>1, <4>2, <4>3 DEF AllGood, SendsGood
    <3>2. CASE caller.pc \in {"arm", "status"} \/ Sent("status")
      <4>1. caller.pc # "request"
        BY <1>7, <3>2 DEF Sent
      <4> QED
        BY <2>2, <3>2, <4>1 DEF AllGood, SendsGood
    <3> QED
      BY <1>7, <2>4, <3>1, <3>2 DEF GoodStep, Sends, Sent
  <2> QED
    BY <1>3, <2>1, <2>3, <2>4 DEF SendsGood
<1>9. WaitsGood'
  <2>1. ASSUME caller'.pc = "awaitAck"
        PROVE  thread'.pc = "idle" /\ ToApp' = {} /\ ToNode' # {}
    BY <1>3, <1>7, <2>1 DEF GoodStep, Sends
  <2>2. caller'.pc = "awaitReport" => Sent("status")'
    BY DEF GoodStep, Sends, Sent
  <2> QED
    BY <2>1, <2>2 DEF WaitsGood, Quiet
<1>10. OutcomeGood'
  <2>1. \A k \in Calls : result'[k] # "failed"
    BY <1>1 DEF AllGood, OutcomeGood, GoodStep, Types
  <2>2. caller'.pc = "abort" => caller'.success
    BY DEF GoodStep
  <2>3. CASE pending' = pending
    BY <1>3, <2>1, <2>2, <2>3 DEF AllGood, OutcomeGood
  <2>4. CASE ~pending'.done /\ ~pending'.reportReceived /\ ~pending'.ok
    BY <2>1, <2>2, <2>4 DEF OutcomeGood
  <2> QED
    BY <2>3, <2>4 DEF GoodStep
<1> QED
  BY <1>4, <1>8, <1>9, <1>10 DEF AllGood

LEMMA BeginGood ==
  ASSUME Patient, Types, Halves, CallsInv, AllGood,
         NEW k \in Calls, NEW n \in 1 .. MaxBlocks, Begin(k, n)
  PROVE  AllGood'
<1>1. Quiet /\ UNCHANGED <<toNode, toApp, rx>>
  BY QuietIsSilent DEF Begin, resVars
<1>2. ToNode' = {} /\ ToApp' = {} /\ thread'.pc = "idle"
  BY <1>1 DEF Quiet, ToNode, ToApp, thread
<1>3. caller'.pc = "request" /\ result' = [result EXCEPT ![k] = "open"]
  BY BeginCall
<1>4. ~pending'.done /\ ~pending'.reportReceived /\ ~pending'.ok
  BY DEF Begin, Ini!Begin, Ini!NoPending
<1> QED
  BY <1>2, <1>3, <1>4
  DEF AllGood, AnswersGood, SendsGood, WaitsGood, OutcomeGood, Working, Sent, Types

LEMMA AppReceivesGood ==
  ASSUME Types, Halves, CallsInv, AllGood, AppReceives
  PROVE  AllGood'
<1> DEFINE f == Head(toApp)
<1>1. /\ toApp # <<>> /\ toApp' \in {toApp, Tail(toApp)}
      /\ UNCHANGED <<rx, sessions, toNode, call, sizes, result>>
  BY DEF AppReceives, Receive, resVars, Ini!OnAck, Ini!OnNack, Ini!OnReport
<1>2. /\ thread' = thread /\ session' = session /\ ToNode' = ToNode /\ Expected' = Expected
      /\ caller' = caller
  BY <1>1 DEF thread, session, ToNode, Expected, Current, caller
<1>3. ToApp = {f} \cup ToApp' /\ Good(f)
  <2>1. ToApp = {f} \cup ToApp'
    BY <1>1, AppTakes
  <2> QED
    BY <2>1 DEF AllGood, AnswersGood
<1>4. AnswersGood'
  BY <1>2, <1>3 DEF AllGood, AnswersGood, Good, Working, Whole
<1>5. SendsGood'
  BY <1>2 DEF AllGood, SendsGood, Opened, Came, InFlight, Sent
<1>6. /\ pending \in IniP!PendingRecord
      /\ caller.pc \in {"awaitAck", "awaitReport"}
            => pending.active /\ pending.peer = "node"
      /\ caller.pc = "awaitAck" => pending.waitingRequestAck \/ pending.requestAcked
      /\ caller.pc = "awaitReport" => pending.waitingReport
  BY DEF Types, IniP!TInv, IniP!TypeOK, Halves, IniP!IInv, IniP!CallInv, IniP!Ownership,
     IniP!InCall, IniP!PhaseFlags, IniP!Requesting, IniP!Reporting, CallsInv, caller
<1>7. CASE f.type = "ack" /\ Ini!OnAck("node")
  <2>1. /\ caller.pc = "awaitAck" => pending'.requestAcked
        /\ pending'.done = pending.done /\ pending'.reportReceived = pending.reportReceived
        /\ pending'.ok = pending.ok /\ pending'.bitmap = pending.bitmap
    BY <1>6, <1>7 DEF Ini!OnAck, IniP!PendingRecord
  <2>2. WaitsGood'
    BY <1>2, <1>3, <1>7, <2>1 DEF AllGood, WaitsGood, Sent, Working
  <2>3. OutcomeGood'
    BY <1>1, <1>2, <2>1 DEF AllGood, OutcomeGood
  <2> QED
    BY <1>4, <1>5, <2>2, <2>3 DEF AllGood
<1>8. CASE f.type = "report" /\ Ini!OnReport("node", f.done, f.bitmap)
  <2>1. f.done /\ Expected \subseteq f.bitmap
    BY <1>3, <1>8 DEF Good
  <2>2. CASE pending.active /\ pending.peer = "node" /\ pending.waitingReport
    <3>1. /\ pending'.done = f.done /\ pending'.ok /\ pending'.reportReceived
          /\ pending'.bitmap = f.bitmap
      BY <1>6, <1>8, <2>2 DEF Ini!OnReport, IniP!PendingRecord
    <3>2. caller.pc # "awaitAck"
      BY <1>3, <1>8 DEF AllGood, WaitsGood
    <3>3. WaitsGood'
      BY <1>2, <3>1, <3>2 DEF WaitsGood
    <3>4. OutcomeGood'
      BY <1>1, <1>2, <2>1, <3>1 DEF AllGood, OutcomeGood
    <3> QED
      BY <1>4, <1>5, <3>3, <3>4 DEF AllGood
  <2>3. CASE ~(pending.active /\ pending.peer = "node" /\ pending.waitingReport)
    <3>1. pending' = pending
      BY <1>8, <2>3 DEF Ini!OnReport
    <3>2. caller.pc \notin {"awaitAck", "awaitReport"}
      BY <1>3, <1>6, <1>8, <2>3 DEF AllGood, WaitsGood
    <3>3. WaitsGood'
      BY <1>2, <3>2 DEF WaitsGood
    <3>4. OutcomeGood'
      BY <1>1, <1>2, <3>1 DEF AllGood, OutcomeGood
    <3> QED
      BY <1>4, <1>5, <3>3, <3>4 DEF AllGood
  <2> QED
    BY <2>2, <2>3
<1>9. f.type # "nack"
  BY <1>3 DEF Good
<1> QED
  BY <1>7, <1>8, <1>9 DEF AppReceives

LEMMA NodeRepliesGood ==
  ASSUME Types, AllGood, NodeReplies
  PROVE  AllGood'
<1>1. /\ UNCHANGED <<sessions, toNode, pending, call, sizes, result>>
      /\ toApp' = Append(toApp, thread.out) /\ thread.pc = "reply" /\ thread'.pc = "idle"
  BY ServerTypes DEF NodeReplies, Res!Reply, Res!Resting, iniVars, thread
<1>2. /\ session' = session /\ ToNode' = ToNode /\ Expected' = Expected /\ caller' = caller
  BY <1>1 DEF session, ToNode, Expected, Current, caller
<1>3. ToApp' = ToApp \cup {thread.out}
  <2>1. thread.out \in Answers
    BY DEF thread, Types, ResP!ServeTypeOK, ResP!Thread, ResP!BlockIndex, Answers
  <2>2. Carried(Append(toApp, thread.out)) = Carried(toApp) \cup {thread.out}
    BY <2>1, LastJoins DEF Types
  <2> QED
    BY <1>1, <2>2 DEF ToApp
<1>4. AnswersGood'
  BY <1>1, <1>2, <1>3 DEF AllGood, AnswersGood, Good, Working
<1>5. SendsGood'
  BY <1>2 DEF AllGood, SendsGood, Opened, Came, InFlight, Sent
<1>6. WaitsGood'
  BY <1>1, <1>2, <1>3 DEF AllGood, WaitsGood, Sent, Working, Quiet
<1>7. OutcomeGood'
  BY <1>1, <1>2 DEF AllGood, OutcomeGood
<1> QED
  BY <1>4, <1>5, <1>6, <1>7 DEF AllGood

LEMMA NodeThinksGood ==
  ASSUME Types, Halves, CallsInv, FramesInv, SessionInv, AllGood, NodeThinks, Faultless'
  PROVE  AllGood'
<1>1. UNCHANGED <<toNode, toApp, pending, call, sizes, result>> /\ Working
  BY DEF NodeThinks, iniVars, Working, Res!RunHandler, Res!RecordDone, Res!BuildReport,
     thread
<1>2. /\ ToNode' = ToNode /\ ToApp' = ToApp /\ Expected' = Expected /\ caller' = caller
  BY <1>1 DEF ToNode, ToApp, Expected, Current, caller
<1>3. /\ session'.accepted = session.accepted /\ session'.blocks = session.blocks
      /\ session'.numBlocks = session.numBlocks
      /\ \/ Working' /\ (thread'.pc = "record" => thread'.done)
                     /\ (thread'.pc = "report" => session'.done)
         \/ thread'.pc = "reply" /\ Good(thread'.out) /\ thread'.out.type = "report"
  <2>1. ASSUME NEW answer \in HandlerResults, Res!RunHandler("rx", answer),
               excused' = (excused \/ ~answer)
        PROVE  sessions' = sessions /\ thread'.pc = "record" /\ thread'.done
    <3>1. answer
      BY <2>1 DEF Faultless
    <3> QED
      BY <2>1, <3>1, HandlerRuns, TransferAssumption
  <2>2. CASE Res!RecordDone("rx")
    BY <2>2, RecordKept DEF AllGood, AnswersGood, Working
  <2>3. CASE Res!BuildReport("rx")
    <3>1. /\ thread.pc = "report" /\ thread'.pc = "reply" /\ sessions' = sessions
          /\ thread'.out = Res!Report(session.done, Res!Received(session))
      BY <2>3, ReportTells
    <3>2. session.done /\ Whole
      BY <3>1 DEF AllGood, AnswersGood, Working
    <3>3. session.numBlocks = sizes[Current]
      BY <3>1 DEF SessionInv, Answered
    <3>4. Res!Received(session) = Expected
      BY <3>2, <3>3 DEF Res!Received, Whole, Expected
    <3> QED
      BY <3>1, <3>2, <3>4 DEF Res!Report, Good, session
  <2> QED
    BY <2>1, <2>2, <2>3 DEF NodeThinks, Working, session
<1>4. AnswersGood'
  <2>1. Whole'
    BY <1>1, <1>3 DEF AllGood, AnswersGood, Whole
  <2>2. thread'.pc = "reply" => ~Working'
    BY DEF Working
  <2> QED
    BY <1>2, <1>3, <2>1, <2>2 DEF AllGood, AnswersGood, Good, Working
<1>5. SendsGood'
  BY <1>2, <1>3 DEF AllGood, SendsGood, Opened, Came, InFlight, Sent
<1>6. WaitsGood'
  BY <1>1, <1>2, <1>3 DEF AllGood, WaitsGood, Working
<1>7. OutcomeGood'
  BY <1>1, <1>2 DEF AllGood, OutcomeGood
<1> QED
  BY <1>4, <1>5, <1>6, <1>7 DEF AllGood

(* A step that takes a frame and answers it with an acknowledgement keeps  *)
(* what the caller waits for in sight, unless the frame was a status       *)
(* request.                                                                *)
LEMMA AckedGood ==
  ASSUME Types, AllGood, UNCHANGED <<toApp, pending, call, sizes, result>>,
         thread.pc = "idle", thread'.pc = "reply", thread'.out.type = "ack",
         NEW f, ToNode = {f} \cup ToNode', f.type # "status"
  PROVE  AnswersGood' /\ WaitsGood' /\ OutcomeGood'
<1>1. /\ ToApp' = ToApp /\ Expected' = Expected /\ caller' = caller
  BY DEF ToApp, Expected, Current, caller
<1>2. AnswersGood'
  BY <1>1 DEF AllGood, AnswersGood, Good, Working
<1>3. WaitsGood'
  BY <1>1 DEF AllGood, WaitsGood, Sent, Working, Quiet
<1>4. OutcomeGood'
  BY <1>1 DEF AllGood, OutcomeGood
<1> QED
  BY <1>2, <1>3, <1>4

LEMMA NodeReceivesGood ==
  ASSUME Types, Halves, CallsInv, FramesInv, SessionInv, AllGood, NodeReceives
  PROVE  AllGood'
<1> DEFINE f == Head(toNode)
<1>1. /\ toNode # <<>> /\ toNode' \in {toNode, Tail(toNode)}
      /\ UNCHANGED <<toApp, pending, call, sizes, result>>
  BY DEF NodeReceives, Receive, iniVars
<1>2. /\ f \in Requests /\ ToNode = {f} \cup ToNode'
      /\ \A g \in ToNode : Rank(f.type) <= Rank(g.type)
  BY <1>1, NodeTakes DEF FramesInv
<1>3. /\ ToApp' = ToApp /\ Expected' = Expected /\ caller' = caller /\ Current' = Current
      /\ Current \in Calls /\ sizes[Current] \in 1 .. MaxBlocks
  <2>1. Current \in Calls
    BY <1>2 DEF FramesInv, Quiet
  <2> QED
    BY <1>1, <2>1 DEF ToApp, Expected, Current, caller, Types
<1>4. CASE f.type = "request"
  <2>1. OpensSession
    BY <1>4, RequestOpensSession
  <2>2. thread.pc = "idle" /\ thread'.pc = "reply" /\ thread'.out.type = "ack"
    <3>1. Res!OnRequest("rx", "app", f.low6, TRUE) /\ f.low6 \in 0 .. MaxBlocks - 1
      BY <1>2, <1>4 DEF NodeReceives, Requests
    <3> QED
      BY <3>1, RequestOpens
  <2>3. AnswersGood' /\ WaitsGood' /\ OutcomeGood'
    BY <1>1, <1>2, <1>4, <2>2, AckedGood
  <2>4. SendsGood'
    <3>1. \A i \in Expected : Came(i) => Came(i)'
      BY <1>2, <1>4, <2>1 DEF OpensSession, Came, InFlight
    <3>2. Opened'
      BY <2>1 DEF OpensSession, Opened
    <3> QED
      BY <1>2, <1>3, <3>1, <3>2 DEF AllGood, SendsGood, Sent
  <2> QED
    BY <2>3, <2>4 DEF AllGood
<1>5. CASE f.type = "transfer" /\ Res!OnTransfer("rx", "app", f.low6, f.data)
  <2>1. ~Sent("request")
    BY <1>2, <1>5 DEF Sent, Rank
  <2>2. session.accepted
    BY <1>2, <1>5, <2>1 DEF AllGood, SendsGood, Opened, Sent
  <2>3. /\ f.low6 < session.numBlocks /\ f.low6 \in 0 .. MaxBlocks - 1 /\ f.data = Current
        /\ session.numBlocks = sizes[Current]
    BY <1>2, <1>5, <2>2 DEF SessionInv, Answered, FramesInv, Requests
  <2>4. /\ thread.pc = "idle" /\ thread'.pc = "reply" /\ thread'.out.type = "ack"
        /\ session' = [session EXCEPT !.blocks[f.low6] = Current]
    BY <1>3, <1>5, <2>2, <2>3, TransferStores
  <2>5. AnswersGood' /\ WaitsGood' /\ OutcomeGood'
    BY <1>1, <1>2, <1>5, <2>4, AckedGood
  <2>6. session'.accepted /\ Current # 0
        /\ \A i \in 0 .. MaxBlocks - 1 : session'.blocks[i] =
                 IF i = f.low6 THEN Current ELSE session.blocks[i]
    <3>1. Current # 0
      BY <1>3 DEF Calls
    <3>2. /\ session.blocks \in [0 .. MaxBlocks - 1 -> Calls \cup {0}]
          /\ session \in ResP!Session
      BY ServerTypes DEF ResP!Session, ResP!BlockIndex
    <3>3. session'.blocks = [session.blocks EXCEPT ![f.low6] = Current]
          /\ session'.accepted = session.accepted
      BY <2>4, <3>2 DEF ResP!Session
    <3> QED
      BY <2>2, <2>3, <3>1, <3>2, <3>3
  <2>7. ASSUME NEW i \in Expected, Came(i) PROVE Came(i)'
    <3>1. i \in 0 .. MaxBlocks - 1
      BY <1>3, TransferAssumption DEF Expected
    <3>2. ~Sent("request")'
      BY <1>2, <2>1 DEF Sent
    <3>3. CASE i = f.low6
      BY <2>6, <3>1, <3>2, <3>3 DEF Came
    <3>4. CASE i # f.low6
      BY <1>2, <2>6, <2>7, <3>1, <3>2, <3>4 DEF Came, InFlight
    <3> QED
      BY <3>3, <3>4
  <2>8. SendsGood'
    BY <1>2, <1>3, <2>6, <2>7 DEF AllGood, SendsGood, Opened, Sent
  <2> QED
    BY <2>5, <2>8 DEF AllGood
<1>6. CASE f.type = "status" /\ Res!OnStatusRequest("rx", "app")
  <2>1. ~Sent("request") /\ ~Sent("transfer") /\ Sent("status")
    BY <1>2, <1>6 DEF Sent, Rank
  <2>2. session.accepted
    BY <2>1 DEF AllGood, SendsGood, Opened
  <2>3. Whole
    <3>1. session.numBlocks = sizes[Current]
      BY <1>2, <1>6, <2>2 DEF SessionInv, Answered
    <3>2. \A i \in Expected : session.blocks[i] # 0
      BY <2>1 DEF AllGood, SendsGood, Came, InFlight, Sent
    <3> QED
      BY <3>1, <3>2 DEF Whole, Expected
  <2>4. /\ sessions' = sessions /\ Working'
        /\ thread'.pc = "record" => thread'.done
        /\ thread'.pc = "report" => session.done
    BY <1>6, <2>2, <2>3, StatusLooks DEF Working
  <2>5. session' = session
    BY <2>4 DEF session
  <2>6. AnswersGood'
    BY <1>3, <2>3, <2>4, <2>5 DEF AllGood, AnswersGood, Good, Working, Whole
  <2>7. SendsGood'
    <3>1. \A i \in Expected : Came(i) => Came(i)'
      BY <1>2, <1>6, <2>1, <2>5 DEF Came, InFlight, Sent
    <3> QED
      BY <1>2, <1>3, <2>2, <2>5, <3>1 DEF AllGood, SendsGood, Opened, Sent
  <2>8. WaitsGood'
    <3>1. caller.pc # "awaitAck"
      BY <1>2, <1>6 DEF FramesInv, Rank, Below
    <3> QED
      BY <1>3, <2>4, <3>1 DEF WaitsGood
  <2>9. OutcomeGood'
    BY <1>1, <1>3 DEF AllGood, OutcomeGood
  <2> QED
    BY <2>6, <2>7, <2>8, <2>9 DEF AllGood
<1>7. CASE f.type = "abort" /\ Res!OnAbort("rx", "app")
  <2>1. thread.pc = "idle" /\ thread'.pc = "reply" /\ thread'.out.type = "ack"
    BY <1>7, AbortCloses
  <2>2. AnswersGood' /\ WaitsGood' /\ OutcomeGood'
    BY <1>1, <1>2, <1>7, <2>1, AckedGood
  <2>3. ~Sent("transfer") /\ ~Sent("status")
    BY <1>2, <1>7 DEF Sent, Rank
  <2>4. caller.pc = "idle"
    <3>1. caller.pc \in IniP!PC
      BY DEF Types, IniP!TInv, IniP!TypeOK, IniP!CallRecord, caller
    <3>2. 3 < Below(caller.pc)
      BY <1>2, <1>7 DEF FramesInv, Rank
    <3> QED
      BY <3>1, <3>2 DEF IniP!PC, IniP!Sending, IniP!Waiting, Below
  <2>5. SendsGood'
    BY <1>2, <1>3, <2>3, <2>4 DEF SendsGood, Sent
  <2> QED
    BY <2>2, <2>5 DEF AllGood
<1> QED
  BY <1>4, <1>5, <1>6, <1>7 DEF NodeReceives

LEMMA GoodNext ==
  ASSUME Patient, Types, Halves, TInv, GoodInv, [Next]_vars
  PROVE  GoodInv'
<1> USE DEF TInv
<1> SUFFICES ASSUME Faultless' PROVE AllGood'
  BY DEF GoodInv
<1>1. Faultless /\ ~BusLoses /\ AllGood
  BY FaultlessBefore DEF GoodInv
<1>2. ASSUME NEW k \in Calls, NEW n \in 1 .. MaxBlocks, Begin(k, n)
      PROVE  AllGood'
  BY <1>1, <1>2, BeginGood
<1>3. CASE InCall
  <2>1. GoodStep
    BY <1>1, <1>3, CallerSendsGood, CallerThinksGood DEF InCall, AllGood
  <2> QED
    BY <1>1, <1>3, <2>1, CallGood
<1>4. CASE AppReceives \/ NodeReplies \/ NodeThinks \/ NodeReceives
  BY <1>1, <1>4, AppReceivesGood, NodeRepliesGood, NodeThinksGood, NodeReceivesGood
<1>5. CASE Register \/ UNCHANGED vars
  <2>1. UNCHANGED <<iniVars, sessions, rx, toNode, toApp, sizes, result>>
    BY <1>5 DEF Register, Res!SetHandler, vars, resVars
  <2>2. /\ thread' = thread /\ session' = session /\ ToNode' = ToNode /\ ToApp' = ToApp
        /\ Expected' = Expected /\ caller' = caller /\ pending' = pending
    BY <2>1 DEF thread, session, ToNode, ToApp, Expected, Current, caller, iniVars
  <2>3. AnswersGood' /\ SendsGood'
    BY <1>1, <2>2 DEF AllGood, AnswersGood, SendsGood, Good, Working, Whole, Opened, Came,
       InFlight, Sent
  <2>4. WaitsGood' /\ OutcomeGood'
    BY <1>1, <2>1, <2>2 DEF AllGood, WaitsGood, OutcomeGood, Working, Sent, Quiet
  <2> QED
    BY <2>3, <2>4 DEF AllGood
<1> QED
  BY <1>1, <1>2, <1>3, <1>4, <1>5 DEF Next, Caller, Node, InCall, Rest

(* setBlock() returns false only for a reason: a frame was lost, an answer *)
(* was still to come when the call gave up, or the handler refused.  What  *)
(* comes twice, or late from the call before, does not make a call fail,   *)
(* provided that the caller waits for the bus to fall silent before a call.*)
THEOREM FailuresHaveReason == ASSUME Patient PROVE Spec => []FailureHasReason
<1>1. Init => GoodInv
  <2> SUFFICES ASSUME Init PROVE AllGood
    BY DEF GoodInv
  <2>1. /\ ToNode = {} /\ ToApp = {} /\ thread.pc = "idle" /\ caller.pc = "idle"
        /\ ~pending.done /\ ~pending.reportReceived /\ ~pending.ok
        /\ result = [k \in Calls |-> "unused"]
    BY DEF Init, Ini!Init, Ini!NoCall, Ini!NoPending, Res!ServeInit, Res!Resting, caller,
       thread, ToNode, ToApp, Carried
  <2> QED
    BY <2>1 DEF AllGood, AnswersGood, SendsGood, WaitsGood, OutcomeGood, Working, Sent
<1>2. Types /\ Halves /\ TInv /\ GoodInv /\ [Next]_vars => GoodInv'
  BY GoodNext
<1>3. Types /\ GoodInv => FailureHasReason
  <2> SUFFICES ASSUME Types, GoodInv, NEW k \in Calls, result[k] = "failed"
               PROVE  lost > 0 \/ excused
    BY DEF FailureHasReason
  <2>1. lost \in Nat
    BY TransferAssumption DEF Types
  <2> QED
    BY <2>1 DEF GoodInv, Faultless, AllGood, OutcomeGood
<1> QED
  BY <1>1, <1>2, <1>3, TransferHolds, PTL DEF Spec

----------------------------------------------------------------------------
(* What is left when callers do not wait for the bus to fall silent        *)

(* A payload without holes leaves the session, or nothing does.            *)
LEMMA WithoutHoles ==
  ASSUME Types, Types', Dispose, taken'["app"] > taken["app"],
         \A i \in 0 .. session.numBlocks - 1 : thread'.blocks[i] # 0
  PROVE  \E p \in Payloads : written' = Append(written, p)
<1> DEFINE n == session.numBlocks
           p == [i \in 1 .. n |-> thread'.blocks[i - 1]]
<1>1. n \in 1 .. MaxBlocks
  BY ServerTypes DEF ResP!Session
<1>2. thread'.blocks \in [0 .. MaxBlocks - 1 -> Calls \cup {0}]
  BY DEF Types, ResP!ServeTypeOK, ResP!Thread, ResP!BlockIndex, thread
<1>3. \A i \in 1 .. n : i - 1 \in 0 .. MaxBlocks - 1 /\ i - 1 \in 0 .. n - 1
  BY <1>1, TransferAssumption
<1>4. p \in [1 .. n -> Calls]
  BY <1>2, <1>3
<1>5. written' = Append(written, p)
  BY DEF Dispose, session, thread
<1> QED
  BY <1>1, <1>4, <1>5 DEF Payloads

WritesOne     == taken["app"] = 0 /\ \E p \in Payloads : written' = Append(written, p)
WritesNothing == written' = written /\ (taken' = taken \/ taken'["app"] = 0)

LEMMA ServerWrites ==
  ASSUME Types, Types', Halves, Copied, [Next]_vars
  PROVE  Copied' /\ (WritesOne \/ WritesNothing)
<1>1. taken["app"] \in 0 .. 2
  BY ServerTypes
<1>2. taken' = taken \/ taken'["app"] = 0 => (Dispose => WritesNothing)
  BY <1>1 DEF Dispose, WritesNothing
<1>3. ASSUME Res!Taken("app"), Dispose,
             thread.pc = "handler" \/ (thread.pc = "idle" /\ ~session.done),
             \A i \in 0 .. session.numBlocks - 1 : thread'.blocks[i] # 0
      PROVE  WritesOne
  BY <1>3, OnceTaken, WithoutHoles DEF WritesOne
<1>4. CASE NodeReceives
  <2> DEFINE f == Head(toNode)
  <2>1. f \in Requests /\ Dispose
    BY <1>4, HeadLeaves DEF NodeReceives, Types
  <2>2. f.low6 \in 0 .. MaxBlocks - 1 /\ f.data \in Calls \cup {0}
    BY <2>1 DEF Requests
  <2>3. CASE Res!OnRequest("rx", "app", f.low6, TRUE)
    BY <1>2, <2>1, <2>2, <2>3, RequestOpens DEF Copied
  <2>4. CASE Res!OnTransfer("rx", "app", f.low6, f.data)
    BY <1>2, <2>1, <2>2, <2>4, TransferStores DEF Copied
  <2>5. CASE Res!OnAbort("rx", "app")
    BY <1>2, <2>1, <2>5, AbortCloses DEF Copied
  <2>6. CASE Res!OnStatusRequest("rx", "app")
    <3>1. session' = session
      BY <2>6, StatusLooks DEF session
    <3>2. Copied'
      BY <2>6, <3>1, StatusLooks DEF Copied, Whole
    <3>3. WritesOne \/ WritesNothing
      BY <1>2, <1>3, <2>1, <2>6, StatusLooks DEF Whole
    <3> QED
      BY <3>2, <3>3
  <2> QED
    BY <1>4, <2>3, <2>4, <2>5, <2>6 DEF NodeReceives
<1>5. CASE NodeThinks
  <2>1. Dispose
    BY <1>5 DEF NodeThinks
  <2>2. ASSUME NEW answer \in HandlerResults, Res!RunHandler("rx", answer)
        PROVE  Copied' /\ (WritesOne \/ WritesNothing)
    <3>1. /\ thread.pc = "handler" /\ thread'.pc = "record"
          /\ thread'.blocks = thread.blocks /\ (taken' = taken \/ Res!Taken("app"))
      BY <2>2, HandlerRuns, TransferAssumption
    <3> QED
      BY <1>2, <1>3, <2>1, <3>1 DEF Copied
  <2>3. CASE Res!RecordDone("rx") \/ Res!BuildReport("rx")
    BY <1>2, <2>1, <2>3, RecordKept, ReportTells DEF Copied
  <2> QED
    BY <1>5, <2>2, <2>3 DEF NodeThinks
<1>6. CASE NodeReplies
  BY <1>6, ServerTypes
  DEF NodeReplies, Res!Reply, Res!Resting, thread, Copied, WritesNothing
<1>7. CASE UNCHANGED <<sessions, rx, taken, written>>
  BY <1>7 DEF Copied, WritesNothing, thread, session
<1> QED
  BY <1>4, <1>5, <1>6, <1>7
  DEF Next, Caller, Node, Register, Begin, CallerSends, CallerThinks, CallerTimesOut,
     AppReceives, BusLoses, Rest, vars, resVars, Res!SetHandler

(* Nobody is the first to say "done" but a thread that serves a session    *)
(* whose payload was taken.                                                *)
LEMMA ToldBefore ==
  ASSUME Types, Halves, CallsInv, [Next]_vars, Told'
  PROVE  Told \/ taken["app"] # 0
<1>1. (\E f \in ToApp' : f.done) => Told
  BY FramesDone DEF Told
<1>2. thread'.pc = "reply" /\ thread'.out.done => Told \/ taken["app"] # 0
  BY ReplyDone DEF Told
<1>3. pending'.ok /\ pending'.done => Told
  BY PendingDone DEF Told
<1>4. ASSUME \/ caller'.pc = "abort" /\ caller'.success
             \/ \E k \in Calls : result'[k] = "ok"
      PROVE  Told
  <2>1. ASSUME NEW k \in Calls, NEW n \in 1 .. MaxBlocks, Begin(k, n) PROVE Told
    BY <1>4, <2>1, BeginCall DEF Told, Types
  <2>2. CASE CallKept
    BY <1>4, <2>2 DEF CallKept, Told, caller
  <2>3. CASE InCall
    <3>1. caller.pc # "idle"
      BY <2>3, CallerKeeps
    <3>2. caller'.success /\ caller'.pc \in {"abort", "idle"} => Told
      BY <2>3, <3>1, SuccessDone DEF Told
    <3>3. result' = IF caller'.pc = "idle"
                    THEN [result EXCEPT ![Current] =
                              IF caller'.success THEN "ok" ELSE "failed"]
                    ELSE result
      BY <2>3, <3>1, CallGoesOn
    <3> QED
      BY <1>4, <3>2, <3>3 DEF Told, Types
  <2> QED
    BY <2>1, <2>2, <2>3, StepCases
<1> QED
  BY <1>1, <1>2, <1>3, <1>4 DEF Told

LEMMA SomeNext ==
  ASSUME Types, Types', Halves, CallsInv, SomeInv, [Next]_vars
  PROVE  SomeInv'
<1>1. Copied' /\ (WritesOne \/ WritesNothing)
  BY ServerWrites DEF SomeInv
<1>2. CASE WritesOne
  <2>1. PICK p \in Payloads : written' = Append(written, p)
    BY <1>2 DEF WritesOne
  <2>2. written \in Seq(Payloads)
    BY DEF SomeInv
  <2>3. written' \in Seq(Payloads) /\ written' # <<>>
    BY <2>1, <2>2, AppendProperties
  <2> QED
    BY <1>1, <2>3 DEF SomeInv
<1>3. CASE WritesNothing
  BY <1>1, <1>3, ToldBefore DEF SomeInv, WritesNothing
<1> QED
  BY <1>1, <1>2, <1>3

LEMMA SomeHolds == Spec => [](CallsInv /\ SomeInv)
<1>1. Init => SomeInv
  <2> SUFFICES ASSUME Init PROVE SomeInv
    OBVIOUS
  <2>1. /\ ToApp = {} /\ thread.pc = "idle" /\ caller.pc = "idle" /\ ~pending.ok
        /\ result = [k \in Calls |-> "unused"] /\ taken["app"] = 0 /\ written = <<>>
    BY DEF Init, Ini!Init, Ini!NoCall, Ini!NoPending, Res!ServeInit, Res!Resting, caller,
       thread, ToApp, Carried
  <2> QED
    BY <2>1 DEF SomeInv, Copied, Told
<1> QED
  BY <1>1, CallsInit, CallsNext, SomeNext, TypesHold, HalvesHold, PTL DEF Spec

(* Even if calls follow each other at once, and frames of the last call    *)
(* arrive in the session of the next, what the handler of the other node   *)
(* is given consists of blocks that calls have sent: none was left unset.  *)
THEOREM PayloadsHaveNoHoles == Spec => [](written \in Seq(Payloads))
<1>1. SomeInv => written \in Seq(Payloads)
  BY DEF SomeInv
<1> QED
  BY <1>1, SomeHolds, PTL

(* Nor does setBlock() ever return true when no payload at all has been    *)
(* disposed of; TransferImpatient shows that it need not be that call's.   *)
THEOREM SuccessIsNotInvented ==
  Spec => []((\E k \in Calls : result[k] = "ok") => written # <<>>)
<1>1. SomeInv => ((\E k \in Calls : result[k] = "ok") => written # <<>>)
  BY DEF SomeInv, Told
<1> QED
  BY <1>1, SomeHolds, PTL

----------------------------------------------------------------------------
(* Every run ends: nothing that the two managers do repeats itself.        *)
(* Work counts what is still to come, and every step uses some of it up.   *)

(* The steps left in the call under way; a frame costs the six steps that  *)
(* it may set the other node to, and the one that sends it.                *)
CallerWork ==
    LET left == caller.numBlocks - caller.next
    IN  CASE caller.pc = "request"     -> 24 + 7 * left
          [] caller.pc = "awaitAck"    -> 17 + 7 * left
          [] caller.pc = "transfer"    -> 16 + 7 * left
          [] caller.pc = "arm"         -> 16
          [] caller.pc = "status"      -> 15
          [] caller.pc = "awaitReport" -> 8
          [] caller.pc = "abort"       -> 7
          [] caller.pc = "idle"        -> 0

(* Those of the frame in the node's hands, and the answer.                 *)
ThreadWork ==
    CASE thread.pc = "handler" -> 5
      [] thread.pc = "record"  -> 4
      [] thread.pc = "report"  -> 3
      [] thread.pc = "reply"   -> 2
      [] thread.pc = "idle"    -> 0

FrameWork   == 6 * Len(toNode) + Len(toApp)
BusWork     == 6 * (MaxDup - duplicated) + (MaxLoss - lost)
CallCost    == 25 + 7 * MaxBlocks
CallsWork   == CallCost * (MaxCalls - Current)
HandlerWork == IF handler THEN 0 ELSE 1

Work == CallsWork + CallerWork + ThreadWork + FrameWork + BusWork + HandlerWork

LEMMA CallerFacts ==
  ASSUME Types
  PROVE  /\ call \in [{"app"} -> IniP!CallRecord]
         /\ caller \in IniP!CallRecord
         /\ caller.pc \in {"request", "awaitAck", "transfer", "arm", "status",
                           "awaitReport", "abort", "idle"}
         /\ caller.numBlocks \in 1 .. MaxBlocks /\ caller.next \in Nat
         /\ caller.pc \in {"request", "awaitAck"} => caller.next = 0
         /\ caller.pc = "transfer" => caller.next < caller.numBlocks
  BY TransferAssumption DEF Types, IniP!TInv, IniP!TypeOK, IniP!LoopBound,
     IniP!CallRecord, IniP!PC, IniP!Sending, IniP!Waiting, caller

LEMMA CallerWorkType == ASSUME Types PROVE CallerWork \in Nat
<1>1. /\ caller.numBlocks \in Nat \ {0} /\ caller.next \in Nat
      /\ caller.pc \in {"request", "awaitAck"} => caller.next = 0
      /\ caller.pc = "transfer" => caller.next < caller.numBlocks
  BY CallerFacts, TransferAssumption
<1> QED
  BY <1>1, CallerFacts DEF CallerWork

LEMMA ThreadWorkType == Types => ThreadWork \in 0 .. 5
<1> SUFFICES ASSUME Types PROVE ThreadWork \in 0 .. 5
  OBVIOUS
<1>1. thread.pc \in {"handler", "record", "report", "reply", "idle"}
  BY ServerTypes DEF ResP!Thread, ResP!ServePC, ResP!Inside
<1> QED
  BY <1>1 DEF ThreadWork

LEMMA FrameWorkType ==
  ASSUME Types
  PROVE  Len(toNode) \in Nat /\ Len(toApp) \in Nat /\ FrameWork \in Nat
<1>1. Len(toNode) \in Nat /\ Len(toApp) \in Nat
  BY LenProperties DEF Types
<1> QED
  BY <1>1 DEF FrameWork

LEMMA BusWorkType ==
  ASSUME Types
  PROVE  /\ BusWork \in Nat /\ lost \in Nat /\ duplicated \in Nat
         /\ MaxLoss \in Nat /\ MaxDup \in Nat
  BY TransferAssumption DEF Types, BusWork

LEMMA CallsWorkType == CallCost \in Nat /\ CallsWork \in Nat
<1>1. CallCost \in Nat /\ MaxCalls - Current \in Nat
  BY CurrentType, TransferAssumption DEF CallCost
<1>2. ASSUME NEW a \in Nat, NEW b \in Nat PROVE a * b \in Nat
  BY <1>2
<1> QED
  BY <1>1, <1>2 DEF CallsWork

(* The parts are natural numbers, before a step and after it.              *)
Parts ==
    /\ CallsWork \in Nat /\ CallerWork \in Nat /\ ThreadWork \in Nat
    /\ FrameWork \in Nat /\ BusWork \in Nat /\ HandlerWork \in Nat
    /\ Len(toNode) \in Nat /\ Len(toApp) \in Nat
    /\ lost \in Nat /\ duplicated \in Nat

LEMMA PartsType == Types => Parts
<1> SUFFICES ASSUME Types PROVE Parts
  OBVIOUS
<1>1. CallsWork \in Nat /\ CallerWork \in Nat
  BY CallerWorkType, CallsWorkType
<1>2. ThreadWork \in Nat /\ FrameWork \in Nat
  BY ThreadWorkType, FrameWorkType
<1>3. BusWork \in Nat /\ HandlerWork \in Nat
  BY BusWorkType DEF HandlerWork
<1> QED
  BY <1>1, <1>2, <1>3, FrameWorkType, BusWorkType DEF Parts

LEMMA AppendLonger ==
  ASSUME NEW X, NEW q \in Seq(X), NEW x
  PROVE  Len(Append(q, x)) = Len(q) + 1
<1>1. q \in Seq(X \cup {x})
  BY SeqMonotonic
<1> QED
  BY <1>1, AppendProperties

(* Taking a frame out of a channel or, once more, leaving it there.        *)
LEMMA ReceiveCosts ==
  ASSUME Types, NEW X, NEW q \in Seq(X), q # <<>>, NEW rest, Receive(q, rest)
  PROVE  \/ /\ Len(rest) = Len(q) - 1 /\ duplicated' = duplicated
         \/ /\ rest = q /\ duplicated' = duplicated + 1
  BY HeadTailProperties DEF Receive

LEMMA CallerGoes ==
  ASSUME Types, NEW pc, Ini!Goto("app", pc)
  PROVE  /\ caller'.pc = pc /\ caller'.numBlocks = caller.numBlocks
         /\ caller'.next = caller.next
  BY CallerFacts DEF Ini!Goto, caller, IniP!CallRecord

(* Whatever a call does is a step towards its end.                         *)
LEMMA CallerSpends ==
  ASSUME Types, CallerSends
  PROVE  \/ /\ Len(toNode') = Len(toNode) + 1 /\ lost' = lost
            /\ CallerWork' = CallerWork - 7
         \/ /\ toNode' = toNode /\ lost' = lost + 1
            /\ CallerWork' <= CallerWork
<1>1. PICK sent \in BOOLEAN :
         /\ \/ Ini!SendRequest("app", sent)
            \/ Ini!SendTransfer("app", sent)
            \/ Ini!SendStatusRequest("app", sent)
            \/ Ini!SendAbort("app")
         /\ \E f : Send(f, sent)
  BY DEF CallerSends
<1>2. CASE sent
  <2>1. Len(toNode') = Len(toNode) + 1 /\ lost' = lost
    <3>1. PICK f : toNode' = Append(toNode, f) /\ lost' = lost
      BY <1>1, <1>2 DEF Send
    <3> QED
      BY <3>1, AppendLonger DEF Types
  <2>2. CASE Ini!SendTransfer("app", sent)
    <3>1. /\ caller.pc = "transfer" /\ caller' = [caller EXCEPT !.next = @ + 1,
                !.pc = IF caller.next + 1 = caller.numBlocks THEN "arm" ELSE "transfer"]
      BY <1>2, <2>2, CallerFacts DEF Ini!SendTransfer, caller
    <3>2. /\ caller'.numBlocks = caller.numBlocks /\ caller'.next = caller.next + 1
          /\ caller'.pc = IF caller.next + 1 = caller.numBlocks THEN "arm" ELSE "transfer"
      BY <3>1, CallerFacts DEF IniP!CallRecord
    <3>3. caller.numBlocks \in Nat /\ caller.next \in Nat
      BY CallerFacts, TransferAssumption
    <3>4. CASE caller.next + 1 = caller.numBlocks
      BY <2>1, <3>1, <3>2, <3>3, <3>4 DEF CallerWork
    <3>5. CASE caller.next + 1 # caller.numBlocks
      BY <2>1, <3>1, <3>2, <3>3, <3>5 DEF CallerWork
    <3> QED
      BY <3>4, <3>5
  <2>3. CASE ~Ini!SendTransfer("app", sent)
    <3>1. \/ caller.pc = "request" /\ Ini!Goto("app", "awaitAck")
          \/ caller.pc = "status" /\ Ini!Goto("app", "awaitReport")
          \/ caller.pc = "abort" /\ Ini!Goto("app", "idle")
      BY <1>1, <1>2, <2>3 DEF Ini!SendRequest, Ini!SendStatusRequest, Ini!SendAbort, caller
    <3>2. /\ caller'.numBlocks = caller.numBlocks /\ caller'.next = caller.next
          /\ \/ caller.pc = "request" /\ caller'.pc = "awaitAck"
             \/ caller.pc = "status" /\ caller'.pc = "awaitReport"
             \/ caller.pc = "abort" /\ caller'.pc = "idle"
      BY <3>1, CallerGoes
    <3>3. caller.numBlocks \in Nat /\ caller.next \in Nat
      BY CallerFacts, TransferAssumption
    <3> QED
      BY <2>1, <3>2, <3>3 DEF CallerWork
  <2> QED
    BY <2>2, <2>3
<1>3. CASE ~sent
  <2>1. toNode' = toNode /\ lost' = lost + 1
    BY <1>1, <1>3 DEF Send
  <2>2. Ini!Goto("app", "idle")
    BY <1>1, <1>3 DEF Ini!SendRequest, Ini!SendTransfer, Ini!SendStatusRequest,
       Ini!SendAbort, Ini!GiveUp
  <2>3. CallerWork' = 0
    BY <2>2, CallerGoes DEF CallerWork
  <2> QED
    BY <2>1, <2>3, CallerWorkType
<1> QED
  BY <1>2, <1>3

LEMMA CallerMovesOn ==
  ASSUME Types, CallerThinks \/ CallerTimesOut
  PROVE  CallerWork' < CallerWork
<1>1. /\ caller.numBlocks \in Nat /\ caller.next \in Nat
      /\ caller.pc = "awaitAck" => caller.numBlocks > caller.next
  BY CallerFacts, TransferAssumption
<1>2. /\ caller'.numBlocks = caller.numBlocks /\ caller'.next = caller.next
      /\ caller.pc \in {"awaitAck", "arm", "awaitReport"}
      /\ \/ caller'.pc = "idle"
         \/ caller.pc = "awaitAck" /\ caller'.pc = "transfer"
         \/ caller.pc = "arm" /\ caller'.pc = "status"
         \/ caller.pc = "awaitReport" /\ caller'.pc = "abort"
  BY CallerFacts DEF CallerThinks, CallerTimesOut, Ini!WakeOnAck, Ini!Arm,
     Ini!WakeOnReport, Ini!AckTimeout, Ini!ReportTimeout, Ini!GiveUp, Ini!Goto, caller,
     IniP!CallRecord
<1> QED
  BY <1>1, <1>2 DEF CallerWork

LEMMA NodeMovesOn ==
  ASSUME Types, NodeThinks \/ NodeReplies
  PROVE  ThreadWork' <= ThreadWork - (IF NodeReplies THEN 2 ELSE 1)
<1>1. CASE NodeReplies
  <2>1. thread.pc = "reply" /\ thread'.pc = "idle"
    BY <1>1, ServerTypes DEF NodeReplies, Res!Reply, Res!Resting, thread
  <2> QED
    BY <1>1, <2>1 DEF ThreadWork
<1>2. CASE NodeThinks /\ ~NodeReplies
  <2>1. ASSUME NEW answer \in BOOLEAN, Res!RunHandler("rx", answer)
        PROVE  thread.pc = "handler" /\ thread'.pc = "record"
    BY <2>1, HandlerRuns
  <2>2. ASSUME Res!RecordDone("rx")
        PROVE  thread.pc = "record" /\ thread'.pc = "report"
    BY <2>2, ServerTypes DEF Res!RecordDone, thread, ResP!Thread
  <2>3. ASSUME Res!BuildReport("rx")
        PROVE  thread.pc = "report" /\ thread'.pc = "reply"
    BY <2>3, ServerTypes DEF Res!BuildReport, Res!Respond, Res!Resting, thread
  <2> QED
    BY <1>2, <2>1, <2>2, <2>3, TransferAssumption DEF ThreadWork, NodeThinks
<1> QED
  BY <1>1, <1>2

LEMMA NodeReceivesIdle == ASSUME NodeReceives PROVE thread.pc = "idle"
  BY DEF NodeReceives, Res!OnRequest, Res!OnTransfer, Res!OnStatusRequest, Res!OnAbort,
     Res!Handles, thread

(* A call that begins is one of those still to come.                       *)
LEMMA BeginSpends ==
  ASSUME Types, CallsInv, NEW k \in Calls, NEW n \in 1 .. MaxBlocks, Begin(k, n)
  PROVE  CallsWork' \in Int /\ CallsWork' + CallerWork' < CallsWork + CallerWork
<1>1. /\ Current' = Current + 1 /\ Current \in Nat /\ Current + 1 <= MaxCalls
      /\ caller.pc = "idle" /\ caller'.pc = "request"
      /\ caller'.numBlocks = n /\ caller'.next = 0
  BY BeginCall, CurrentType DEF Calls
<1>2. CallsWork = CallsWork' + CallCost /\ CallsWork' \in Int
  <2>1. ASSUME NEW c \in Nat, NEW a \in Int PROVE c * a = c * (a - 1) + c /\ c * (a - 1) \in Int
    BY <2>1
  <2>2. MaxCalls - Current \in Int /\ MaxCalls - (Current + 1) = (MaxCalls - Current) - 1
    BY <1>1, TransferAssumption
  <2>3. CallsWork = CallCost * (MaxCalls - Current)
        /\ CallsWork' = CallCost * ((MaxCalls - Current) - 1)
    BY <1>1, <2>2 DEF CallsWork, CallCost
  <2> QED
    BY <2>1, <2>2, <2>3, CallsWorkType
<1>3. CallerWork = 0 /\ CallerWork' = 24 + 7 * n
  BY <1>1 DEF CallerWork
<1>4. PICK rest \in Int : CallsWork' = rest
  BY <1>2
<1>5. rest + (24 + 7 * n) < rest + CallCost + 0
  BY TransferAssumption DEF CallCost
<1> QED
  BY <1>2, <1>3, <1>4, <1>5

(* What a step that is not the beginning of a call leaves to do in calls.  *)
LEMMA CallsWorkKept ==
  ASSUME Types, CallsInv, CallKept \/ InCall
  PROVE  CallsWork' = CallsWork
<1>1. Current' = Current
  BY CallGoesOn
<1> QED
  BY <1>1 DEF CallsWork, CallCost

LEMMA StepSpends ==
  ASSUME Types, CallsInv, Next, ~UNCHANGED vars
  PROVE  Work' < Work
<1> DEFINE IdleCaller == CallerWork' = CallerWork /\ CallsWork' = CallsWork
           IdleThread == ThreadWork' = ThreadWork /\ HandlerWork' = HandlerWork
<1>1. Parts /\ Parts'
  BY TypesNext, PartsType, PTL
<1>2. PICK k1 \in Nat, c1 \in Nat, t1 \in Nat, f1 \in Nat, b1 \in Nat, h1 \in Nat :
         /\ CallsWork' = k1 /\ CallerWork' = c1 /\ ThreadWork' = t1
         /\ FrameWork' = f1 /\ BusWork' = b1 /\ HandlerWork' = h1
  BY <1>1 DEF Parts
<1>3. /\ Work' = k1 + c1 + t1 + f1 + b1 + h1
      /\ Work = CallsWork + CallerWork + ThreadWork + FrameWork + BusWork + HandlerWork
  BY <1>2 DEF Work
<1>0. PICK n1 \in Nat, a1 \in Nat, l1 \in Nat, d1 \in Nat :
         /\ Len(toNode') = n1 /\ Len(toApp') = a1 /\ lost' = l1 /\ duplicated' = d1
         /\ f1 = 6 * n1 + a1 /\ b1 = 6 * (MaxDup - d1) + (MaxLoss - l1)
  BY <1>1, <1>2 DEF Parts, FrameWork, BusWork
<1> USE <1>1 DEF Parts
<1>4. UNCHANGED <<call, result>> => IdleCaller
  BY DEF CallerWork, caller, CallsWork, CallCost, Current
<1>5. UNCHANGED <<rx, handler>> => IdleThread
  BY DEF ThreadWork, thread, HandlerWork
<1>6. /\ UNCHANGED <<toNode, toApp>> => FrameWork' = FrameWork
      /\ UNCHANGED <<lost, duplicated>> => BusWork' = BusWork
  BY DEF FrameWork, BusWork
<1>7. ASSUME NEW k \in Calls, NEW n \in 1 .. MaxBlocks, Begin(k, n) PROVE Work' < Work
  <2>1. /\ IdleThread /\ FrameWork' = FrameWork /\ BusWork' = BusWork
    BY <1>5, <1>6, <1>7 DEF Begin, resVars, busVars
  <2>2. CallsWork' \in Int /\ CallsWork' + CallerWork' < CallsWork + CallerWork
    BY <1>7, BeginSpends
  <2> QED
    BY <1>2, <1>3, <2>1, <2>2
<1>8. CASE Register
  <2>1. IdleCaller /\ FrameWork' = FrameWork /\ BusWork' = BusWork
    BY <1>4, <1>6, <1>8 DEF Register, Res!SetHandler, iniVars, busVars
  <2>2. ThreadWork' = ThreadWork /\ HandlerWork = 1 /\ HandlerWork' = 0
    BY <1>8 DEF Register, Res!SetHandler, HandlerWork, ThreadWork, thread
  <2> QED
    BY <1>2, <1>3, <2>1, <2>2
<1>9. CASE CallerSends
  <2>1. IdleThread /\ CallsWork' = CallsWork /\ toApp' = toApp /\ duplicated' = duplicated
    BY <1>5, <1>9, CallsWorkKept DEF CallerSends, resVars, InCall
  <2>2. \/ Len(toNode') = Len(toNode) + 1 /\ lost' = lost /\ CallerWork' = CallerWork - 7
        \/ toNode' = toNode /\ lost' = lost + 1 /\ CallerWork' <= CallerWork
    BY <1>9, CallerSpends
  <2>3. f1 + b1 + c1 < FrameWork + BusWork + CallerWork
    BY <1>0, <1>2, <2>1, <2>2, TransferAssumption DEF FrameWork, BusWork
  <2> QED
    BY <1>2, <1>3, <2>1, <2>3
<1>10. CASE CallerThinks \/ CallerTimesOut
  <2>1. IdleThread /\ CallsWork' = CallsWork /\ FrameWork' = FrameWork /\ BusWork' = BusWork
    BY <1>5, <1>6, <1>10, CallsWorkKept
    DEF CallerThinks, CallerTimesOut, resVars, busVars, InCall
  <2> QED
    BY <1>2, <1>3, <1>10, <2>1, CallerMovesOn
<1>11. CASE AppReceives
  <2>1. IdleCaller /\ IdleThread
    BY <1>4, <1>5, <1>11 DEF AppReceives, resVars, Ini!OnAck, Ini!OnNack, Ini!OnReport
  <2>2. /\ toNode' = toNode /\ lost' = lost
        /\ \/ Len(toApp') = Len(toApp) - 1 /\ duplicated' = duplicated
           \/ toApp' = toApp /\ duplicated' = duplicated + 1
    BY <1>11, ReceiveCosts DEF AppReceives, Types
  <2>3. f1 + b1 < FrameWork + BusWork
    BY <1>0, <2>2, TransferAssumption DEF FrameWork, BusWork
  <2> QED
    BY <1>2, <1>3, <2>1, <2>3
<1>12. CASE NodeReceives
  <2>1. IdleCaller /\ HandlerWork' = HandlerWork
    <3>1. handler' = handler
      BY <1>12 DEF NodeReceives, Res!OnRequest, Res!OnTransfer, Res!OnStatusRequest,
         Res!OnAbort
    <3> QED
      BY <1>4, <1>12, <3>1 DEF NodeReceives, iniVars, HandlerWork
  <2>2. /\ toApp' = toApp /\ lost' = lost
        /\ \/ Len(toNode') = Len(toNode) - 1 /\ duplicated' = duplicated
           \/ toNode' = toNode /\ duplicated' = duplicated + 1
    BY <1>12, ReceiveCosts DEF NodeReceives, Types
  <2>3. f1 + b1 = FrameWork + BusWork - 6
    BY <1>0, <2>2, TransferAssumption DEF FrameWork, BusWork
  <2>4. ThreadWork = 0
    BY <1>12, NodeReceivesIdle DEF ThreadWork
  <2>5. t1 \in 0 .. 5
    <3>1. (ThreadWork \in 0 .. 5)'
      BY TypesNext, ThreadWorkType, PTL
    <3> QED
      BY <1>2, <3>1
  <2> QED
    BY <1>2, <1>3, <2>1, <2>3, <2>4, <2>5
<1>13. CASE NodeThinks
  <2>1. IdleCaller /\ HandlerWork' = HandlerWork
    <3>1. handler' = handler
      BY <1>13 DEF NodeThinks, Res!RunHandler, Res!RecordDone, Res!BuildReport
    <3> QED
      BY <1>4, <1>13, <3>1 DEF NodeThinks, iniVars, HandlerWork
  <2>2. FrameWork' = FrameWork /\ BusWork' = BusWork
    BY <1>6, <1>13 DEF NodeThinks
  <2>3. t1 < ThreadWork
    BY <1>2, <1>13, NodeMovesOn
  <2> QED
    BY <1>2, <1>3, <2>1, <2>2, <2>3
<1>14. CASE NodeReplies
  <2>1. IdleCaller /\ HandlerWork' = HandlerWork
    BY <1>4, <1>14 DEF NodeReplies, iniVars, HandlerWork, Res!Reply
  <2>2. /\ Len(toNode') = Len(toNode) /\ Len(toApp') = Len(toApp) + 1
        /\ BusWork' = BusWork
    BY <1>6, <1>14, AppendLonger DEF NodeReplies, Types, busVars
  <2>3. f1 = FrameWork + 1
    BY <1>0, <2>2 DEF FrameWork
  <2>4. t1 <= ThreadWork - 2
    BY <1>2, <1>14, NodeMovesOn
  <2> QED
    BY <1>2, <1>3, <2>1, <2>2, <2>3, <2>4
<1>15. CASE BusLoses
  <2>1. IdleCaller /\ IdleThread
    BY <1>4, <1>5, <1>15 DEF BusLoses, iniVars, resVars
  <2>2. /\ Len(toNode') <= Len(toNode) /\ Len(toApp') <= Len(toApp)
        /\ lost' = lost + 1 /\ duplicated' = duplicated
    <3>1. Len(toNode) \in Nat /\ Len(toApp) \in Nat
      BY LenProperties DEF Types
    <3>2. lost' = lost + 1 /\ duplicated' = duplicated
      BY <1>15 DEF BusLoses
    <3>3. CASE toNode # <<>> /\ toNode' = Tail(toNode) /\ toApp' = toApp
      <4>1. Len(toNode') = Len(toNode) - 1
        BY <3>3, HeadTailProperties DEF Types
      <4> QED
        BY <3>1, <3>2, <3>3, <4>1
    <3>4. CASE toApp # <<>> /\ toApp' = Tail(toApp) /\ toNode' = toNode
      <4>1. Len(toApp') = Len(toApp) - 1
        BY <3>4, HeadTailProperties DEF Types
      <4> QED
        BY <3>1, <3>2, <3>4, <4>1
    <3> QED
      BY <1>15, <3>3, <3>4 DEF BusLoses
  <2>3. f1 <= FrameWork /\ b1 = BusWork - 1
    BY <1>0, <2>2, TransferAssumption DEF FrameWork, BusWork
  <2> QED
    BY <1>2, <1>3, <2>1, <2>3
<1>16. ~Rest
  BY DEF Rest
<1> QED
  BY <1>7, <1>8, <1>9, <1>10, <1>11, <1>12, <1>13, <1>14, <1>15, <1>16
  DEF Next, Caller, Node

(* Whatever is lost or comes twice, and however early the caller calls     *)
(* again, each step uses up some of a finite amount of work: the protocol  *)
(* has no loop, of frames that call for each other or of sends that are    *)
(* tried again, in which the two nodes could stay busy for ever.           *)
THEOREM EveryRunEnds == Spec => [](Work \in Nat) /\ [][Work' < Work]_vars
<1>1. Types /\ CallsInv /\ [Next]_vars => CallsInv'
  BY CallsNext
<1>2. Types => Work \in Nat
  BY PartsType DEF Parts, Work
<1>3. Types /\ CallsInv /\ [Next]_vars => [Work' < Work]_vars
  BY StepSpends
<1> QED
  BY <1>1, <1>2, <1>3, CallsInit, TypesHold, PTL DEF Spec

====
