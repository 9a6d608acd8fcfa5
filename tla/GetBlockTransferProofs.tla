----------------------- MODULE GetBlockTransferProofs -----------------------
(***************************************************************************)
(* Proofs about GetBlockTransfer, for any numbers of calls, blocks, runs   *)
(* of the handler, losses and repetitions, along the lines of              *)
(* SetBlockTransferProofs: each half takes only steps of its own           *)
(* specification, TInv says what the frames between the two carry, and     *)
(* GoodInv what a bus that loses nothing adds.  These need a caller that   *)
(* lets the bus fall silent between calls (Patient); MadeInv says what is  *)
(* left without it.                                                        *)
(***************************************************************************)
EXTENDS GetBlockTransfer, SequenceTheorems, FiniteSetTheorems, TLAPS

Mgr == INSTANCE GetBlockManagerProofs
       WITH Callers <- {"app"}, Peers <- {"node"}, Broadcast <- "all",
            Contents <- Versions, Empty <- 0,
            Clients <- {"app"}, Threads <- {"rx"}, Readings <- Versions,
            Nothing <- 0, MaxBlocks <- NumBlocks,
            Hears <- [t \in {"rx"} |-> {"app"}]

caller  == call["app"]
session == sessions["app"]
thread  == rx["rx"]

(* The frames in a channel, in no order.                                   *)
Carried(q) == {q[i] : i \in DOMAIN q}
ToNode == Carried(toNode)
ToApp  == Carried(toApp)

InCall    == caller.pc # "idle"
Gathering == caller.pc \in {"start", "awaitBlocks"}
Quiet     == ToNode = {} /\ ToApp = {} /\ thread.pc = "idle"

(* The calls made are the first Current ones, and the last one is open     *)
(* just while the caller is in it.                                         *)
CallsInv ==
    /\ result \in [Calls -> {"unused", "open", "ok", "failed"}]
    /\ {k \in Calls : result[k] # "unused"} = 1 .. Current
    /\ \A k \in Calls : result[k] = "open" => k = Current /\ InCall
    /\ InCall => Current \in Calls /\ result[Current] = "open" /\ caller.to = "node"
    /\ Current # 0 => handler

(* A START comes after every REQUEST, and blocks after every other answer. *)
InOrder(q) ==
    \A i, j \in DOMAIN q : i < j => ~(q[i] = "start" /\ q[j] = "request")
BlocksLast(q) ==
    \A i, j \in DOMAIN q : i < j => ~(q[i].type = "transfer" /\ q[j].type # "transfer")

FramesInv ==
    /\ InOrder(toNode) /\ BlocksLast(toApp)
    /\ ~Quiet => Current \in Calls
    /\ caller.pc = "request" => Quiet
    /\ "start" \in ToNode => session.exists

(* Blocks of this call are on their way or have come.                      *)
Moving ==
    \/ \E f \in ToApp : f.type = "transfer"
    \/ thread.pc = "transfers"
    \/ pending.received # {}

(* They are those of the session, which nothing replaces any more.         *)
DataInv ==
    /\ Moving => /\ session.exists /\ "request" \notin ToNode
                 /\ thread.pc \in {"idle", "transfers"}
    /\ InCall /\ ("start" \in ToNode \/ Moving) => caller.pc = "awaitBlocks"
    /\ \A f \in ToApp : f.type = "transfer" => f.data = session.content
    /\ pending.received # {} => \A f \in ToApp : f.type = "transfer"
    /\ thread.pc = "transfers" => thread.content = session.content
    /\ \A i \in pending.received : pending.blocks[i] = session.content

(* The node has read the data for the current call.                        *)
Acked ==
    \/ thread.pc = "reply" /\ thread.out = "ack"
    \/ \E f \in ToApp : f.type = "ack"
    \/ pending.acked

SessionInv ==
    /\ thread.pc = "handler" => thread.numBlocks = NumBlocks /\ thread.hasAddress
    /\ thread.pc = "store" => /\ thread.numBlocks = NumBlocks
                              /\ thread.content \in DOMAIN readFor
                              /\ InCall => readFor[thread.content] = Current
    /\ session.exists => session.numBlocks = NumBlocks /\ session.content \in DOMAIN readFor
    /\ InCall /\ Acked => session.exists /\ readFor[session.content] = Current

(* The cache is one version, and that of the current call once it is done. *)
cached == IF lastData = <<>> THEN 0 ELSE readFor[lastData[1]]

CacheInv ==
    /\ \A v \in DOMAIN readFor : readFor[v] \in 0 .. Current
    /\ lastData = <<>> \/ \E v \in DOMAIN readFor : lastData = [i \in 1 .. NumBlocks |-> v]
    /\ InCall => (pending.ok <=> cached = Current)

TInv == CallsInv /\ FramesInv /\ DataInv /\ SessionInv /\ CacheInv

(* Whatever the caller does, all that moves was made by some run of the    *)
(* handler, and true means that something was cached.                      *)
Made == DOMAIN readFor

Won == pending.ok \/ \E k \in Calls : result[k] = "ok"

MadeInv ==
    /\ thread.pc \in {"handler", "store"} => thread.numBlocks = NumBlocks
    /\ thread.pc \in {"store", "transfers"} => thread.content \in Made
    /\ session.exists => session.numBlocks = NumBlocks /\ session.content \in Made
    /\ \A f \in ToApp : f.type = "transfer" => f.data \in Made
    /\ \A i \in pending.received : pending.blocks[i] \in Made
    /\ lastData = <<>> \/ lastData \in [1 .. NumBlocks -> Made]
    /\ Won => lastData # <<>>

(* As long as the bus loses nothing, no call gives up on what is to come,  *)
(* and the handler accepts, all goes well:                                 *)
Faultless == lost = 0 /\ ~excused

(* a block that the caller waits for has come or will,                     *)
Comes(i) ==
    \/ i \in pending.received
    \/ \E f \in ToApp : f.type = "transfer" /\ f.seq = i
    \/ thread.pc = "transfers" /\ i \in thread.todo
    \/ "start" \in ToNode

WaitsGood ==
    /\ caller.pc \in {"request", "awaitAck"} => pending.waitingAck \/ pending.acked
    /\ caller.pc = "awaitAck" => pending.acked \/ ~Quiet
    /\ caller.pc = "awaitBlocks" => \A i \in Index : Comes(i)

(* and nothing is refused.                                                 *)
OutcomeGood ==
    /\ \A f \in ToApp : f.type # "nack"
    /\ thread.pc = "reply" => thread.out = "ack"
    /\ pending.done => pending.ok
    /\ pending.received = Index => pending.ok
    /\ \A k \in Calls : result[k] # "failed"

GoodInv == Faultless => WaitsGood /\ OutcomeGood

----------------------------------------------------------------------------
(* The halves                                                              *)

LEMMA HalvesConstants ==
  Mgr!InitiatorAssumption /\ Mgr!ResponderAssumption /\ Mgr!SingleCaller
<1>1. 0 \notin Versions
  BY TransferAssumption DEF Versions
<1> QED
  BY <1>1, TransferAssumption
  DEF Mgr!InitiatorAssumption, Mgr!ResponderAssumption, Mgr!SingleCaller

LEMMA InitHalves == Init => Mgr!Init /\ Mgr!ServeInit
<1>1. Ini!Init => Mgr!Init
  BY DEF Ini!Init, Ini!NoPending, Ini!NoCall, Ini!NoBlocks, Ini!Unheard, Ini!Index,
     Mgr!Init, Mgr!NoPending, Mgr!NoCall, Mgr!NoBlocks, Mgr!Unheard, Mgr!Index
<1>2. Res!ServeInit => Mgr!ServeInit
  BY DEF Res!ServeInit, Res!NoSession, Res!Resting,
         Mgr!ServeInit, Mgr!NoSession, Mgr!Resting
<1> QED
  BY <1>1, <1>2 DEF Init

(* Both instances of the initiator join blocks alike.                      *)
LEMMA SameAssembly == \A b : Ini!Assemble(b) = Mgr!Assemble(b)
  BY Zenon DEF Ini!Assemble, Mgr!Assemble, Ini!Index, Mgr!Index, Ini!Cardinality,
     Mgr!Cardinality

(* The types of everything, as each half needs the other's frames.         *)
Types ==
    /\ Mgr!TInv /\ Mgr!ServeInv
    /\ toNode \in Seq(Requests) /\ toApp \in Seq(Answers)
    /\ result \in [Calls -> {"unused", "open", "ok", "failed"}]
    /\ readFor \in Seq(0 .. MaxCalls) /\ Len(readFor) <= MaxReads
    /\ lost \in 0 .. MaxLoss /\ duplicated \in 0 .. MaxDup /\ excused \in BOOLEAN

LEMMA CurrentType == Current \in 0 .. MaxCalls
<1> DEFINE U == {k \in Calls : result[k] # "unused"}
<1>1. IsFiniteSet(Calls) /\ Cardinality(Calls) = MaxCalls
  BY TransferAssumption, FS_Interval DEF Calls
<1>2. IsFiniteSet(U) /\ Cardinality(U) <= MaxCalls
  BY <1>1, FS_Subset
<1>3. Cardinality(U) \in Nat
  BY <1>2, FS_CardinalityType
<1> QED
  BY <1>2, <1>3, TransferAssumption DEF Current

LEMMA CallerSteps ==
  ASSUME toApp \in Seq(Answers), [Next]_vars
  PROVE  [Mgr!Next]_(Mgr!vars)
<1> SUFFICES ASSUME ~ UNCHANGED iniVars PROVE Mgr!Next
  BY DEF iniVars, Mgr!vars
<1>1. ASSUME NEW k \in Calls, Begin(k)
      PROVE  Mgr!Next
  <2>1. Mgr!Begin("app", "node")
    BY <1>1 DEF Begin, Ini!Begin, Ini!NoPending, Ini!NoBlocks, Ini!Unheard, Ini!Index,
       Mgr!Begin, Mgr!NoPending, Mgr!NoBlocks, Mgr!Unheard, Mgr!Index
  <2> QED
    BY <2>1 DEF Mgr!Next, Mgr!Address
<1>2. CASE CallerSends \/ CallerWakes \/ CallerTimesOut
  <2>1. Mgr!CallerStep("app")
    BY <1>2 DEF CallerSends, CallerWakes, CallerTimesOut,
       Ini!SendRequest, Ini!SendStart, Ini!WakeOnAck, Ini!WakeOnDone, Ini!AckTimeout,
       Ini!BlocksTimeout, Ini!Return, Ini!Goto, Ini!AckArrived, Ini!NoPending,
       Ini!NoBlocks, Ini!Index, Mgr!CallerStep,
       Mgr!SendRequest, Mgr!SendStart, Mgr!WakeOnAck, Mgr!WakeOnDone, Mgr!AckTimeout,
       Mgr!BlocksTimeout, Mgr!Return, Mgr!Goto, Mgr!AckArrived, Mgr!NoPending,
       Mgr!NoBlocks, Mgr!Index
  <2> QED
    BY <2>1 DEF Mgr!Next
<1>3. CASE AppReceives
  <2> DEFINE f == Head(toApp)
  <2>1. f \in Answers
    BY <1>3, HeadTailProperties DEF AppReceives
  <2>2. Mgr!OnAck("node") \/ Mgr!OnNack("node") \/ Mgr!OnTransfer("node", f.seq, f.data)
    BY <1>3, SameAssembly
    DEF AppReceives, Ini!OnAck, Ini!OnNack, Ini!OnTransfer, Ini!Hear, Ini!Index,
        Mgr!OnAck, Mgr!OnNack, Mgr!OnTransfer, Mgr!Hear, Mgr!Index
  <2>3. f.seq \in Index /\ f.data \in Versions \cup {0}
    BY <2>1 DEF Answers
  <2> QED
    BY <2>2, <2>3 DEF Mgr!Next, Mgr!Answer, Mgr!Index, Mgr!Block, Index
<1> QED
  BY <1>1, <1>2, <1>3
  DEF Next, Caller, Node, Register, NodeReceives, NodeReads, NodeStores, NodeSends,
      BusLoses, Rest, vars

LEMMA ServerSteps ==
  ASSUME toNode \in Seq(Requests), Len(readFor) \in Nat, [Next]_vars
  PROVE  [Mgr!ServeNext]_(Mgr!serveVars)
<1> SUFFICES ASSUME ~ UNCHANGED resVars PROVE Mgr!ServeNext
  BY DEF resVars, Mgr!serveVars
<1>1. CASE Register
  <2>1. Mgr!SetHandler(TRUE)
    BY <1>1 DEF Register, Res!SetHandler, Mgr!SetHandler
  <2> QED
    BY <2>1 DEF Mgr!ServeNext
<1>2. CASE NodeReceives
  <2>1. CASE Res!OnRequest("rx", "app", NumBlocks - 1, TRUE)
    <3>1. Mgr!OnRequest("rx", "app", NumBlocks - 1, TRUE)
      BY <2>1 DEF Res!OnRequest, Res!Handles, Res!Reply, Res!Resting,
         Mgr!OnRequest, Mgr!Handles, Mgr!Reply, Mgr!Resting
    <3>2. NumBlocks - 1 \in Mgr!BlockIndex
      BY TransferAssumption DEF Mgr!BlockIndex
    <3> QED
      BY <3>1, <3>2 DEF Mgr!ServeNext, Mgr!Frame
  <2>2. CASE Res!OnStart("rx", "app", Index)
    <3>1. Mgr!OnStart("rx", "app", Index)
      BY <2>2 DEF Res!OnStart, Res!Handles, Res!Reply, Res!Resting,
         Mgr!OnStart, Mgr!Handles, Mgr!Reply, Mgr!Resting
    <3>2. Index \in SUBSET Mgr!BlockIndex
      BY DEF Mgr!BlockIndex, Index
    <3> QED
      BY <3>1, <3>2 DEF Mgr!ServeNext, Mgr!Frame
  <2> QED
    BY <1>2, <2>1, <2>2 DEF NodeReceives
<1>3. CASE NodeReads
  <2>1. PICK ok \in BOOLEAN : Res!RunHandler("rx", ok, NumBlocks, Len(readFor) + 1)
    BY <1>3 DEF NodeReads
  <2>2. Mgr!RunHandler("rx", ok, NumBlocks, Len(readFor) + 1)
    BY <2>1 DEF Res!RunHandler, Res!Reply, Res!Resting,
       Mgr!RunHandler, Mgr!Reply, Mgr!Resting
  <2>3. Len(readFor) + 1 \in Versions /\ NumBlocks \in 0 .. NumBlocks
    BY <1>3, TransferAssumption DEF NodeReads, Versions
  <2> QED
    BY <2>2, <2>3 DEF Mgr!ServeNext, Mgr!ThreadStep
<1>4. CASE NodeStores
  <2>1. Mgr!Store("rx")
    BY <1>4 DEF NodeStores, Res!Store, Res!Reply, Res!Resting,
       Mgr!Store, Mgr!Reply, Mgr!Resting
  <2> QED
    BY <2>1 DEF Mgr!ServeNext, Mgr!ThreadStep
<1>5. CASE NodeSends
  <2>1. Mgr!SendReply("rx") \/ Mgr!SendTransfer("rx")
    BY <1>5 DEF NodeSends, Res!SendReply, Res!SendTransfer, Res!Resting, Res!Min,
       Mgr!SendReply, Mgr!SendTransfer, Mgr!Resting, Mgr!Min
  <2> QED
    BY <2>1 DEF Mgr!ServeNext, Mgr!ThreadStep
<1> QED
  BY <1>1, <1>2, <1>3, <1>4, <1>5
  DEF Next, Caller, Node, Begin, CallerSends, CallerWakes, CallerTimesOut,
      AppReceives, BusLoses, Rest, vars

LEMMA TypesInit == Init => Types
<1> SUFFICES ASSUME Init PROVE Types
  OBVIOUS
<1>1. Mgr!TInv
  BY InitHalves, HalvesConstants, Mgr!TypeInit
<1>2. Mgr!ServeInv
  BY InitHalves, HalvesConstants, Mgr!ServingInit
<1>3. toNode \in Seq(Requests) /\ toApp \in Seq(Answers) /\ readFor \in Seq(0 .. MaxCalls)
  BY EmptySeq DEF Init
<1>4. Len(readFor) <= MaxReads /\ 0 \in 0 .. MaxLoss /\ 0 \in 0 .. MaxDup
  BY TransferAssumption, EmptySeq DEF Init
<1> QED
  BY <1>1, <1>2, <1>3, <1>4 DEF Init, Types

(* A set of numbers has a least element, which Min gives.                  *)
LEMMA LeastElement ==
  ASSUME NEW S \in SUBSET Nat, S # {}
  PROVE  Min(S) \in S
<1> DEFINE R == StrictSubsetOrdering(Nat)
           T == {0 .. i : i \in S}
<1>1. PICK X \in T : \A Y \in T : ~ (<<Y, X>> \in R)
  <2>1. T \subseteq FiniteSubsetsOf(Nat) /\ T # {}
    <3>1. \A i \in S : 0 .. i \in SUBSET Nat /\ IsFiniteSet(0 .. i)
      BY FS_Interval
    <3> QED
      BY <3>1 DEF FiniteSubsetsOf
  <2>2. IsWellFoundedOn(R, FiniteSubsetsOf(Nat))
    BY FS_StrictSubsetOrderingWellFounded
  <2> HIDE DEF R, T
  <2> QED
    BY <2>1, <2>2, WFMin
<1>2. PICK x \in S : X = 0 .. x
  OBVIOUS
<1>3. ASSUME NEW y \in S PROVE x <= y
  <2>1. CASE y < x
    <3>1. 0 .. y \in SUBSET Nat /\ 0 .. x \in SUBSET Nat
      OBVIOUS
    <3>2. 0 .. y \subseteq 0 .. x /\ x \in 0 .. x /\ x \notin 0 .. y
      BY <2>1
    <3>3. <<0 .. y, 0 .. x>> \in R
      BY <3>1, <3>2 DEF StrictSubsetOrdering
    <3> QED
      BY <1>1, <1>2, <3>3
  <2> QED
    BY <2>1
<1> QED
  BY <1>3 DEF Min

LEMMA ThreadType ==
  ASSUME Mgr!ServeInv
  PROVE  /\ rx \in [{"rx"} -> Res!Thread] /\ sessions \in [{"app"} -> Res!Session]
         /\ session.exists <=> session.content # 0
         /\ session \in Res!Session /\ thread \in Res!Thread
         /\ thread.pc \in {"store", "transfers"} => thread.content \in Versions
         /\ thread.peer = "app" /\ thread.todo \in SUBSET Index
         /\ thread.pc = "transfers" => thread.todo # {} /\ Min(thread.todo) \in thread.todo
<1>1. /\ rx \in [{"rx"} -> Res!Thread] /\ sessions \in [{"app"} -> Res!Session]
      /\ session.exists <=> session.content # 0
  BY DEF Mgr!ServeInv, Mgr!ServeTypeOK, Mgr!Thread, Res!Thread, Mgr!Session,
     Res!Session, Mgr!BlockIndex, Res!BlockIndex, session
<1>2. session \in Res!Session /\ thread \in Res!Thread
  BY <1>1 DEF session, thread
<1>3. thread.peer = "app" /\ thread.todo \in SUBSET Index
  BY <1>2 DEF Res!Thread, Res!BlockIndex, Index
<1>4. thread.pc \in {"store", "transfers"} => thread.content \in Versions
  BY DEF Mgr!ServeInv, Mgr!ServingInv, thread
<1>5. thread.pc = "transfers" => thread.todo # {}
  BY DEF Mgr!ServeInv, Mgr!ServeTypeOK, thread
<1>6. Index \subseteq Nat
  BY DEF Index
<1> QED
  BY <1>1, <1>2, <1>3, <1>4, <1>5, <1>6, LeastElement

LEMMA ToNodeType ==
  ASSUME Types, [Next]_vars
  PROVE  toNode' \in Seq(Requests) /\ lost' \in 0 .. MaxLoss
<1> USE DEF Types
<1>1. CASE UNCHANGED <<toNode, lost>>
  BY <1>1
<1>2. CASE CallerSends
  <2>1. PICK f \in Requests : toNode' \in {toNode, Append(toNode, f)}
    BY <1>2 DEF CallerSends, Requests
  <2>2. Append(toNode, f) \in Seq(Requests)
    BY AppendProperties
  <2>3. lost' \in 0 .. MaxLoss
    BY <1>2, TransferAssumption DEF CallerSends
  <2> QED
    BY <2>1, <2>2, <2>3
<1>3. CASE NodeReceives
  <2>1. toNode' \in {toNode, Tail(toNode)} /\ toNode # <<>>
    BY <1>3 DEF NodeReceives, Receive
  <2> QED
    BY <1>3, <2>1, HeadTailProperties DEF NodeReceives
<1>4. CASE BusLoses
  <2>1. toNode' = toNode \/ (toNode # <<>> /\ toNode' = Tail(toNode))
    BY <1>4 DEF BusLoses
  <2>2. toNode' \in Seq(Requests)
    BY <2>1, HeadTailProperties
  <2>3. lost' \in 0 .. MaxLoss
    BY <1>4, TransferAssumption DEF BusLoses
  <2> QED
    BY <2>2, <2>3
<1> QED
  BY <1>1, <1>2, <1>3, <1>4
  DEF Next, Caller, Node, Register, Begin, CallerWakes, CallerTimesOut, AppReceives,
      NodeReads, NodeStores, NodeSends, Rest, vars, busVars

LEMMA ToAppType ==
  ASSUME Types, [Next]_vars
  PROVE  toApp' \in Seq(Answers) /\ duplicated' \in 0 .. MaxDup
<1> USE DEF Types
<1>1. CASE UNCHANGED <<toApp, duplicated>>
  BY <1>1
<1>2. CASE NodeSends
  <2>1. CASE toApp' = Append(toApp, Answer(thread.out, 0, 0))
    <3>1. thread.out \in {"ack", "nack"} /\ 0 \in Index
      BY ThreadType, TransferAssumption DEF Res!Thread, Index
    <3>2. Answer(thread.out, 0, 0) \in Answers
      BY <3>1 DEF Answers, Answer
    <3> QED
      BY <1>2, <2>1, <3>2, AppendProperties DEF NodeSends, busVars
  <2>2. CASE /\ thread.pc = "transfers"
             /\ toApp' = Append(toApp, Answer("transfer", Min(thread.todo), thread.content))
    <3>1. Min(thread.todo) \in Index /\ thread.content \in Versions
      BY <2>2, ThreadType
    <3>2. Answer("transfer", Min(thread.todo), thread.content) \in Answers
      BY <3>1 DEF Answers, Answer
    <3> QED
      BY <1>2, <2>2, <3>2, AppendProperties DEF NodeSends, busVars
  <2> QED
    BY <1>2, <2>1, <2>2 DEF NodeSends, thread, Res!SendTransfer
<1>3. CASE AppReceives
  <2>1. toApp' \in {toApp, Tail(toApp)} /\ toApp # <<>>
    BY <1>3 DEF AppReceives, Receive
  <2>2. duplicated' \in 0 .. MaxDup
    BY <1>3, TransferAssumption DEF AppReceives, Receive
  <2> QED
    BY <2>1, <2>2, HeadTailProperties
<1>4. CASE BusLoses
  <2>1. toApp' = toApp \/ (toApp # <<>> /\ toApp' = Tail(toApp))
    BY <1>4 DEF BusLoses
  <2> QED
    BY <1>4, <2>1, HeadTailProperties DEF BusLoses
<1>5. CASE NodeReceives
  BY <1>5, TransferAssumption DEF NodeReceives, Receive
<1> QED
  BY <1>1, <1>2, <1>3, <1>4, <1>5
  DEF Next, Caller, Node, Register, Begin, CallerSends, CallerWakes, CallerTimesOut,
      NodeReads, NodeStores, Rest, vars, busVars

LEMMA ReadsType ==
  ASSUME Types, [Next]_vars
  PROVE  readFor' \in Seq(0 .. MaxCalls) /\ Len(readFor') <= MaxReads
<1> USE DEF Types
<1>1. CASE UNCHANGED readFor
  BY <1>1
<1>2. CASE NodeReads
  <2>1. PICK k \in 0 .. MaxCalls : readFor' = Append(readFor, k)
    <3>1. 0 \in 0 .. MaxCalls
      BY TransferAssumption
    <3> QED
      BY <1>2, <3>1, CurrentType DEF NodeReads
  <2>2. Len(readFor) \in Nat /\ Len(readFor) < MaxReads
    BY <1>2, LenProperties DEF NodeReads
  <2> QED
    BY <2>1, <2>2, AppendProperties, TransferAssumption
<1> QED
  BY <1>1, <1>2
  DEF Next, Caller, Node, Register, Begin, CallerSends, CallerWakes, CallerTimesOut,
      AppReceives, NodeReceives, NodeStores, NodeSends, BusLoses, Rest, vars

LEMMA ResultType ==
  ASSUME Types, [Next]_vars
  PROVE  /\ result' \in [Calls -> {"unused", "open", "ok", "failed"}]
         /\ excused' \in BOOLEAN
<1> USE DEF Types
<1>1. CASE UNCHANGED result
  <2>1. excused' \in BOOLEAN
    BY <1>1 DEF Next, Caller, Node, Register, Begin, CallerSends, CallerWakes,
       CallerTimesOut, AppReceives, NodeReceives, NodeReads, NodeStores, NodeSends,
       BusLoses, Rest, vars, busVars
  <2> QED
    BY <1>1, <2>1
<1>2. ASSUME NEW k \in Calls, Begin(k)
      PROVE  /\ excused' \in BOOLEAN
             /\ result' \in [Calls -> {"unused", "open", "ok", "failed"}]
  BY <1>2 DEF Begin, busVars
<1>3. CASE CallerSends \/ CallerWakes \/ CallerTimesOut
  <2>1. Returns
    BY <1>3 DEF CallerSends, CallerWakes, CallerTimesOut
  <2>2. result' \in [Calls -> {"unused", "open", "ok", "failed"}]
    BY <2>1 DEF Returns
  <2>3. excused' \in BOOLEAN
    BY <1>3 DEF CallerSends, CallerWakes, CallerTimesOut, busVars
  <2> QED
    BY <2>1, <2>2, <2>3
<1> QED
  BY <1>1, <1>2, <1>3
  DEF Next, Caller, Node, Register, AppReceives, NodeReceives, NodeReads, NodeStores,
      NodeSends, BusLoses, Rest, vars, busVars

LEMMA TypesNext == Types /\ [Next]_vars => Types'
<1> SUFFICES ASSUME Types, [Next]_vars PROVE Types'
  OBVIOUS
<1>1. Mgr!TInv'
  BY CallerSteps, Mgr!TypeNext, HalvesConstants DEF Types
<1>2. Mgr!ServeInv'
  <2>1. Len(readFor) \in Nat
    BY LenProperties DEF Types
  <2> QED
    BY <2>1, ServerSteps, HalvesConstants, Mgr!ServingNext DEF Types
<1> QED
  BY <1>1, <1>2, ToNodeType, ToAppType, ReadsType, ResultType DEF Types

LEMMA TypesHold == Spec => []Types
  BY TypesInit, TypesNext, PTL DEF Spec

(* The composition keeps to its types, and so does each half in it.        *)
THEOREM TypeCorrect == Spec => []TypeOK
<1>1. Types => TypeOK
  <2> SUFFICES ASSUME Types PROVE TypeOK
    OBVIOUS
  <2>1. Ini!TypeOK
    BY SameAssembly DEF Types, Mgr!TInv, Mgr!TypeOK, Ini!TypeOK, Mgr!PendingState,
       Ini!PendingState, Mgr!PC, Ini!PC, Mgr!Address, Ini!Address, Mgr!Index,
       Ini!Index, Mgr!Block, Ini!Block, Mgr!Cached, Ini!Cached
  <2>2. Res!ServeTypeOK
    BY DEF Types, Mgr!ServeInv, Mgr!ServeTypeOK, Res!ServeTypeOK, Mgr!Session,
       Res!Session, Mgr!Thread, Res!Thread, Mgr!BlockIndex, Res!BlockIndex
  <2> QED
    BY <2>1, <2>2 DEF Types, TypeOK
<1> QED
  BY <1>1, TypesHold, PTL

(* Joined by the bus, each half still behaves as its own specification     *)
(* says: no frame the other sends is one that it does not allow for.       *)
THEOREM HalvesKeepTheirSpecs == Spec => Mgr!Spec /\ Mgr!ServeSpec
<1>1. Init => Mgr!Init /\ Mgr!ServeInit
  BY InitHalves
<1>2. Types /\ [Next]_vars => [Mgr!Next]_(Mgr!vars) /\ [Mgr!ServeNext]_(Mgr!serveVars)
  BY CallerSteps, ServerSteps DEF Types
<1> QED
  BY <1>1, <1>2, TypesHold, PTL DEF Spec, Mgr!Spec, Mgr!ServeSpec

(* So the theorems about the caller hold of it here.                       *)
LEMMA CallerHolds == Spec => []Mgr!IInv
  BY HalvesKeepTheirSpecs, HalvesConstants, Mgr!Invariance, PTL

----------------------------------------------------------------------------
(* Channels                                                                *)

LEMMA HeadLeaves ==
  ASSUME NEW X, NEW q \in Seq(X), q # <<>>
  PROVE  /\ Head(q) \in X /\ Tail(q) \in Seq(X)
         /\ Carried(q) = {Head(q)} \cup Carried(Tail(q))
<1>1. Head(q) \in X /\ Tail(q) \in Seq(X) /\ Len(q) \in Nat \ {0}
  BY HeadTailProperties, EmptySeq, LenProperties
<1>2. /\ Head(q) = q[1] /\ DOMAIN q = 1 .. Len(q)
      /\ DOMAIN Tail(q) = 1 .. Len(q) - 1
      /\ \A i \in 1 .. Len(q) - 1 : Tail(q)[i] = q[i + 1]
  BY <1>1, HeadTailProperties, LenProperties
<1>3. \A i \in 1 .. Len(q) : i = 1 \/ (i - 1 \in 1 .. Len(q) - 1 /\ q[i] = Tail(q)[i - 1])
  BY <1>1, <1>2
<1>4. \A i \in 1 .. Len(q) - 1 : i + 1 \in 1 .. Len(q)
  BY <1>1
<1>5. /\ Carried(q) = {q[i] : i \in 1 .. Len(q)}
      /\ Carried(Tail(q)) = {Tail(q)[i] : i \in 1 .. Len(q) - 1}
  BY <1>2 DEF Carried
<1>6. ASSUME NEW x PROVE x \in Carried(q) <=> x = q[1] \/ x \in Carried(Tail(q))
  <2>1. 1 \in 1 .. Len(q)
    BY <1>1
  <2> QED
    BY <1>2, <1>3, <1>4, <1>5, <2>1
<1> QED
  BY <1>1, <1>2, <1>6

LEMMA LastJoins ==
  ASSUME NEW X, NEW q \in Seq(X), NEW x \in X
  PROVE  Append(q, x) \in Seq(X) /\ Carried(Append(q, x)) = Carried(q) \cup {x}
<1>1. Append(q, x) \in Seq(X) /\ Len(q) \in Nat /\ DOMAIN q = 1 .. Len(q)
  BY AppendProperties, LenProperties
<1>2. /\ DOMAIN Append(q, x) = 1 .. Len(q) + 1
      /\ \A i \in 1 .. Len(q) : Append(q, x)[i] = q[i]
      /\ Append(q, x)[Len(q) + 1] = x
  BY AppendProperties, LenProperties
<1>3. 1 .. Len(q) + 1 = (1 .. Len(q)) \cup {Len(q) + 1}
  BY <1>1
<1> QED
  BY <1>1, <1>2, <1>3 DEF Carried

LEMMA OrderOfTail ==
  ASSUME NEW q \in Seq(Requests), q # <<>>, InOrder(q)
  PROVE  InOrder(Tail(q)) /\ (Head(q) = "start" => "request" \notin Carried(q))
<1>1. Len(q) \in Nat \ {0}
  BY EmptySeq, LenProperties
<1>2. /\ Head(q) = q[1] /\ DOMAIN q = 1 .. Len(q)
      /\ DOMAIN Tail(q) = 1 .. Len(q) - 1
      /\ \A i \in 1 .. Len(q) - 1 : Tail(q)[i] = q[i + 1]
  BY <1>1, HeadTailProperties, LenProperties
<1>3. InOrder(Tail(q))
  BY <1>1, <1>2 DEF InOrder
<1>4. ASSUME Head(q) = "start", NEW i \in 1 .. Len(q) PROVE q[i] # "request"
  BY <1>1, <1>2, <1>4 DEF InOrder
<1> QED
  BY <1>2, <1>3, <1>4 DEF Carried

LEMMA OrderOfAppend ==
  ASSUME NEW q \in Seq(Requests), InOrder(q), NEW x \in Requests,
         x = "request" => "start" \notin Carried(q)
  PROVE  InOrder(Append(q, x))
<1>1. Len(q) \in Nat /\ DOMAIN q = 1 .. Len(q)
  BY LenProperties
<1>2. /\ DOMAIN Append(q, x) = 1 .. Len(q) + 1
      /\ \A i \in 1 .. Len(q) : Append(q, x)[i] = q[i]
      /\ Append(q, x)[Len(q) + 1] = x
  BY <1>1, AppendProperties, LenProperties
<1>3. \A i \in 1 .. Len(q) : ~(q[i] = "start" /\ x = "request")
  BY <1>1 DEF Carried
<1> QED
  BY <1>1, <1>2, <1>3 DEF InOrder

LEMMA BlocksOfTail ==
  ASSUME NEW q \in Seq(Answers), q # <<>>, BlocksLast(q)
  PROVE  /\ BlocksLast(Tail(q))
         /\ Head(q).type = "transfer" => \A f \in Carried(q) : f.type = "transfer"
<1>1. Len(q) \in Nat \ {0}
  BY EmptySeq, LenProperties
<1>2. /\ Head(q) = q[1] /\ DOMAIN q = 1 .. Len(q)
      /\ DOMAIN Tail(q) = 1 .. Len(q) - 1
      /\ \A i \in 1 .. Len(q) - 1 : Tail(q)[i] = q[i + 1]
  BY <1>1, HeadTailProperties, LenProperties
<1>3. BlocksLast(Tail(q))
  BY <1>1, <1>2 DEF BlocksLast
<1>4. ASSUME Head(q).type = "transfer", NEW i \in 1 .. Len(q) PROVE q[i].type = "transfer"
  BY <1>1, <1>2, <1>4 DEF BlocksLast
<1> QED
  BY <1>2, <1>3, <1>4 DEF Carried

LEMMA BlocksOfAppend ==
  ASSUME NEW q \in Seq(Answers), BlocksLast(q), NEW x \in Answers,
         x.type # "transfer" => \A f \in Carried(q) : f.type # "transfer"
  PROVE  BlocksLast(Append(q, x))
<1>1. Len(q) \in Nat /\ DOMAIN q = 1 .. Len(q)
  BY LenProperties
<1>2. /\ DOMAIN Append(q, x) = 1 .. Len(q) + 1
      /\ \A i \in 1 .. Len(q) : Append(q, x)[i] = q[i]
      /\ Append(q, x)[Len(q) + 1] = x
  BY <1>1, AppendProperties, LenProperties
<1>3. \A i \in 1 .. Len(q) : ~(q[i].type = "transfer" /\ x.type # "transfer")
  BY <1>1 DEF Carried
<1> QED
  BY <1>1, <1>2, <1>3 DEF BlocksLast

LEMMA QuietIsSilent == Types => (Quiet <=> Silent)
<1> SUFFICES ASSUME Types PROVE Quiet <=> Silent
  OBVIOUS
<1>1. ToNode = {} <=> toNode = <<>>
  BY HeadLeaves DEF ToNode, Types, Carried
<1>2. ToApp = {} <=> toApp = <<>>
  BY HeadLeaves DEF ToApp, Types, Carried
<1> QED
  BY <1>1, <1>2 DEF Quiet, Silent, thread

----------------------------------------------------------------------------
(* What the steps do                                                       *)

(* The record, as the proofs about the caller tell of it.                  *)
LEMMA CallerFacts ==
  ASSUME Mgr!IInv
  PROVE  /\ call \in [{"app"} -> [pc : Ini!PC, to : Ini!Address, success : BOOLEAN]]
         /\ pending \in Ini!PendingState
         /\ pending.received \in SUBSET Index
         /\ ~InCall => pending = Ini!NoPending
         /\ InCall => pending.peer = caller.to
         /\ pending.waitingTransfers <=> Gathering
         /\ pending.waitingTransfers => pending.acked
         /\ pending.received # {} => Gathering
         /\ pending.ok => pending.done /\ pending.received = Index
<1>1. /\ call \in [{"app"} -> [pc : Ini!PC, to : Ini!Address, success : BOOLEAN]]
      /\ pending \in Ini!PendingState /\ pending.received \in SUBSET Index
      /\ pending.waitingTransfers => pending.acked
      /\ pending.received # {} => pending.waitingTransfers
      /\ pending.ok => pending.done /\ pending.received = Index
  BY DEF Mgr!IInv, Mgr!TInv, Mgr!TypeOK, Mgr!PC, Ini!PC, Mgr!Address, Ini!Address,
     Mgr!PendingState, Ini!PendingState, Mgr!Index, Ini!Index, Mgr!Block, Ini!Block, Index
<1>2. /\ InCall => pending.peer = caller.to /\ (pending.waitingTransfers <=> Gathering)
      /\ ~InCall => pending = Mgr!NoPending /\ ~Gathering
  BY DEF Mgr!IInv, Mgr!Unowned, Mgr!CallInv, Mgr!Ownership, Mgr!InCall,
     Mgr!Gathering, InCall, Gathering, caller
<1>3. Mgr!NoPending = Ini!NoPending
  BY DEF Mgr!NoPending, Ini!NoPending, Mgr!NoBlocks, Ini!NoBlocks, Mgr!Index, Ini!Index
<1> QED
  BY <1>1, <1>2, <1>3 DEF Ini!NoPending

(* Inside getBlock(): the call goes on, or returns.                        *)
Asks ==
    /\ caller.pc = "request" /\ caller'.pc = "awaitAck"
    /\ pending' = pending /\ toNode' = Append(toNode, "request")
Goes ==
    /\ caller.pc = "awaitAck" /\ caller'.pc = "start" /\ pending.acked /\ ~pending.done
    /\ pending'.acked /\ ~pending'.done /\ ~pending'.ok /\ pending'.received = {}
    /\ toNode' = toNode
Starts ==
    /\ caller.pc = "start" /\ caller'.pc = "awaitBlocks"
    /\ pending' = pending /\ toNode' = Append(toNode, "start")
Back ==
    /\ InCall /\ caller'.pc = "idle"
    /\ pending' = Ini!NoPending /\ toNode' = toNode
    /\ caller'.success <=> caller.pc = "awaitBlocks" /\ pending.ok

Moves == CallerSends \/ CallerWakes \/ CallerTimesOut

LEMMA CallerStepCases ==
  ASSUME Mgr!IInv, Moves
  PROVE  /\ Asks \/ Goes \/ Starts \/ Back
         /\ InCall /\ caller'.to = caller.to /\ lastData' = lastData /\ Returns
         /\ UNCHANGED <<resVars, toApp, readFor>>
<1>0. /\ call \in [{"app"} -> [pc : Ini!PC, to : Ini!Address, success : BOOLEAN]]
      /\ pending \in Ini!PendingState
      /\ pending.ok => pending.done
  BY CallerFacts
<1>1. Returns /\ UNCHANGED <<resVars, toApp, readFor>>
  BY DEF Moves, CallerSends, CallerWakes, CallerTimesOut
<1>2. ASSUME NEW s \in BOOLEAN, Ini!Return("app", s)
      PROVE  /\ caller'.pc = "idle" /\ caller'.to = caller.to /\ caller'.success = s
             /\ pending' = Ini!NoPending /\ lastData' = lastData
  BY <1>0, <1>2 DEF Ini!Return, caller
<1>3. ASSUME NEW pc, Ini!Goto("app", pc)
      PROVE  caller'.pc = pc /\ caller'.to = caller.to
  BY <1>0, <1>3 DEF Ini!Goto, caller
<1>4. CASE CallerSends
  <2>1. PICK ok \in BOOLEAN :
          \/ /\ Ini!SendRequest("app", ok)
             /\ toNode' = IF ok THEN Append(toNode, "request") ELSE toNode
          \/ /\ Ini!SendStart("app", ok)
             /\ toNode' = IF ok THEN Append(toNode, "start") ELSE toNode
    BY <1>4 DEF CallerSends
  <2>2. CASE ok
    BY <1>1, <1>3, <2>1, <2>2
    DEF Ini!SendRequest, Ini!SendStart, Asks, Starts, InCall, caller
  <2>3. CASE ~ok
    <3>1. Ini!Return("app", FALSE) /\ caller.pc \in {"request", "start"} /\ toNode' = toNode
      BY <2>1, <2>3 DEF Ini!SendRequest, Ini!SendStart, caller
    <3> QED
      BY <1>1, <1>2, <3>1 DEF Back, InCall
  <2> QED
    BY <2>2, <2>3
<1>5. CASE Ini!WakeOnAck("app") /\ ~pending.done /\ toNode' = toNode
  <2>1. /\ caller.pc = "awaitAck" /\ pending.acked /\ Ini!Goto("app", "start")
        /\ pending' = [pending EXCEPT !.waitingTransfers = TRUE,
                         !.blocks = Ini!NoBlocks, !.received = {}]
        /\ lastData' = lastData
    BY <1>5 DEF Ini!WakeOnAck, Ini!AckArrived, caller
  <2>2. /\ pending'.acked = pending.acked /\ pending'.done = pending.done
        /\ pending'.ok = pending.ok /\ pending'.received = {}
    BY <1>0, <2>1 DEF Ini!PendingState
  <2> QED
    BY <1>0, <1>1, <1>3, <1>5, <2>1, <2>2 DEF Goes, InCall
<1>6. CASE \/ Ini!WakeOnAck("app") /\ pending.done /\ toNode' = toNode
           \/ Ini!AckTimeout("app") /\ toNode' = toNode
  <2>1. Ini!Return("app", FALSE) /\ caller.pc = "awaitAck"
    BY <1>6 DEF Ini!WakeOnAck, Ini!AckTimeout, caller
  <2> QED
    BY <1>1, <1>2, <1>6, <2>1 DEF Back, InCall
<1>7. CASE Ini!WakeOnDone("app") /\ toNode' = toNode
  <2>1. Ini!Return("app", pending.ok) /\ caller.pc = "awaitBlocks"
    BY <1>7 DEF Ini!WakeOnDone, caller
  <2>2. pending.ok \in BOOLEAN
    BY <1>0 DEF Ini!PendingState
  <2> QED
    BY <1>1, <1>2, <1>7, <2>1, <2>2 DEF Back, InCall
<1>8. CASE Ini!BlocksTimeout("app") /\ toNode' = toNode
  <2>1. Ini!Return("app", FALSE) /\ caller.pc = "awaitBlocks" /\ ~pending.ok
    BY <1>0, <1>8 DEF Ini!BlocksTimeout, caller
  <2> QED
    BY <1>1, <1>2, <1>8, <2>1 DEF Back, InCall
<1> QED
  BY <1>4, <1>5, <1>6, <1>7, <1>8 DEF Moves, CallerWakes, CallerTimesOut

(* What the caller makes of an answer f.                                   *)
HearsAck(f) ==
    /\ f.type = "ack" /\ lastData' = lastData
    /\ pending'.done = pending.done /\ pending'.ok = pending.ok
    /\ pending'.received = pending.received /\ pending'.blocks = pending.blocks
    /\ pending.waitingAck \/ pending.acked => pending'.acked
HearsNack(f) ==
    /\ f.type = "nack" /\ lastData' = lastData
    /\ pending'.acked = pending.acked /\ pending'.waitingAck = pending.waitingAck
    /\ pending'.received = pending.received /\ pending'.blocks = pending.blocks
    /\ pending' = pending \/ ~pending'.ok
HearsBlock(f) ==
    /\ f.type = "transfer"
    /\ pending'.acked = pending.acked
    /\ IF Gathering
       THEN LET blocks == [pending.blocks EXCEPT ![f.seq] = f.data] IN
            /\ pending'.received = pending.received \cup {f.seq}
            /\ pending'.blocks = blocks
            /\ pending'.done = (pending.done \/ pending'.received = Index)
            /\ pending'.ok = (pending.ok \/ pending'.received = Index)
            /\ lastData' = IF pending'.received = Index THEN Ini!Assemble(blocks) ELSE lastData
       ELSE pending' = pending /\ lastData' = lastData

LEMMA AppStepCases ==
  ASSUME Types, Mgr!IInv, CallsInv, AppReceives
  PROVE  /\ UNCHANGED <<call, resVars, toNode, result, readFor, lost, excused>>
         /\ toApp # <<>> /\ toApp' \in {toApp, Tail(toApp)} /\ Head(toApp) \in Answers
         /\ \/ HearsAck(Head(toApp)) \/ HearsNack(Head(toApp)) \/ HearsBlock(Head(toApp))
<1> DEFINE f == Head(toApp)
<1>0. /\ pending \in Ini!PendingState
      /\ pending.waitingTransfers <=> Gathering
      /\ InCall => pending.peer = "node"
      /\ InCall \/ ~pending.waitingAck
  <2>1. ~Ini!NoPending.waitingAck
    BY DEF Ini!NoPending
  <2> QED
    BY <2>1, CallerFacts DEF CallsInv
<1>1. toApp # <<>> /\ toApp' \in {toApp, Tail(toApp)} /\ f \in Answers
  BY HeadLeaves DEF AppReceives, Receive, Types
<1>2. UNCHANGED <<call, resVars, toNode, result, readFor, lost, excused>>
  BY DEF AppReceives, Ini!OnAck, Ini!OnNack, Ini!OnTransfer
<1>3. CASE f.type = "ack" /\ Ini!OnAck("node")
  <2>1. /\ lastData' = lastData
        /\ pending' = IF pending.waitingAck /\ pending.peer = "node"
                      THEN [pending EXCEPT !.acked = TRUE, !.waitingAck = FALSE]
                      ELSE pending
    BY <1>3 DEF Ini!OnAck
  <2> QED
    BY <1>0, <1>1, <1>2, <1>3, <2>1 DEF HearsAck, Ini!PendingState
<1>4. CASE f.type = "nack" /\ Ini!OnNack("node")
  <2>1. /\ lastData' = lastData
        /\ pending' \in {pending, [pending EXCEPT !.done = TRUE, !.ok = FALSE]}
    BY <1>4 DEF Ini!OnNack
  <2> QED
    BY <1>0, <1>1, <1>2, <1>4, <2>1 DEF HearsNack, Ini!PendingState
<1>5. CASE f.type = "transfer" /\ Ini!OnTransfer("node", f.seq, f.data)
  <2>1. f.seq \in Ini!Index /\ Ini!Index = Index
    BY <1>1 DEF Answers, Ini!Index, Index
  <2>2. CASE Gathering
    <3> DEFINE blocks   == [pending.blocks EXCEPT ![f.seq] = f.data]
               received == pending.received \cup {f.seq}
    <3>1. pending.waitingTransfers /\ pending.peer = "node"
      BY <1>0, <2>2 DEF Gathering, InCall
    <3>2. /\ pending' = [pending EXCEPT !.blocks = blocks, !.received = received,
                                        !.done = @ \/ received = Index,
                                        !.ok = @ \/ received = Index]
          /\ lastData' = IF received = Index THEN Ini!Assemble(blocks) ELSE lastData
      BY <1>5, <2>1, <3>1 DEF Ini!OnTransfer
    <3>3. /\ pending'.received = received /\ pending'.blocks = blocks
          /\ pending'.acked = pending.acked
      BY <1>0, <3>2 DEF Ini!PendingState
    <3>4. /\ pending'.done = (pending.done \/ received = Index)
          /\ pending'.ok = (pending.ok \/ received = Index)
      BY <1>0, <3>2, Zenon DEF Ini!PendingState
    <3> QED
      BY <1>1, <1>2, <1>5, <2>2, <3>2, <3>3, <3>4 DEF HearsBlock
  <2>3. CASE ~Gathering
    <3>1. pending' = pending /\ lastData' = lastData
      BY <1>0, <1>5, <2>3 DEF Ini!OnTransfer
    <3> QED
      BY <1>1, <1>2, <1>5, <2>3, <3>1 DEF HearsBlock
  <2> QED
    BY <2>2, <2>3
<1> QED
  BY <1>3, <1>4, <1>5 DEF AppReceives

(* What the node makes of a frame f.                                       *)
TakesRequest(f) ==
    /\ f = "request" /\ sessions' = sessions
    /\ IF handler THEN /\ thread'.pc = "handler" /\ thread'.numBlocks = NumBlocks
                       /\ thread'.hasAddress
                  ELSE thread'.pc = "reply" /\ thread'.out = "nack"
TakesStart(f) ==
    /\ f = "start" /\ sessions' = sessions
    /\ session.exists /\ session.numBlocks = NumBlocks =>
          /\ thread'.pc = "transfers" /\ thread'.content = session.content
          /\ thread'.todo = Index
    /\ ~session.exists => thread'.pc = "reply"

LEMMA ThreadSet ==
  ASSUME Types, NEW R \in Res!Thread, rx' = [rx EXCEPT !["rx"] = R]
  PROVE  thread' = R
<1>1. rx \in [{"rx"} -> Res!Thread]
  BY ThreadType DEF Types
<1> QED
  BY <1>1 DEF thread

LEMMA NodeTakes ==
  ASSUME Types, NodeReceives
  PROVE  /\ UNCHANGED <<iniVars, toApp, result, readFor, lost, excused, handler, sessions>>
         /\ toNode # <<>> /\ toNode' \in {toNode, Tail(toNode)} /\ thread.pc = "idle"
         /\ TakesRequest(Head(toNode)) \/ TakesStart(Head(toNode))
<1> DEFINE f == Head(toNode)
<1>1. /\ UNCHANGED <<iniVars, toApp, result, readFor, lost, excused>>
      /\ toNode # <<>> /\ toNode' \in {toNode, Tail(toNode)}
  BY DEF NodeReceives, Receive
<1>2. /\ Res!Resting("app") \in Res!Thread
      /\ rx \in [{"rx"} -> Res!Thread]
      /\ session \in Res!Session
      /\ Index \in SUBSET Res!BlockIndex
  BY ThreadType, TransferAssumption DEF Types, Res!Thread, Res!Resting, Res!BlockIndex, Index
<1>3. CASE f = "request" /\ Res!OnRequest("rx", "app", NumBlocks - 1, TRUE)
  <2>1. thread.pc = "idle" /\ sessions' = sessions /\ handler' = handler
    BY <1>3 DEF Res!OnRequest, Res!Handles, thread
  <2>2. CASE handler
    <3> DEFINE R == [Res!Resting("app") EXCEPT !.pc = "handler", !.numBlocks = NumBlocks,
                       !.hasAddress = TRUE]
    <3>0. NumBlocks - 1 + 1 = NumBlocks /\ NumBlocks \in 1 .. NumBlocks
      BY TransferAssumption
    <3>1. R \in Res!Thread /\ R.pc = "handler" /\ R.numBlocks = NumBlocks /\ R.hasAddress
      <4>1. R \in Res!Thread
        BY <1>2, <3>0 DEF Res!Thread
      <4>2. R.pc = "handler" /\ R.numBlocks = NumBlocks
        BY <1>2 DEF Res!Thread
      <4>3. R.hasAddress
        BY <1>2 DEF Res!Thread
      <4> HIDE DEF R
      <4> QED
        BY <4>1, <4>2, <4>3
    <3>2. rx' = [rx EXCEPT !["rx"] = R]
      BY <1>3, <2>2, <3>0 DEF Res!OnRequest
    <3>3. thread' = R
      BY <3>1, <3>2, ThreadSet
    <3> HIDE DEF R
    <3> QED
      BY <1>1, <1>3, <2>1, <2>2, <3>1, <3>3 DEF TakesRequest
  <2>3. CASE ~handler
    <3> DEFINE R == [Res!Resting("app") EXCEPT !.pc = "reply", !.out = "nack"]
    <3>1. R \in Res!Thread /\ R.pc = "reply" /\ R.out = "nack"
      BY <1>2 DEF Res!Thread, Res!Resting
    <3>2. rx' = [rx EXCEPT !["rx"] = R]
      BY <1>3, <2>3 DEF Res!OnRequest, Res!Reply
    <3>3. thread' = R
      BY <3>1, <3>2, ThreadSet
    <3> HIDE DEF R
    <3> QED
      BY <1>1, <1>3, <2>1, <2>3, <3>1, <3>3 DEF TakesRequest
  <2> QED
    BY <2>2, <2>3
<1>4. CASE f = "start" /\ Res!OnStart("rx", "app", Index)
  <2>1. thread.pc = "idle" /\ sessions' = sessions /\ handler' = handler
    BY <1>4 DEF Res!OnStart, Res!Handles, thread
  <2>2. CASE session.exists /\ session.numBlocks = NumBlocks
    <3> DEFINE R == [Res!Resting("app") EXCEPT !.pc = "transfers", !.numBlocks = NumBlocks,
                       !.content = session.content, !.todo = Index]
    <3>1. Index \cap (0 .. NumBlocks - 1) = Index /\ Index # {}
      BY TransferAssumption DEF Index
    <3>2. /\ R \in Res!Thread /\ R.pc = "transfers" /\ R.content = session.content
          /\ R.todo = Index
      <4>1. session.content \in Versions \cup {0} /\ NumBlocks \in 1 .. NumBlocks
        BY <1>2, TransferAssumption DEF Res!Session
      <4>2. R \in Res!Thread
        BY <1>2, <4>1 DEF Res!Thread
      <4>3. R.pc = "transfers" /\ R.content = session.content /\ R.todo = Index
        BY <1>2 DEF Res!Thread
      <4> HIDE DEF R
      <4> QED
        BY <4>2, <4>3
    <3>3. rx' = [rx EXCEPT !["rx"] = R]
      BY <1>4, <2>2, <3>1 DEF Res!OnStart, session
    <3>4. thread' = R
      BY <3>2, <3>3, ThreadSet
    <3> HIDE DEF R
    <3> QED
      BY <1>1, <1>4, <2>1, <2>2, <3>2, <3>4 DEF TakesStart
  <2>3. CASE ~session.exists
    <3> DEFINE R == [Res!Resting("app") EXCEPT !.pc = "reply", !.out = "nack"]
    <3>1. R \in Res!Thread /\ R.pc = "reply"
      BY <1>2 DEF Res!Thread, Res!Resting
    <3>2. rx' = [rx EXCEPT !["rx"] = R]
      BY <1>4, <2>3 DEF Res!OnStart, Res!Reply, session
    <3>3. thread' = R
      BY <3>1, <3>2, ThreadSet
    <3> HIDE DEF R
    <3> QED
      BY <1>1, <1>4, <2>1, <2>3, <3>1, <3>3 DEF TakesStart
  <2>4. CASE session.exists /\ session.numBlocks # NumBlocks
    BY <1>1, <1>4, <2>1, <2>4 DEF TakesStart
  <2> QED
    BY <2>2, <2>3, <2>4
<1> QED
  BY <1>3, <1>4 DEF NodeReceives

(* What the node then does by itself.                                      *)
Reads ==
    /\ thread.pc = "handler" /\ sessions' = sessions /\ toApp' = toApp
    /\ readFor' = Append(readFor, IF Open = {} THEN 0 ELSE Current)
    /\ \/ /\ thread'.pc = "store" /\ thread'.content = Len(readFor) + 1
          /\ thread'.numBlocks = thread.numBlocks
          /\ excused' = excused
       \/ /\ thread'.pc = "reply" /\ thread'.out = "nack"
          /\ thread.numBlocks = NumBlocks /\ thread.hasAddress => excused'
Stores ==
    /\ thread.pc = "store" /\ toApp' = toApp /\ UNCHANGED <<readFor, excused>>
    /\ session'.exists /\ session'.numBlocks = thread.numBlocks
    /\ session'.content = thread.content
    /\ thread'.pc = "reply" /\ thread'.out = "ack"
SendsReply ==
    /\ thread.pc = "reply" /\ thread'.pc = "idle" /\ sessions' = sessions
    /\ UNCHANGED <<readFor, excused>>
    /\ toApp' = Append(toApp, Answer(thread.out, 0, 0))
SendsBlock ==
    /\ thread.pc = "transfers" /\ sessions' = sessions
    /\ UNCHANGED <<readFor, excused>>
    /\ \/ thread'.pc = "idle" /\ thread.todo = {Min(thread.todo)}
       \/ /\ thread'.pc = "transfers" /\ thread'.content = thread.content
          /\ thread'.todo = thread.todo \ {Min(thread.todo)}
    /\ toApp' = Append(toApp, Answer("transfer", Min(thread.todo), thread.content))

Works == NodeReads \/ NodeStores \/ NodeSends

LEMMA NodeStepCases ==
  ASSUME Types, Works
  PROVE  /\ Reads \/ Stores \/ SendsReply \/ SendsBlock
         /\ UNCHANGED <<iniVars, toNode, result, lost, handler>>
<1>0. /\ rx \in [{"rx"} -> Res!Thread] /\ sessions \in [{"app"} -> Res!Session]
      /\ thread \in Res!Thread
      /\ thread.peer = "app"
      /\ thread.pc = "transfers" => Min(thread.todo) \in thread.todo
      /\ thread.pc = "store" => thread.content \in Versions
      /\ Res!Resting("app") \in Res!Thread
  BY ThreadType, TransferAssumption DEF Types, Res!Thread, Res!Resting, Res!BlockIndex, Index
<1>1. UNCHANGED <<iniVars, toNode, result, lost, handler>>
  BY DEF Works, NodeReads, NodeStores, NodeSends, Res!RunHandler, Res!Store,
     Res!SendReply, Res!SendTransfer, busVars
<1>2. ASSUME NEW a \in {"ack", "nack"}, Res!Reply("rx", "app", a)
      PROVE  thread'.pc = "reply" /\ thread'.out = a
  <2> DEFINE R == [Res!Resting("app") EXCEPT !.pc = "reply", !.out = a]
  <2>1. R \in Res!Thread /\ R.pc = "reply" /\ R.out = a
    BY <1>0 DEF Res!Thread, Res!Resting
  <2>2. rx' = [rx EXCEPT !["rx"] = R]
    BY <1>2 DEF Res!Reply
  <2>3. thread' = R
    BY <2>1, <2>2, ThreadSet
  <2> HIDE DEF R
  <2> QED
    BY <2>1, <2>3
<1>3. CASE NodeReads
  <2>1. PICK ok \in BOOLEAN : /\ Res!RunHandler("rx", ok, NumBlocks, Len(readFor) + 1)
                              /\ excused' = (excused \/ ~ok)
    BY <1>3 DEF NodeReads
  <2>2. /\ thread.pc = "handler" /\ sessions' = sessions /\ toApp' = toApp
        /\ readFor' = Append(readFor, IF Open = {} THEN 0 ELSE Current)
        /\ Len(readFor) + 1 \in Versions
    <3>1. Len(readFor) \in Nat
      BY LenProperties DEF Types
    <3> QED
      BY <1>3, <2>1, <3>1, TransferAssumption DEF NodeReads, Res!RunHandler, thread, Versions
  <2>3. CASE ok /\ NumBlocks = thread.numBlocks /\ thread.hasAddress
    <3> DEFINE R == [thread EXCEPT !.pc = "store", !.content = Len(readFor) + 1]
    <3>1. R \in Res!Thread /\ R.pc = "store" /\ R.content = Len(readFor) + 1
          /\ R.numBlocks = thread.numBlocks
      BY <1>0, <2>2 DEF Res!Thread
    <3>2. rx' = [rx EXCEPT !["rx"] = R]
      BY <1>0, <2>1, <2>3 DEF Res!RunHandler, thread
    <3>3. thread' = R
      BY <3>1, <3>2, ThreadSet
    <3>4. excused' = excused
      BY <2>1, <2>3 DEF Types
    <3> HIDE DEF R
    <3> QED
      BY <1>1, <2>2, <3>1, <3>3, <3>4 DEF Reads
  <2>4. CASE ~(ok /\ NumBlocks = thread.numBlocks /\ thread.hasAddress)
    <3>1. Res!Reply("rx", "app", "nack")
      BY <1>0, <2>1, <2>4 DEF Res!RunHandler, thread
    <3>2. thread'.pc = "reply" /\ thread'.out = "nack"
      BY <1>2, <3>1
    <3>3. thread.numBlocks = NumBlocks /\ thread.hasAddress => excused'
      BY <2>1, <2>4
    <3> QED
      BY <1>1, <2>2, <3>2, <3>3 DEF Reads
  <2> QED
    BY <2>3, <2>4
<1>4. CASE NodeStores
  <2> DEFINE S == [exists |-> TRUE, numBlocks |-> thread.numBlocks,
                   content |-> thread.content]
  <2>1. /\ thread.pc = "store" /\ Res!Reply("rx", "app", "ack")
        /\ sessions' = [sessions EXCEPT !["app"] = S]
        /\ UNCHANGED <<toApp, readFor, excused>>
    BY <1>0, <1>4 DEF NodeStores, Res!Store, thread, busVars
  <2>2. session' = S
    BY <1>0, <2>1 DEF session
  <2>3. thread'.pc = "reply" /\ thread'.out = "ack"
    BY <1>2, <2>1
  <2> QED
    BY <1>1, <2>1, <2>2, <2>3 DEF Stores
<1>5. CASE Res!SendReply("rx") /\ NodeSends
  <2>1. /\ thread.pc = "reply" /\ sessions' = sessions
        /\ rx' = [rx EXCEPT !["rx"] = Res!Resting("app")]
        /\ UNCHANGED <<readFor, excused>>
        /\ toApp' = Append(toApp, Answer(thread.out, 0, 0))
    BY <1>0, <1>5 DEF NodeSends, Res!SendReply, Res!SendTransfer, thread, busVars
  <2>2. thread' = Res!Resting("app")
    BY <1>0, <2>1, ThreadSet
  <2> QED
    BY <1>1, <2>1, <2>2 DEF SendsReply, Res!Resting
<1>6. CASE Res!SendTransfer("rx") /\ NodeSends
  <2> DEFINE rest == thread.todo \ {Min(thread.todo)}
  <2>1. /\ thread.pc = "transfers" /\ sessions' = sessions
        /\ rx' = IF rest = {} THEN [rx EXCEPT !["rx"] = Res!Resting(@.peer)]
                              ELSE [rx EXCEPT !["rx"].todo = rest]
        /\ UNCHANGED <<readFor, excused>>
        /\ toApp' = Append(toApp, Answer("transfer", Min(thread.todo), thread.content))
    BY <1>6 DEF NodeSends, Res!SendReply, Res!SendTransfer, Res!Min, Min, thread, busVars
  <2>2. CASE rest = {}
    <3>1. rx' = [rx EXCEPT !["rx"] = Res!Resting("app")]
      BY <1>0, <2>1, <2>2 DEF thread
    <3>2. thread' = Res!Resting("app")
      BY <1>0, <3>1, ThreadSet
    <3>3. thread.todo = {Min(thread.todo)}
      BY <1>0, <2>1, <2>2
    <3> QED
      BY <1>1, <2>1, <3>2, <3>3 DEF SendsBlock, Res!Resting
  <2>3. CASE rest # {}
    <3> DEFINE R == [thread EXCEPT !.todo = rest]
    <3>1. /\ R \in Res!Thread /\ R.pc = thread.pc /\ R.content = thread.content
          /\ R.todo = rest
      BY <1>0 DEF Res!Thread
    <3>2. rx' = [rx EXCEPT !["rx"] = R]
      BY <1>0, <2>1, <2>3 DEF thread
    <3>3. thread' = R
      BY <3>1, <3>2, ThreadSet
    <3> HIDE DEF R
    <3> QED
      BY <1>1, <2>1, <3>1, <3>3 DEF SendsBlock
  <2> QED
    BY <2>2, <2>3
<1> QED
  BY <1>3, <1>4, <1>5, <1>6 DEF Works, NodeSends

----------------------------------------------------------------------------
(* The calls                                                               *)

(* The handler is registered, or nothing happens.                          *)
Idle ==
    /\ UNCHANGED <<iniVars, sessions, rx, toNode, toApp, result, readFor, busVars>>
    /\ handler => handler'

LEMMA StepCases ==
  ASSUME [Next]_vars
  PROVE  \/ Idle
         \/ \E k \in Calls : Begin(k)
         \/ Moves
         \/ AppReceives
         \/ NodeReceives
         \/ Works
         \/ BusLoses
  BY DEF Next, Caller, Node, Register, Rest, vars, Idle, Moves, Works, resVars,
     Res!SetHandler

LEMMA BeginCall ==
  ASSUME Types, CallsInv, NEW k \in Calls, Begin(k)
  PROVE  /\ CallsInv' /\ Current' = k /\ k = Current + 1
         /\ caller.pc = "idle" /\ caller'.pc = "request"
         /\ pending'.waitingAck /\ ~pending'.acked /\ ~pending'.done /\ ~pending'.ok
         /\ pending'.received = {}
         /\ \A j \in Calls : result[j] # "open"
         /\ result' = [result EXCEPT ![k] = "open"]
         /\ UNCHANGED <<resVars, toNode, toApp, readFor, busVars, lastData>>
<1>1. /\ k = Current + 1 /\ caller.pc = "idle" /\ handler
      /\ pending' = [Ini!NoPending EXCEPT !.waitingAck = TRUE, !.peer = "node"]
      /\ result' = [result EXCEPT ![k] = "open"]
      /\ UNCHANGED <<resVars, toNode, toApp, readFor, busVars, lastData>>
  BY DEF Begin, Ini!Begin, caller
<1>2. Current \in Nat
  BY CurrentType
<1>3. {j \in Calls : result'[j] # "unused"} = 1 .. k
  <2>1. {j \in Calls : result'[j] # "unused"} =
           {j \in Calls : result[j] # "unused"} \cup {k}
    BY <1>1 DEF CallsInv
  <2>2. 1 .. k = (1 .. Current) \cup {k}
    BY <1>1, <1>2
  <2> QED
    BY <2>1, <2>2 DEF CallsInv
<1>4. Current' = k
  <2>1. k \in Int /\ k >= 1
    BY <1>1, <1>2
  <2>2. Cardinality(1 .. k) = k
    BY <2>1, FS_Interval
  <2>3. Current' = Cardinality(1 .. k)
    BY <1>3 DEF Current
  <2> QED
    BY <2>2, <2>3
<1>5. \A j \in Calls : result[j] # "open"
  BY <1>1 DEF CallsInv, InCall
<1>6. caller'.pc = "request" /\ caller'.to = "node"
  BY DEF Begin, Ini!Begin, caller, Types, Mgr!TInv, Mgr!TypeOK
<1>7. CallsInv'
  <2>1. /\ result' \in [Calls -> {"unused", "open", "ok", "failed"}]
        /\ result'[k] = "open" /\ \A j \in Calls \ {k} : result'[j] = result[j]
    BY <1>1 DEF Types
  <2>2. handler'
    BY <1>1 DEF resVars
  <2> QED
    BY <1>3, <1>4, <1>5, <1>6, <2>1, <2>2 DEF CallsInv, InCall
<1>8. /\ pending'.waitingAck /\ ~pending'.acked /\ ~pending'.done /\ ~pending'.ok
      /\ pending'.received = {}
  BY <1>1 DEF Ini!NoPending
<1> QED
  BY <1>1, <1>4, <1>5, <1>6, <1>7, <1>8

(* Any step but the beginning of a call.                                   *)
LEMMA CallGoesOn ==
  ASSUME Types, CallsInv, handler => handler', caller'.to = caller.to,
         UNCHANGED <<call, result>> \/ (InCall /\ Returns)
  PROVE  /\ CallsInv' /\ Current' = Current
         /\ result' = IF InCall /\ ~InCall'
                      THEN [result EXCEPT ![Current] =
                                IF caller'.success THEN "ok" ELSE "failed"]
                      ELSE result
<1>1. CASE UNCHANGED <<call, result>>
  <2>1. Current' = Current
    BY <1>1 DEF Current
  <2> QED
    BY <1>1, <2>1 DEF CallsInv, caller, InCall
<1>2. CASE InCall /\ Returns
  <2>1. /\ Current \in Calls /\ result[Current] = "open"
        /\ result' = IF ~InCall'
                     THEN [result EXCEPT ![Current] =
                                IF caller'.success THEN "ok" ELSE "failed"]
                     ELSE result
    BY <1>2 DEF CallsInv, Returns, caller, InCall
  <2>2. {k \in Calls : result'[k] # "unused"} = {k \in Calls : result[k] # "unused"}
    BY <2>1 DEF CallsInv
  <2>3. Current' = Current
    BY <2>2 DEF Current
  <2>4. result' \in [Calls -> {"unused", "open", "ok", "failed"}]
    BY <2>1 DEF CallsInv
  <2>5. CallsInv'
    BY <1>2, <2>1, <2>2, <2>3, <2>4 DEF CallsInv
  <2> QED
    BY <1>2, <2>1, <2>3, <2>5
<1> QED
  BY <1>1, <1>2

(* The steps other than Begin and those of the caller leave the calls.     *)
LEMMA CallsKept ==
  ASSUME Types, CallsInv, Mgr!IInv, Idle \/ AppReceives \/ NodeReceives \/ Works \/ BusLoses
  PROVE  CallsInv' /\ UNCHANGED <<caller, Current, result>>
<1>1. UNCHANGED <<call, result>> /\ (handler => handler')
  <2>1. CASE Idle
    BY <2>1 DEF Idle, iniVars
  <2>2. CASE AppReceives
    BY <2>2, AppStepCases DEF resVars
  <2>3. CASE NodeReceives
    BY <2>3, NodeTakes DEF iniVars
  <2>4. CASE Works
    BY <2>4, NodeStepCases DEF iniVars
  <2>5. CASE BusLoses
    BY <2>5 DEF BusLoses, iniVars, resVars
  <2> QED
    BY <2>1, <2>2, <2>3, <2>4, <2>5
<1>2. caller' = caller
  BY <1>1 DEF caller
<1> QED
  BY <1>1, <1>2, CallGoesOn DEF InCall

LEMMA CallsNext ==
  ASSUME Types, CallsInv, Mgr!IInv, [Next]_vars
  PROVE  CallsInv'
<1>1. ASSUME NEW k \in Calls, Begin(k) PROVE CallsInv'
  BY <1>1, BeginCall
<1>2. CASE Moves
  <2>1. InCall /\ caller'.to = caller.to /\ Returns /\ handler' = handler
    BY <1>2, CallerStepCases DEF resVars
  <2> QED
    BY <2>1, CallGoesOn
<1> QED
  BY <1>1, <1>2, StepCases, CallsKept

----------------------------------------------------------------------------
(* The invariant                                                           *)

Between == FramesInv /\ DataInv /\ SessionInv /\ CacheInv

LEMMA ReadsFacts ==
  ASSUME Types
  PROVE  /\ Len(readFor) \in Nat /\ DOMAIN readFor = 1 .. Len(readFor)
         /\ DOMAIN readFor \subseteq Versions /\ Index # {} /\ 1 \in 1 .. NumBlocks
<1>1. Len(readFor) \in Nat /\ DOMAIN readFor = 1 .. Len(readFor)
  BY LenProperties DEF Types
<1>2. DOMAIN readFor \subseteq Versions
  <2>1. Len(readFor) <= MaxReads /\ MaxReads \in Nat
    BY TransferAssumption DEF Types
  <2> QED
    BY <1>1, <2>1 DEF Versions
<1>3. 0 \in 0 .. NumBlocks - 1 /\ 1 \in 1 .. NumBlocks
  BY TransferAssumption
<1> QED
  BY <1>1, <1>2, <1>3 DEF Index

LEMMA Filled ==
  ASSUME NEW v
  PROVE  /\ [i \in 1 .. NumBlocks |-> v] # <<>>
         /\ [i \in 1 .. NumBlocks |-> v][1] = v
<1>1. 1 \in 1 .. NumBlocks
  BY TransferAssumption
<1>2. DOMAIN <<>> = {}
  <2>1. <<>> \in Seq({}) /\ Len(<<>>) = 0
    BY EmptySeq
  <2>2. DOMAIN <<>> = 1 .. 0
    BY <2>1, LenProperties
  <2> QED
    BY <2>2
<1>3. 1 \in DOMAIN [i \in 1 .. NumBlocks |-> v] /\ [i \in 1 .. NumBlocks |-> v][1] = v
  BY <1>1, Zenon
<1> QED
  BY <1>2, <1>3

LEMMA FilledSome ==
  ASSUME NEW S, NEW f \in [1 .. NumBlocks -> S]
  PROVE  f # <<>>
<1>1. DOMAIN <<>> = {}
  <2>1. <<>> \in Seq({}) /\ Len(<<>>) = 0
    BY EmptySeq
  <2>2. DOMAIN <<>> = 1 .. 0
    BY <2>1, LenProperties
  <2> QED
    BY <2>2
<1>2. 1 \in DOMAIN f
  BY TransferAssumption
<1>3. DOMAIN f # DOMAIN <<>>
  BY <1>1, <1>2
<1> QED
  BY <1>3, Zenon

LEMMA CachedFacts ==
  ASSUME Types, CacheInv
  PROVE  /\ cached \in 0 .. Current
         /\ \A v \in DOMAIN readFor :
                lastData = [i \in 1 .. NumBlocks |-> v] => cached = readFor[v]
<1>1. ASSUME NEW v \in DOMAIN readFor, lastData = [i \in 1 .. NumBlocks |-> v]
      PROVE  cached = readFor[v]
  <2>1. lastData # <<>> /\ lastData[1] = v
    BY <1>1, Filled
  <2> QED
    BY <2>1 DEF cached
<1>2. lastData = <<>> => cached = 0
  BY DEF cached
<1>3. 0 \in 0 .. Current
  BY CurrentType
<1> QED
  BY <1>1, <1>2, <1>3 DEF CacheInv

LEMMA BeginNext ==
  ASSUME Types, CallsInv, Between, Patient, NEW k \in Calls, Begin(k)
  PROVE  Between'
<1>1. /\ Current' = k /\ k = Current + 1 /\ ~InCall /\ caller'.pc = "request"
      /\ ~pending'.acked /\ ~pending'.ok /\ pending'.received = {}
      /\ UNCHANGED <<resVars, toNode, toApp, readFor, busVars, lastData>>
  BY BeginCall DEF InCall
<1>2. Quiet
  BY QuietIsSilent DEF Begin
<1>3. UNCHANGED <<session, thread, ToNode, ToApp, cached>>
  BY <1>1 DEF resVars, session, thread, ToNode, ToApp, cached
<1>4. Quiet'
  BY <1>2, <1>3 DEF Quiet
<1>5. FramesInv'
  BY <1>1, <1>2, <1>3, <1>4 DEF Between, FramesInv, InOrder, BlocksLast, Quiet
<1>6. ~Moving' /\ ~Acked'
  BY <1>1, <1>4 DEF Moving, Acked, Quiet
<1>7. DataInv'
  BY <1>1, <1>3, <1>4, <1>6 DEF DataInv, Quiet
<1>8. SessionInv'
  BY <1>1, <1>3, <1>4, <1>6 DEF Between, SessionInv, Quiet
<1>9. CacheInv'
  <2>1. cached \in 0 .. Current /\ Current \in Nat
    BY CachedFacts, CurrentType DEF Between
  <2>2. cached' # Current' /\ 0 .. Current \subseteq 0 .. Current'
    BY <1>1, <1>3, <2>1
  <2> QED
    BY <1>1, <2>2 DEF Between, CacheInv
<1> QED
  BY <1>5, <1>7, <1>8, <1>9 DEF Between

LEMMA MovesNext ==
  ASSUME Types, CallsInv, Mgr!IInv, Between, Moves
  PROVE  Between'
<1>0. /\ Current' = Current /\ UNCHANGED <<sessions, rx, toApp, readFor, lastData>>
      /\ Asks \/ Goes \/ Starts \/ Back
      /\ InCall /\ caller'.to = caller.to /\ Returns /\ handler' = handler
      /\ Current \in Calls
  BY CallerStepCases, CallGoesOn DEF CallsInv, resVars
<1>1. UNCHANGED <<session, thread, ToApp, cached>>
  BY <1>0 DEF session, thread, ToApp, cached
<1>2. /\ pending.received # {} => Gathering
      /\ pending.ok => pending.done
      /\ Gathering => pending.acked
      /\ pending.ok => pending.received = Index
  BY CallerFacts
<1>3. CASE Asks
  <2>1. caller.pc = "request" /\ caller'.pc = "awaitAck" /\ pending' = pending /\ Quiet
        /\ toNode' = Append(toNode, "request")
    BY <1>3 DEF Asks, Between, FramesInv
  <2>2. ToNode' = {"request"} /\ InOrder(toNode)'
    <3>1. toNode \in Seq(Requests) /\ "request" \in Requests /\ Carried(toNode) = {}
      BY <2>1 DEF Types, Requests, Quiet, ToNode
    <3>2. Carried(Append(toNode, "request")) = {"request"} /\ InOrder(Append(toNode, "request"))
      BY <3>1, LastJoins, OrderOfAppend DEF Between, FramesInv
    <3> QED
      BY <2>1, <3>2 DEF ToNode
  <2>3. pending.received = {}
    BY <1>2, <2>1 DEF Gathering
  <2>4. ~Moving' /\ (Acked' <=> Acked)
    BY <1>1, <2>1, <2>3 DEF Moving, Acked, Quiet
  <2>5. FramesInv'
    BY <1>0, <1>1, <2>1, <2>2 DEF Between, FramesInv, BlocksLast
  <2>6. DataInv'
    BY <1>1, <2>1, <2>2, <2>3, <2>4 DEF DataInv, Quiet
  <2>7. SessionInv'
    BY <1>0, <1>1, <2>1, <2>4 DEF Between, SessionInv, InCall
  <2>8. CacheInv'
    BY <1>0, <1>1, <2>1 DEF Between, CacheInv, InCall
  <2> QED
    BY <2>5, <2>6, <2>7, <2>8 DEF Between
<1>4. CASE Goes
  <2>1. caller.pc = "awaitAck" /\ caller'.pc = "start" /\ pending.acked /\ ~pending.done
        /\ pending'.acked /\ ~pending'.ok /\ pending'.received = {} /\ toNode' = toNode
    BY <1>4 DEF Goes
  <2>2. ToNode' = ToNode
    BY <2>1 DEF ToNode
  <2>3. ~Moving /\ "start" \notin ToNode
    BY <1>0, <2>1 DEF Between, DataInv
  <2>4. ~Moving' /\ Acked
    BY <1>1, <2>1, <2>3 DEF Moving, Acked
  <2>5. FramesInv'
    BY <1>0, <1>1, <2>1, <2>2 DEF Between, FramesInv, InOrder, BlocksLast, Quiet
  <2>6. DataInv'
    BY <1>1, <2>1, <2>2, <2>3, <2>4 DEF DataInv, Moving
  <2>7. SessionInv'
    BY <1>0, <1>1, <2>1, <2>4 DEF Between, SessionInv, InCall
  <2>8. CacheInv'
    BY <1>0, <1>1, <1>2, <2>1 DEF Between, CacheInv, InCall
  <2> QED
    BY <2>5, <2>6, <2>7, <2>8 DEF Between
<1>5. CASE Starts
  <2>1. caller.pc = "start" /\ caller'.pc = "awaitBlocks" /\ pending' = pending
        /\ toNode' = Append(toNode, "start") /\ pending.acked
    BY <1>2, <1>5 DEF Starts, Gathering
  <2>2. ToNode' = ToNode \cup {"start"} /\ InOrder(toNode)'
    <3>1. toNode \in Seq(Requests) /\ "start" \in Requests
      BY DEF Types, Requests
    <3>2. Carried(Append(toNode, "start")) = Carried(toNode) \cup {"start"}
          /\ InOrder(Append(toNode, "start"))
      BY <3>1, LastJoins, OrderOfAppend DEF Between, FramesInv
    <3> QED
      BY <2>1, <3>2 DEF ToNode
  <2>3. ~Moving /\ Acked /\ session.exists
    BY <1>0, <2>1 DEF Between, DataInv, SessionInv, Acked
  <2>4. ~Moving' /\ (Acked' <=> Acked)
    BY <1>1, <2>1, <2>3 DEF Moving, Acked
  <2>5. FramesInv'
    BY <1>0, <1>1, <2>1, <2>2, <2>3 DEF Between, FramesInv, BlocksLast
  <2>6. DataInv'
    BY <1>1, <2>1, <2>3, <2>4 DEF DataInv, Moving
  <2>7. SessionInv'
    BY <1>0, <1>1, <2>1, <2>4 DEF Between, SessionInv, InCall
  <2>8. CacheInv'
    BY <1>0, <1>1, <2>1 DEF Between, CacheInv, InCall
  <2> QED
    BY <2>5, <2>6, <2>7, <2>8 DEF Between
<1>6. CASE Back
  <2>1. caller'.pc = "idle" /\ pending' = Ini!NoPending /\ toNode' = toNode
    BY <1>6 DEF Back
  <2>2. ToNode' = ToNode /\ pending'.received = {} /\ ~pending'.acked
    BY <2>1 DEF ToNode, Ini!NoPending
  <2>3. (Moving' => Moving) /\ ~InCall'
    BY <1>1, <2>1, <2>2 DEF Moving, InCall
  <2>5. FramesInv'
    BY <1>0, <1>1, <2>1, <2>2 DEF Between, FramesInv, InOrder, BlocksLast, Quiet
  <2>6. DataInv'
    BY <1>1, <2>2, <2>3 DEF Between, DataInv
  <2>7. SessionInv'
    BY <1>0, <1>1, <2>3 DEF Between, SessionInv
  <2>8. CacheInv'
    BY <1>0, <1>1, <2>3 DEF Between, CacheInv
  <2> QED
    BY <2>5, <2>6, <2>7, <2>8 DEF Between
<1> QED
  BY <1>0, <1>3, <1>4, <1>5, <1>6

(* A frame at the head of a channel is gone, or comes once more.           *)
LEMMA NodeChannel ==
  ASSUME Types, FramesInv, toNode # <<>>, toNode' \in {toNode, Tail(toNode)}
  PROVE  /\ Head(toNode) \in ToNode /\ ToNode' \subseteq ToNode
         /\ ToNode \subseteq ToNode' \cup {Head(toNode)}
         /\ InOrder(toNode)' /\ ~Quiet
         /\ Head(toNode) = "start" => "request" \notin ToNode
<1>1. toNode \in Seq(Requests) /\ InOrder(toNode)
  BY DEF Types, FramesInv
<1>2. /\ Carried(toNode) = {Head(toNode)} \cup Carried(Tail(toNode))
      /\ InOrder(Tail(toNode)) /\ (Head(toNode) = "start" => "request" \notin Carried(toNode))
  BY <1>1, HeadLeaves, OrderOfTail
<1>3. InOrder(toNode)'
  BY <1>1, <1>2
<1> QED
  BY <1>2, <1>3 DEF ToNode, Quiet

LEMMA AppChannel ==
  ASSUME Types, FramesInv, toApp # <<>>, toApp' \in {toApp, Tail(toApp)}
  PROVE  /\ Head(toApp) \in ToApp /\ ToApp' \subseteq ToApp
         /\ ToApp \subseteq ToApp' \cup {Head(toApp)}
         /\ BlocksLast(toApp)' /\ ~Quiet
         /\ Head(toApp).type = "transfer" => \A f \in ToApp : f.type = "transfer"
<1>1. toApp \in Seq(Answers) /\ BlocksLast(toApp)
  BY DEF Types, FramesInv
<1>2. /\ Carried(toApp) = {Head(toApp)} \cup Carried(Tail(toApp))
      /\ BlocksLast(Tail(toApp))
      /\ Head(toApp).type = "transfer" => \A f \in Carried(toApp) : f.type = "transfer"
  BY <1>1, HeadLeaves, BlocksOfTail
<1>3. BlocksLast(toApp)'
  BY <1>1, <1>2
<1> QED
  BY <1>2, <1>3 DEF ToApp, Quiet

LEMMA IdleNext == ASSUME Between, Idle PROVE Between'
<1>1. UNCHANGED <<pending, call, lastData, sessions, rx, toNode, toApp, result, readFor>>
  BY DEF Idle, iniVars
<1>2. UNCHANGED <<caller, session, thread, ToNode, ToApp, cached, Current>>
  BY <1>1 DEF caller, session, thread, ToNode, ToApp, cached, Current
<1> QED
  BY <1>1, <1>2
  DEF Between, FramesInv, DataInv, SessionInv, CacheInv, InOrder, BlocksLast, Quiet,
      InCall, Moving, Acked

LEMMA BusLosesNext == ASSUME Types, CallsInv, Mgr!IInv, Between, BusLoses PROVE Between'
<1>1. UNCHANGED <<pending, lastData, sessions, rx, readFor, caller, Current>>
  BY CallsKept DEF BusLoses, iniVars, resVars
<1>2. UNCHANGED <<session, thread, cached>>
  BY <1>1 DEF session, thread, cached
<1>3. /\ ToNode' \subseteq ToNode /\ ToApp' \subseteq ToApp /\ ~Quiet
      /\ InOrder(toNode)' /\ BlocksLast(toApp)'
  <2>1. CASE toNode # <<>> /\ toNode' = Tail(toNode) /\ toApp' = toApp
    <3>1. ToApp' = ToApp /\ BlocksLast(toApp)'
      BY <2>1 DEF ToApp, Between, FramesInv
    <3> QED
      BY <2>1, <3>1, NodeChannel DEF Between
  <2>2. CASE toApp # <<>> /\ toApp' = Tail(toApp) /\ toNode' = toNode
    <3>1. ToNode' = ToNode /\ InOrder(toNode)'
      BY <2>2 DEF ToNode, Between, FramesInv
    <3> QED
      BY <2>2, <3>1, AppChannel DEF Between
  <2> QED
    BY <2>1, <2>2 DEF BusLoses
<1>4. FramesInv'
  BY <1>1, <1>2, <1>3 DEF Between, FramesInv
<1>5. DataInv'
  BY <1>1, <1>2, <1>3 DEF Between, DataInv, InCall, Moving
<1>6. SessionInv'
  BY <1>1, <1>2, <1>3 DEF Between, SessionInv, InCall, Acked
<1>7. CacheInv'
  BY <1>1, <1>2 DEF Between, CacheInv, InCall
<1> QED
  BY <1>4, <1>5, <1>6, <1>7 DEF Between

LEMMA NodeReceivesNext ==
  ASSUME Types, CallsInv, Mgr!IInv, Between, NodeReceives
  PROVE  Between'
<1>0. /\ UNCHANGED <<pending, lastData, sessions, readFor, toApp, caller, Current>>
      /\ toNode # <<>> /\ toNode' \in {toNode, Tail(toNode)} /\ thread.pc = "idle"
      /\ TakesRequest(Head(toNode)) \/ TakesStart(Head(toNode))
  BY NodeTakes, CallsKept DEF iniVars
<1>1. UNCHANGED <<session, ToApp, cached>>
  BY <1>0 DEF session, ToApp, cached
<1>2. /\ Head(toNode) \in ToNode /\ ToNode' \subseteq ToNode /\ InOrder(toNode)' /\ ~Quiet
      /\ Head(toNode) = "start" => "request" \notin ToNode
  BY <1>0, NodeChannel DEF Between
<1>3. FramesInv'
  <2>1. BlocksLast(toApp)'
    BY <1>0 DEF Between, FramesInv
  <2> QED
    BY <1>0, <1>1, <1>2, <2>1 DEF Between, FramesInv
<1>4. CacheInv'
  BY <1>0, <1>1 DEF Between, CacheInv, InCall
<1>5. CASE TakesRequest(Head(toNode))
  <2>1. ~Moving /\ thread'.pc # "transfers" /\ thread'.pc # "store"
    BY <1>2, <1>5 DEF Between, DataInv, TakesRequest
  <2>2. ~Moving'
    BY <1>0, <1>1, <2>1 DEF Moving
  <2>3. DataInv'
    BY <1>0, <1>1, <1>2, <2>1, <2>2 DEF Between, DataInv, InCall, Moving
  <2>4. Acked' => Acked
    BY <1>0, <1>1, <1>5 DEF Acked, TakesRequest
  <2>5. SessionInv'
    BY <1>0, <1>1, <1>5, <2>1, <2>4 DEF Between, SessionInv, InCall, TakesRequest
  <2> QED
    BY <1>3, <1>4, <2>3, <2>5 DEF Between
<1>6. CASE TakesStart(Head(toNode))
  <2>1. /\ session.exists /\ "request" \notin ToNode'
        /\ thread'.pc = "transfers" /\ thread'.content = session.content
    BY <1>2, <1>6 DEF Between, FramesInv, SessionInv, TakesStart
  <2>2. InCall => caller.pc = "awaitBlocks"
    BY <1>2, <1>6 DEF Between, DataInv, TakesStart
  <2>3. DataInv'
    BY <1>0, <1>1, <2>1, <2>2 DEF Between, DataInv, InCall
  <2>4. Acked' => Acked
    BY <1>0, <1>1, <2>1 DEF Acked
  <2>5. SessionInv'
    BY <1>0, <1>1, <2>1, <2>4 DEF Between, SessionInv, InCall
  <2> QED
    BY <1>3, <1>4, <2>3, <2>5 DEF Between
<1> QED
  BY <1>0, <1>5, <1>6

(* All blocks are there, and all of the session: they become the cache.    *)
LEMMA JoinedBlocks ==
  ASSUME NEW b, \A i \in Index : b[i] # 0
  PROVE  Ini!Assemble(b) = [n \in 1 .. NumBlocks |-> b[n - 1]]
<1>1. Mgr!InitiatorAssumption /\ Mgr!Index = Index
  BY HalvesConstants DEF Mgr!Index, Index
<1>2. Mgr!Assemble(b) = [n \in 1 .. NumBlocks |-> b[n - 1]]
  BY <1>1, Mgr!WholeAssembly
<1> QED
  BY <1>2, SameAssembly

LEMMA WholeCache ==
  ASSUME Types, Between, Moving, pending'.blocks \in [Index -> Versions \cup {0}],
         \A i \in Index : pending'.blocks[i] = session.content,
         lastData' = Ini!Assemble(pending'.blocks)
  PROVE  /\ session.content \in DOMAIN readFor
         /\ lastData' = [i \in 1 .. NumBlocks |-> session.content]
<1>1. session.content \in DOMAIN readFor /\ session.content \in Versions
  BY ReadsFacts DEF Between, DataInv, SessionInv
<1>2. PICK b : b = pending'.blocks
  OBVIOUS
<1>3. \A i \in Index : b[i] # 0
  BY <1>1, <1>2, TransferAssumption DEF Versions
<1>4. Ini!Assemble(b) = [n \in 1 .. NumBlocks |-> b[n - 1]]
  BY <1>3, JoinedBlocks
<1>5. \A n \in 1 .. NumBlocks : b[n - 1] = session.content
  <2>1. \A n \in 1 .. NumBlocks : n - 1 \in Index
    BY TransferAssumption DEF Index
  <2> QED
    BY <1>2, <2>1
<1> QED
  BY <1>1, <1>2, <1>4, <1>5

LEMMA HearsBlockNext ==
  ASSUME Types, CallsInv, Mgr!IInv, Between, AppReceives,
         HearsBlock(Head(toApp)), Gathering
  PROVE  DataInv' /\ SessionInv' /\ CacheInv' /\ (pending'.ok <=> pending'.received = Index)
<1> DEFINE f == Head(toApp)
<1>0. /\ UNCHANGED <<call, sessions, rx, toNode, readFor, caller, Current>>
      /\ toApp # <<>> /\ toApp' \in {toApp, Tail(toApp)} /\ f \in Answers
  BY AppStepCases, CallsKept DEF resVars
<1>1. UNCHANGED <<session, thread, ToNode>>
  BY <1>0 DEF session, thread, ToNode
<1>2. f \in ToApp /\ ToApp' \subseteq ToApp /\ \A g \in ToApp : g.type = "transfer"
  BY <1>0, AppChannel DEF Between, HearsBlock
<1>3. Moving /\ f.data = session.content /\ InCall /\ Acked
  <2>1. Moving /\ f.data = session.content
    BY <1>2 DEF Moving, Between, DataInv
  <2> QED
    BY <2>1, CallerFacts DEF Gathering, InCall, Acked
<1>4. /\ pending'.received = pending.received \cup {f.seq} /\ pending'.acked
      /\ pending'.blocks = [pending.blocks EXCEPT ![f.seq] = f.data]
      /\ pending'.ok = (pending.ok \/ pending'.received = Index)
      /\ lastData' = IF pending'.received = Index THEN Ini!Assemble(pending'.blocks) ELSE lastData
  BY CallerFacts DEF HearsBlock
<1>5. /\ f.seq \in Index /\ pending.blocks \in [Index -> Versions \cup {0}]
      /\ pending.received \in SUBSET Index
      /\ pending.ok \in BOOLEAN
      /\ pending.ok => pending.received = Index
  BY <1>0, CallerFacts DEF Answers, Ini!PendingState, Ini!Index, Index, Ini!Block
<1>6. \A i \in pending'.received : pending'.blocks[i] = session.content
  BY <1>3, <1>4, <1>5 DEF Between, DataInv
<1>7. DataInv'
  <2>1. /\ session.exists /\ "request" \notin ToNode
        /\ thread.pc \in {"idle", "transfers"} /\ caller.pc = "awaitBlocks"
    BY <1>3 DEF Between, DataInv
  <2> QED
    BY <1>0, <1>1, <1>2, <1>6, <2>1 DEF Between, DataInv, InCall
<1>8. SessionInv'
  BY <1>0, <1>1, <1>3 DEF Between, SessionInv, InCall
<1>9. pending'.ok <=> pending'.received = Index
  BY <1>4, <1>5
<1>10. CacheInv'
  <2>1. CASE pending'.received = Index
    <3>1. pending'.blocks \in [Index -> Versions \cup {0}]
      <4>1. f.data \in Versions \cup {0}
        BY <1>0 DEF Answers
      <4> QED
        BY <1>4, <1>5, <4>1
    <3>2. /\ session.content \in DOMAIN readFor
          /\ lastData' = [i \in 1 .. NumBlocks |-> session.content]
      BY <1>3, <1>4, <1>6, <2>1, <3>1, WholeCache
    <3>3. readFor[session.content] = Current
      BY <1>3 DEF Between, SessionInv
    <3>4. lastData'[1] = session.content /\ lastData' # <<>>
      BY <3>2, Filled
    <3>5. cached' = Current'
      BY <1>0, <3>3, <3>4 DEF cached
    <3> QED
      BY <1>0, <1>9, <2>1, <3>2, <3>5 DEF Between, CacheInv
  <2>2. CASE pending'.received # Index
    <3>1. lastData' = lastData /\ ~pending.ok /\ ~pending'.ok
      BY <1>4, <1>5, <1>9, <2>2
    <3>2. cached' = cached
      BY <1>0, <3>1 DEF cached
    <3> QED
      BY <1>0, <1>3, <3>1, <3>2 DEF Between, CacheInv, InCall
  <2> QED
    BY <2>1, <2>2
<1> QED
  BY <1>7, <1>8, <1>9, <1>10

LEMMA AppReceivesNext ==
  ASSUME Types, CallsInv, Mgr!IInv, Between, AppReceives
  PROVE  Between'
<1> DEFINE f == Head(toApp)
<1>0. /\ UNCHANGED <<call, sessions, rx, toNode, readFor, caller, Current>>
      /\ toApp # <<>> /\ toApp' \in {toApp, Tail(toApp)} /\ f \in Answers
      /\ \/ HearsAck(f) \/ HearsNack(f) \/ HearsBlock(f)
  BY AppStepCases, CallsKept DEF resVars
<1>1. UNCHANGED <<session, thread, ToNode>>
  BY <1>0 DEF session, thread, ToNode
<1>2. f \in ToApp /\ ToApp' \subseteq ToApp /\ ~Quiet /\ BlocksLast(toApp)'
  BY <1>0, AppChannel DEF Between
<1>3. FramesInv'
  <2>1. InOrder(toNode)'
    BY <1>0 DEF Between, FramesInv
  <2> QED
    BY <1>0, <1>1, <1>2, <2>1 DEF Between, FramesInv
<1>4. CASE HearsBlock(f) /\ Gathering
  BY <1>3, <1>4, HearsBlockNext DEF Between
<1>5. CASE ~(HearsBlock(f) /\ Gathering)
  <2>1. /\ lastData' = lastData /\ pending'.received = pending.received
        /\ pending'.blocks = pending.blocks
        /\ pending'.ok = pending.ok
        /\ pending'.acked => pending.acked \/ f.type = "ack"
    <3>1. CASE HearsAck(f)
      BY <3>1 DEF HearsAck
    <3>2. CASE HearsNack(f)
      <4>1. ~pending.ok
        <5>1. pending.received = {}
          BY <1>2, <3>2 DEF HearsNack, Between, DataInv
        <5> QED
          BY <5>1, CallerFacts, ReadsFacts
      <4>2. pending.ok = FALSE
        BY <4>1, CallerFacts DEF Ini!PendingState
      <4>3. Mgr!PendingState = Ini!PendingState
        BY DEF Mgr!PendingState, Ini!PendingState, Mgr!Index, Ini!Index, Mgr!Block,
           Ini!Block, Mgr!Address, Ini!Address
      <4>4. Mgr!TInv'
        BY CallerSteps, Mgr!TypeNext, HalvesConstants DEF Types, Next
      <4>5. pending'.ok \in BOOLEAN
        BY <4>4 DEF Mgr!TInv, Mgr!TypeOK, Mgr!PendingState
      <4> QED
        BY <3>2, <4>2, <4>5 DEF HearsNack
    <3>3. CASE HearsBlock(f)
      BY <1>5, <3>3 DEF HearsBlock
    <3> QED
      BY <1>0, <3>1, <3>2, <3>3
  <2>2. cached' = cached
    BY <1>0, <2>1 DEF cached
  <2>3. (Moving' => Moving) /\ (Acked' => Acked)
    BY <1>0, <1>1, <1>2, <2>1 DEF Moving, Acked
  <2>4. DataInv'
    BY <1>0, <1>1, <1>2, <2>1, <2>3 DEF Between, DataInv, InCall
  <2>5. SessionInv'
    BY <1>0, <1>1, <2>3 DEF Between, SessionInv, InCall
  <2>6. CacheInv'
    BY <1>0, <2>1, <2>2 DEF Between, CacheInv, InCall
  <2> QED
    BY <1>3, <2>4, <2>5, <2>6 DEF Between
<1> QED
  BY <1>4, <1>5

LEMMA CachedKept ==
  ASSUME Types, CacheInv, Works
  PROVE  cached' = cached
<1>1. /\ lastData' = lastData
      /\ \/ readFor' = readFor
         \/ readFor' = Append(readFor, IF Open = {} THEN 0 ELSE Current)
  BY NodeStepCases DEF iniVars, Reads, Stores, SendsReply, SendsBlock
<1>2. \A v \in DOMAIN readFor : readFor'[v] = readFor[v]
  <2>1. (IF Open = {} THEN 0 ELSE Current) \in 0 .. MaxCalls
    BY CurrentType, TransferAssumption
  <2>2. CASE readFor' = readFor
    BY <2>2
  <2>3. CASE readFor' # readFor
    <3>1. PICK k \in 0 .. MaxCalls : readFor' = Append(readFor, k)
      BY <1>1, <2>1, <2>3
    <3>2. readFor \in Seq(0 .. MaxCalls) /\ DOMAIN readFor = 1 .. Len(readFor)
      BY ReadsFacts DEF Types
    <3> QED
      BY <3>1, <3>2, AppendProperties
  <2> QED
    BY <2>2, <2>3
<1>3. CASE lastData = <<>>
  BY <1>1, <1>3 DEF cached
<1>4. CASE lastData # <<>>
  <2>1. PICK v \in DOMAIN readFor : lastData = [i \in 1 .. NumBlocks |-> v]
    BY <1>4 DEF CacheInv
  <2>2. lastData[1] = v
    BY <2>1, Filled
  <2> QED
    BY <1>1, <1>2, <1>4, <2>2 DEF cached
<1> QED
  BY <1>3, <1>4

LEMMA WorksNext ==
  ASSUME Types, CallsInv, Mgr!IInv, Between, Works
  PROVE  Between'
<1>0. /\ UNCHANGED <<pending, lastData, toNode, result, caller, Current>>
      /\ Reads \/ Stores \/ SendsReply \/ SendsBlock
  BY NodeStepCases, CallsKept DEF iniVars
<1>1. ToNode' = ToNode /\ InOrder(toNode)'
  BY <1>0 DEF ToNode, Between, FramesInv
<1>2. ~Quiet /\ Current \in Calls /\ caller.pc # "request"
  BY <1>0 DEF Quiet, Reads, Stores, SendsReply, SendsBlock, Between, FramesInv
<1>3. CASE Reads
  <2>0. /\ thread.pc = "handler" /\ sessions' = sessions /\ toApp' = toApp
        /\ thread.numBlocks = NumBlocks
        /\ readFor' = Append(readFor, IF Open = {} THEN 0 ELSE Current)
        /\ \/ /\ thread'.pc = "store" /\ thread'.content = Len(readFor) + 1
              /\ thread'.numBlocks = thread.numBlocks
           \/ thread'.pc = "reply" /\ thread'.out = "nack"
    BY <1>3 DEF Reads, Between, SessionInv
  <2>1. session' = session /\ ToApp' = ToApp /\ BlocksLast(toApp)'
    BY <2>0 DEF session, ToApp, Between, FramesInv
  <2>2. ~Moving
    BY <2>0 DEF Between, DataInv
  <2>3. ~Moving' /\ (Acked' => Acked)
    BY <1>0, <2>0, <2>1, <2>2 DEF Moving, Acked
  <2>4. /\ DOMAIN readFor' = 1 .. Len(readFor) + 1 /\ DOMAIN readFor = 1 .. Len(readFor)
        /\ Len(readFor) + 1 \in DOMAIN readFor' /\ DOMAIN readFor \subseteq DOMAIN readFor'
        /\ \A v \in DOMAIN readFor : readFor'[v] = readFor[v]
        /\ readFor'[Len(readFor) + 1] \in {0, Current}
        /\ InCall => readFor'[Len(readFor) + 1] = Current
    <3>1. PICK k \in 0 .. MaxCalls : /\ k \in {0, Current} /\ (InCall => k = Current)
                                     /\ readFor' = Append(readFor, k)
      <4>1. InCall => Open # {}
        BY DEF CallsInv, Open
      <4>2. (IF Open = {} THEN 0 ELSE Current) \in 0 .. MaxCalls
        BY CurrentType, TransferAssumption
      <4> QED
        BY <2>0, <4>1, <4>2
    <3>2. readFor \in Seq(0 .. MaxCalls) /\ Len(readFor) \in Nat
      BY ReadsFacts DEF Types
    <3> QED
      BY <3>1, <3>2, ReadsFacts, AppendProperties, LenProperties
  <2>5. FramesInv'
    BY <1>0, <1>1, <1>2, <2>1 DEF Between, FramesInv
  <2>6. DataInv'
    BY <1>0, <1>1, <2>0, <2>1, <2>2, <2>3 DEF DataInv, Moving, Between, InCall
  <2>7. SessionInv'
    <3>1. thread'.pc = "handler" => thread'.numBlocks = NumBlocks /\ thread'.hasAddress
      BY <2>0
    <3>2. thread'.pc = "store" => /\ thread'.numBlocks = NumBlocks
                                  /\ thread'.content \in DOMAIN readFor'
                                  /\ InCall' => readFor'[thread'.content] = Current'
      BY <1>0, <2>0, <2>4 DEF InCall
    <3>3. session'.exists => session'.numBlocks = NumBlocks /\ session'.content \in DOMAIN readFor'
      BY <2>1, <2>4 DEF Between, SessionInv
    <3>4. InCall' /\ Acked' => session'.exists /\ readFor'[session'.content] = Current'
      BY <1>0, <2>1, <2>3, <2>4 DEF Between, SessionInv, InCall
    <3> QED
      BY <3>1, <3>2, <3>3, <3>4 DEF SessionInv
  <2>8. cached' = cached
    BY CachedKept DEF Between
  <2>9. CacheInv'
    <3>1. \A v \in DOMAIN readFor' : readFor'[v] \in 0 .. Current
      <4>1. 0 \in 0 .. Current /\ Current \in 0 .. Current
        BY CurrentType
      <4>2. ASSUME NEW v \in DOMAIN readFor'
            PROVE  v \in DOMAIN readFor \/ v = Len(readFor) + 1
        BY <2>4, ReadsFacts
      <4> QED
        BY <2>4, <4>1, <4>2 DEF Between, CacheInv
    <3> QED
      BY <1>0, <2>4, <2>8, <3>1 DEF Between, CacheInv, InCall
  <2> QED
    BY <2>5, <2>6, <2>7, <2>9 DEF Between
<1>4. CASE Stores
  <2>0. /\ thread.pc = "store" /\ toApp' = toApp /\ readFor' = readFor
        /\ session'.exists /\ session'.numBlocks = NumBlocks
        /\ session'.content = thread.content /\ thread.content \in DOMAIN readFor
        /\ InCall => readFor[thread.content] = Current
        /\ thread'.pc = "reply" /\ thread'.out = "ack"
    BY <1>4 DEF Stores, Between, SessionInv
  <2>1. ToApp' = ToApp /\ BlocksLast(toApp)' /\ cached' = cached
    BY <1>0, <2>0 DEF ToApp, Between, FramesInv, cached
  <2>2. ~Moving
    BY <2>0 DEF Between, DataInv
  <2>3. ~Moving'
    BY <1>0, <2>0, <2>1, <2>2 DEF Moving
  <2>5. FramesInv'
    BY <1>0, <1>1, <1>2, <2>0, <2>1 DEF Between, FramesInv
  <2>6. DataInv'
    BY <1>0, <1>1, <2>0, <2>1, <2>2, <2>3 DEF DataInv, Moving, Between, InCall
  <2>7. SessionInv'
    BY <1>0, <2>0 DEF SessionInv, InCall
  <2>9. CacheInv'
    BY <1>0, <2>0, <2>1 DEF Between, CacheInv, InCall
  <2> QED
    BY <2>5, <2>6, <2>7, <2>9 DEF Between
<1>5. CASE SendsReply
  <2> DEFINE f == Answer(thread.out, 0, 0)
  <2>0. /\ thread.pc = "reply" /\ thread'.pc = "idle" /\ sessions' = sessions
        /\ readFor' = readFor /\ toApp' = Append(toApp, f)
    BY <1>5 DEF SendsReply
  <2>1. session' = session /\ cached' = cached
    BY <1>0, <2>0 DEF session, cached
  <2>2. f \in Answers /\ f.type = thread.out /\ f.type # "transfer"
    <3>1. thread.out \in {"ack", "nack"} /\ 0 \in Index
      BY ThreadType, TransferAssumption DEF Types, Res!Thread, Index
    <3> QED
      BY <3>1 DEF Answers, Answer
  <2>3. ~Moving
    BY <2>0 DEF Between, DataInv
  <2>4. ToApp' = ToApp \cup {f} /\ BlocksLast(toApp)'
    <3>1. toApp \in Seq(Answers) /\ BlocksLast(toApp)
          /\ \A g \in Carried(toApp) : g.type # "transfer"
      BY <2>3 DEF Types, Between, FramesInv, Moving, ToApp
    <3>2. Carried(Append(toApp, f)) = Carried(toApp) \cup {f} /\ BlocksLast(Append(toApp, f))
      BY <2>2, <3>1, LastJoins, BlocksOfAppend
    <3> QED
      BY <2>0, <3>2 DEF ToApp
  <2> HIDE DEF f
  <2>5. ~Moving' /\ (Acked' => Acked)
    BY <1>0, <2>0, <2>2, <2>3, <2>4 DEF Moving, Acked
  <2>6. FramesInv'
    BY <1>0, <1>1, <1>2, <2>1, <2>4 DEF Between, FramesInv
  <2>7. DataInv'
    BY <1>0, <1>1, <2>0, <2>1, <2>2, <2>3, <2>4, <2>5 DEF DataInv, Moving, Between, InCall
  <2>8. SessionInv'
    BY <1>0, <2>0, <2>1, <2>5 DEF Between, SessionInv, InCall
  <2>9. CacheInv'
    BY <1>0, <2>0, <2>1 DEF Between, CacheInv, InCall
  <2> QED
    BY <2>6, <2>7, <2>8, <2>9 DEF Between
<1>6. CASE SendsBlock
  <2> DEFINE f == Answer("transfer", Min(thread.todo), thread.content)
  <2>0. /\ thread.pc = "transfers" /\ sessions' = sessions
        /\ \/ thread'.pc = "idle"
           \/ thread'.pc = "transfers" /\ thread'.content = thread.content
        /\ readFor' = readFor /\ toApp' = Append(toApp, f)
    BY <1>6 DEF SendsBlock
  <2>1. session' = session /\ cached' = cached
    BY <1>0, <2>0 DEF session, cached
  <2>2. f \in Answers /\ f.type = "transfer" /\ f.data = thread.content
    <3>1. Min(thread.todo) \in Index /\ thread.content \in Versions
      BY <2>0, ThreadType DEF Types
    <3> QED
      BY <3>1 DEF Answers, Answer
  <2>3. Moving /\ thread.content = session.content
    BY <2>0 DEF Moving, Between, DataInv
  <2>4. ToApp' = ToApp \cup {f} /\ BlocksLast(toApp)'
    <3>1. toApp \in Seq(Answers) /\ BlocksLast(toApp)
      BY DEF Types, Between, FramesInv
    <3>2. Carried(Append(toApp, f)) = Carried(toApp) \cup {f} /\ BlocksLast(Append(toApp, f))
      BY <2>2, <3>1, LastJoins, BlocksOfAppend
    <3> QED
      BY <2>0, <3>2 DEF ToApp
  <2> HIDE DEF f
  <2>5. Acked' => Acked
    BY <1>0, <2>0, <2>2, <2>4 DEF Acked
  <2>6. FramesInv'
    BY <1>0, <1>1, <1>2, <2>1, <2>4 DEF Between, FramesInv
  <2>7. DataInv'
    BY <1>0, <1>1, <2>0, <2>1, <2>2, <2>3, <2>4 DEF DataInv, Between, InCall
  <2>8. SessionInv'
    BY <1>0, <2>0, <2>1, <2>5 DEF Between, SessionInv, InCall
  <2>9. CacheInv'
    BY <1>0, <2>0, <2>1 DEF Between, CacheInv, InCall
  <2> QED
    BY <2>6, <2>7, <2>8, <2>9 DEF Between
<1> QED
  BY <1>0, <1>3, <1>4, <1>5, <1>6

LEMMA TransferInit == Init => TInv
<1> SUFFICES ASSUME Init PROVE TInv
  OBVIOUS
<1>1. /\ toNode = <<>> /\ toApp = <<>> /\ readFor = <<>> /\ lastData = <<>>
      /\ result = [k \in Calls |-> "unused"] /\ pending = Ini!NoPending
      /\ call = [c \in {"app"} |-> Ini!NoCall]
      /\ sessions = [p \in {"app"} |-> Res!NoSession]
      /\ rx = [t \in {"rx"} |-> Res!Resting("app")]
  BY DEF Init, Ini!Init, Res!ServeInit
<1>2. /\ caller.pc = "idle" /\ ~session.exists /\ thread.pc = "idle"
      /\ ~pending.acked /\ pending.received = {}
  BY <1>1 DEF caller, session, thread, Ini!NoCall, Res!NoSession, Res!Resting, Ini!NoPending
<1>3. DOMAIN <<>> = {}
  <2>1. <<>> \in Seq({}) /\ Len(<<>>) = 0
    BY EmptySeq
  <2>2. DOMAIN <<>> = 1 .. 0
    BY <2>1, LenProperties
  <2> QED
    BY <2>2
<1>4. ToNode = {} /\ ToApp = {}
  BY <1>1, <1>3 DEF ToNode, ToApp, Carried
<1>5. {k \in Calls : result[k] # "unused"} = {} /\ Current = 0
  <2>1. {k \in Calls : result[k] # "unused"} = {}
    BY <1>1
  <2> QED
    BY <2>1, FS_EmptySet DEF Current
<1>6. CallsInv
  <2>1. 1 .. 0 = {}
    OBVIOUS
  <2> QED
    BY <1>1, <1>2, <1>5, <2>1 DEF CallsInv, InCall
<1>7. FramesInv
  BY <1>1, <1>2, <1>3, <1>4 DEF FramesInv, InOrder, BlocksLast, Quiet
<1>8. DataInv
  BY <1>2, <1>4 DEF DataInv, Moving
<1>9. SessionInv
  BY <1>2 DEF SessionInv, InCall
<1>10. CacheInv
  BY <1>1, <1>2, <1>3 DEF CacheInv, InCall
<1> QED
  BY <1>6, <1>7, <1>8, <1>9, <1>10 DEF TInv

LEMMA TransferNext ==
  ASSUME Patient, Types, Mgr!IInv, TInv, [Next]_vars
  PROVE  TInv'
<1>1. CallsInv /\ Between
  BY DEF TInv, Between
<1>2. CallsInv'
  BY <1>1, CallsNext
<1>3. Between'
  BY <1>1, StepCases, IdleNext, BeginNext, MovesNext, AppReceivesNext, NodeReceivesNext,
     WorksNext, BusLosesNext
<1> QED
  BY <1>2, <1>3 DEF TInv, Between

LEMMA TransferHolds == ASSUME Patient PROVE Spec => [](Types /\ Mgr!IInv /\ TInv)
<1>1. Types /\ Mgr!IInv /\ TInv /\ [Next]_vars => TInv'
  BY TransferNext
<1> QED
  BY <1>1, TransferInit, TypesHold, CallerHolds, PTL DEF Spec

(* If callers wait for the bus to fall silent before a call, what          *)
(* getLastData() returns is one run of the handler, blocks in order, none  *)
(* missing, whatever the bus loses or repeats and whenever the data behind *)
(* the handler change.  GetTransferImpatient shows that the condition is   *)
(* needed.                                                                 *)
THEOREM CacheIsWhole == ASSUME Patient PROVE Spec => []CacheWhole
<1>1. Types /\ TInv => CacheWhole
  <2> SUFFICES ASSUME Types, TInv PROVE CacheWhole
    OBVIOUS
  <2> QED
    BY ReadsFacts DEF TInv, CacheInv, CacheWhole
<1> QED
  BY <1>1, TransferHolds, PTL

----------------------------------------------------------------------------
(* The refinement                                                          *)

LEMMA StepOfBlockRead ==
  ASSUME Patient, Types, Mgr!IInv, TInv, TInv', [Next]_vars
  PROVE  [Abstract!Next]_(Abstract!vars)
<1> USE DEF TInv
<1>0. ASSUME result' = result, cached' = cached
      PROVE  [Abstract!Next]_(Abstract!vars)
  BY <1>0 DEF Abstract!vars, cached
<1>1. ASSUME NEW k \in Calls, Begin(k)
      PROVE  [Abstract!Next]_(Abstract!vars)
  <2>1. /\ k = Current + 1 /\ result' = [result EXCEPT ![k] = "open"]
        /\ UNCHANGED <<lastData, readFor>>
    BY <1>1, BeginCall
  <2>2. result[k] = "unused"
    BY <2>1, CurrentType DEF CallsInv
  <2>3. Abstract!Open(k)
    BY <2>1, <2>2 DEF Abstract!Open
  <2> QED
    BY <2>3 DEF Abstract!Next
<1>2. CASE Moves
  <2>1. /\ InCall /\ cached' = cached
        /\ Asks \/ Goes \/ Starts \/ Back
        /\ result' = IF ~InCall'
                     THEN [result EXCEPT ![Current] =
                                IF caller'.success THEN "ok" ELSE "failed"]
                     ELSE result
    BY <1>2, CallerStepCases, CallGoesOn DEF cached, resVars
  <2>2. CASE InCall'
    BY <1>0, <2>1, <2>2
  <2>3. CASE ~InCall'
    <3>1. Back /\ Current \in Calls /\ result[Current] = "open"
      BY <2>1, <2>3 DEF InCall, Asks, Goes, Starts, CallsInv
    <3>2. pending.ok => caller.pc = "awaitBlocks"
      <4>1. pending.ok => Moving
        BY CallerFacts, ReadsFacts DEF Moving
      <4> QED
        BY <2>1, <4>1 DEF DataInv
    <3>3. caller'.success <=> cached = Current
      BY <2>1, <3>1, <3>2 DEF Back, CacheInv
    <3>4. CASE caller'.success
      <4>1. Abstract!Succeed(Current)
        BY <2>1, <2>3, <3>1, <3>3, <3>4 DEF Abstract!Succeed, cached
      <4> QED
        BY <3>1, <4>1 DEF Abstract!Next
    <3>5. CASE ~caller'.success
      <4>1. Abstract!Fail(Current)
        BY <2>1, <2>3, <3>1, <3>3, <3>5 DEF Abstract!Fail, cached
      <4> QED
        BY <3>1, <4>1 DEF Abstract!Next
    <3> QED
      BY <3>4, <3>5
  <2> QED
    BY <2>2, <2>3
<1>3. CASE AppReceives
  <2>1. /\ result' = result /\ caller' = caller /\ Current' = Current /\ readFor' = readFor
    BY <1>3, CallsKept, AppStepCases
  <2>2. CASE lastData' = lastData
    <3>1. cached' = cached
      BY <2>1, <2>2 DEF cached
    <3> QED
      BY <1>0, <2>1, <3>1
  <2>3. CASE lastData' # lastData
    <3>1. Gathering /\ pending'.ok
      BY <1>3, <2>3, AppStepCases DEF HearsAck, HearsNack, HearsBlock
    <3>2. InCall /\ Current \in Calls /\ result[Current] = "open"
      BY <3>1 DEF Gathering, InCall, CallsInv
    <3>3. cached' = Current
      BY <2>1, <3>1, <3>2 DEF CacheInv, InCall
    <3>4. Abstract!Complete(Current)
      BY <2>1, <3>2, <3>3 DEF Abstract!Complete, cached
    <3> QED
      BY <3>2, <3>4 DEF Abstract!Next
  <2> QED
    BY <2>2, <2>3
<1>4. CASE Works
  BY <1>0, <1>4, CallsKept, CachedKept
<1>5. CASE Idle \/ NodeReceives \/ BusLoses
  <2>1. result' = result /\ lastData' = lastData /\ readFor' = readFor
    BY <1>5, NodeTakes DEF Idle, BusLoses, iniVars
  <2>2. cached' = cached
    BY <2>1 DEF cached
  <2> QED
    BY <1>0, <2>1, <2>2
<1> QED
  BY <1>1, <1>2, <1>3, <1>4, <1>5, StepCases

(* For a caller that makes no call while anything is on the bus or the     *)
(* other node busy, the two halves and the bus do step for step what       *)
(* BlockRead allows: the cache changes only to data read for the call that *)
(* is open, before it returns true, and never in a call that returns false.*)
(* Nothing in the code holds a caller back, and without the condition late *)
(* blocks break the statement (GetTransferImpatient).  (That every call    *)
(* returns is left to the runs.)                                           *)
THEOREM PatientImplementsBlockRead ==
  ASSUME Patient PROVE Spec => Abstract!Init /\ [][Abstract!Next]_(Abstract!vars)
<1>1. Init => Abstract!Init
  BY DEF Init, Ini!Init, Abstract!Init
<1>2. Types /\ Mgr!IInv /\ TInv /\ (Types /\ Mgr!IInv /\ TInv)' /\ [Next]_vars
         => [Abstract!Next]_(Abstract!vars)
  BY StepOfBlockRead
<1> QED
  BY <1>1, <1>2, TransferHolds, PTL DEF Spec

----------------------------------------------------------------------------
(* A bus that loses nothing                                                *)

LEMMA FaultlessBefore ==
  ASSUME Types, [Next]_vars, Faultless'
  PROVE  Faultless /\ ~BusLoses
<1>1. lost \in Nat
  BY TransferAssumption DEF Types
<1>2. ~BusLoses
  BY <1>1 DEF BusLoses, Faultless
<1>3. lost = 0
  <2>1. CASE UNCHANGED lost
    BY <2>1 DEF Faultless
  <2>2. CASE CallerSends
    BY <1>1, <2>2 DEF CallerSends, Faultless
  <2> QED
    BY <1>2, <2>1, <2>2
    DEF Next, Caller, Node, Register, Begin, CallerWakes, CallerTimesOut, AppReceives,
       NodeReceives, NodeReads, NodeStores, NodeSends, Rest, vars, busVars
<1>4. excused => excused'
  <2>1. CASE UNCHANGED excused
    BY <2>1
  <2>2. CASE CallerTimesOut \/ NodeReads
    BY <2>2 DEF CallerTimesOut, NodeReads
  <2> QED
    BY <1>2, <2>1, <2>2
    DEF Next, Caller, Node, Register, Begin, CallerSends, CallerWakes, AppReceives,
       NodeReceives, NodeStores, NodeSends, Rest, vars, busVars
<1> QED
  BY <1>2, <1>3, <1>4 DEF Faultless

AllGood == WaitsGood /\ OutcomeGood

(* A call comes back with success only.                                    *)
LEMMA BackGood ==
  ASSUME Types, Mgr!IInv, AllGood, Moves, Back, Faultless'
  PROVE  caller'.success
<1>0. /\ call \in [{"app"} -> [pc : Ini!PC, to : Ini!Address, success : BOOLEAN]]
      /\ pending.received # {} => Gathering
      /\ pending.ok => pending.done /\ pending.received = Index
      /\ pending.done => pending.ok
      /\ Index # {}
  BY CallerFacts, ReadsFacts DEF AllGood, OutcomeGood
<1>1. caller'.pc = "idle" /\ (caller'.success <=> caller.pc = "awaitBlocks" /\ pending.ok)
  BY DEF Back
<1>2. ASSUME NEW pc \in {"awaitAck", "start", "awaitBlocks"} PROVE ~Ini!Goto("app", pc)
  BY <1>0, <1>1 DEF Ini!Goto, caller
<1>3. ~CallerSends
  <2>1. SUFFICES ASSUME CallerSends PROVE FALSE
    OBVIOUS
  <2>2. PICK ok \in BOOLEAN : /\ Ini!SendRequest("app", ok) \/ Ini!SendStart("app", ok)
                              /\ lost' = IF ok THEN lost ELSE lost + 1
    BY <2>1 DEF CallerSends
  <2>3. ~ok
    BY <1>2, <2>2 DEF Ini!SendRequest, Ini!SendStart
  <2>4. lost \in Nat /\ lost' = 0
    BY TransferAssumption DEF Types, Faultless
  <2> QED
    BY <2>2, <2>3, <2>4
<1>4. ~Ini!WakeOnAck("app")
  <2>1. Ini!WakeOnAck("app") => caller.pc = "awaitAck" /\ pending.done
    BY <1>2 DEF Ini!WakeOnAck, caller
  <2> QED
    BY <1>0, <2>1 DEF Gathering
<1>5. Ini!WakeOnDone("app") => caller'.success
  BY <1>0, <1>1 DEF Ini!WakeOnDone, caller
<1>6. ~CallerTimesOut
  <2>1. SUFFICES ASSUME CallerTimesOut PROVE FALSE
    OBVIOUS
  <2>2. Quiet
    BY <2>1, QuietIsSilent DEF CallerTimesOut, Faultless
  <2>3. ~Ini!AckTimeout("app")
    BY <2>2 DEF AllGood, WaitsGood, Ini!AckTimeout, Ini!AckArrived, caller
  <2>4. CASE Ini!BlocksTimeout("app")
    <3>1. caller.pc = "awaitBlocks" /\ ~pending.done
      BY <2>4 DEF Ini!BlocksTimeout, caller
    <3>2. \A i \in Index : i \in pending.received
      BY <2>2, <3>1 DEF AllGood, WaitsGood, Comes, Quiet
    <3>3. pending.received = Index
      BY <3>2, CallerFacts
    <3> QED
      BY <1>0, <3>1, <3>3 DEF AllGood, OutcomeGood
  <2> QED
    BY <2>1, <2>3, <2>4 DEF CallerTimesOut
<1> QED
  BY <1>3, <1>4, <1>5, <1>6 DEF Moves, CallerWakes

LEMMA MovesGood ==
  ASSUME Types, CallsInv, Mgr!IInv, Between, AllGood, Moves, Faultless'
  PROVE  AllGood'
<1>0. /\ UNCHANGED <<rx, toApp>>
      /\ Asks \/ Goes \/ Starts \/ Back
      /\ result' = IF ~InCall'
                   THEN [result EXCEPT ![Current] =
                              IF caller'.success THEN "ok" ELSE "failed"]
                   ELSE result
  BY CallerStepCases, CallGoesOn DEF resVars
<1>1. UNCHANGED <<thread, ToApp>>
  BY <1>0 DEF thread, ToApp
<1>2. \A k \in Calls : result'[k] # "failed"
  <2>1. ~InCall' => caller'.success
    BY <1>0, BackGood DEF InCall, Asks, Goes, Starts
  <2> QED
    BY <1>0, <2>1 DEF AllGood, OutcomeGood, Types
<1>3. CASE Asks
  <2>1. /\ caller'.pc = "awaitAck" /\ pending' = pending
        /\ pending.waitingAck \/ pending.acked
    BY <1>3 DEF Asks, AllGood, WaitsGood
  <2>2. ~Quiet'
    <3>1. toNode \in Seq(Requests) /\ "request" \in Requests
      BY DEF Types, Requests
    <3>2. "request" \in ToNode'
      BY <1>3, <3>1, LastJoins DEF Asks, ToNode
    <3> QED
      BY <3>2 DEF Quiet
  <2> QED
    BY <1>1, <1>2, <2>1, <2>2 DEF AllGood, WaitsGood, OutcomeGood
<1>4. CASE Goes
  <2>1. caller'.pc = "start" /\ ~pending'.done /\ pending'.received = {} /\ Index # {}
    BY <1>4, ReadsFacts DEF Goes
  <2> QED
    BY <1>1, <1>2, <2>1 DEF AllGood, WaitsGood, OutcomeGood
<1>5. CASE Starts
  <2>1. caller'.pc = "awaitBlocks" /\ pending' = pending
    BY <1>5 DEF Starts
  <2>2. "start" \in ToNode'
    <3>1. toNode \in Seq(Requests) /\ "start" \in Requests
      BY DEF Types, Requests
    <3> QED
      BY <1>5, <3>1, LastJoins DEF Starts, ToNode
  <2> QED
    BY <1>1, <1>2, <2>1, <2>2 DEF AllGood, WaitsGood, OutcomeGood, Comes
<1>6. CASE Back
  <2>1. caller'.pc = "idle" /\ ~pending'.done /\ pending'.received = {} /\ Index # {}
    BY <1>6, ReadsFacts DEF Back, Ini!NoPending
  <2> QED
    BY <1>1, <1>2, <2>1 DEF AllGood, WaitsGood, OutcomeGood
<1> QED
  BY <1>0, <1>3, <1>4, <1>5, <1>6

LEMMA BeginGood ==
  ASSUME Patient, Types, CallsInv, AllGood, NEW k \in Calls, Begin(k)
  PROVE  AllGood'
<1>1. /\ caller'.pc = "request" /\ pending'.waitingAck /\ ~pending'.done
      /\ pending'.received = {}
      /\ result' = [result EXCEPT ![k] = "open"] /\ UNCHANGED <<rx, toApp>>
  BY BeginCall DEF resVars
<1>2. ToApp' = {} /\ thread'.pc = "idle"
  <2>1. Quiet
    BY QuietIsSilent DEF Begin
  <2> QED
    BY <1>1, <2>1 DEF Quiet, ToApp, thread
<1>3. \A j \in Calls : result'[j] # "failed"
  BY <1>1 DEF AllGood, OutcomeGood, Types
<1> QED
  BY <1>1, <1>2, <1>3, ReadsFacts DEF AllGood, WaitsGood, OutcomeGood

LEMMA AppReceivesGood ==
  ASSUME Types, CallsInv, Mgr!IInv, Between, AllGood, AppReceives
  PROVE  AllGood'
<1> DEFINE f == Head(toApp)
<1>0. /\ UNCHANGED <<rx, toNode, result, caller>>
      /\ toApp # <<>> /\ toApp' \in {toApp, Tail(toApp)} /\ f \in Answers
      /\ \/ HearsAck(f) \/ HearsNack(f) \/ HearsBlock(f)
  BY AppStepCases, CallsKept DEF resVars
<1>1. UNCHANGED <<thread, ToNode>>
  BY <1>0 DEF thread, ToNode
<1>2. f \in ToApp /\ ToApp' \subseteq ToApp /\ ToApp \subseteq ToApp' \cup {f} /\ ~Quiet
  BY <1>0, AppChannel DEF Between
<1>3. CASE HearsAck(f)
  <2>1. /\ caller'.pc \in {"request", "awaitAck"} => pending'.acked
        /\ pending'.done = pending.done /\ pending'.ok = pending.ok
        /\ pending'.received = pending.received
    BY <1>0, <1>3 DEF HearsAck, AllGood, WaitsGood
  <2>2. \A i \in Index : Comes(i) => Comes(i)'
    BY <1>1, <1>2, <1>3, <2>1 DEF Comes, HearsAck
  <2> QED
    BY <1>0, <1>1, <1>2, <2>1, <2>2 DEF AllGood, WaitsGood, OutcomeGood
<1>4. CASE HearsNack(f)
  BY <1>2, <1>4 DEF HearsNack, AllGood, OutcomeGood
<1>5. CASE HearsBlock(f) /\ Gathering
  <2>1. /\ pending'.received = pending.received \cup {f.seq}
        /\ pending'.ok <=> pending'.received = Index
        /\ pending'.done = (pending.done \/ pending'.received = Index)
    BY <1>5, HearsBlockNext DEF HearsBlock
  <2>2. pending'.done => pending'.ok
    <3>1. CASE pending.done
      <4>1. pending.received = Index /\ f.seq \in Index
        BY <1>0, <3>1, CallerFacts DEF AllGood, OutcomeGood, Answers
      <4> QED
        BY <2>1, <4>1
    <3>2. CASE ~pending.done
      BY <2>1, <3>2
    <3> QED
      BY <3>1, <3>2
  <2>3. \A i \in Index : Comes(i) => Comes(i)'
    BY <1>1, <1>2, <2>1 DEF Comes
  <2> QED
    BY <1>0, <1>1, <1>2, <1>5, <2>1, <2>2, <2>3
    DEF AllGood, WaitsGood, OutcomeGood, Gathering
<1>6. CASE HearsBlock(f) /\ ~Gathering
  <2>1. pending' = pending /\ Moving
    BY <1>2, <1>6 DEF HearsBlock, Moving
  <2>2. ~InCall
    BY <1>6, <2>1 DEF Between, DataInv, Gathering
  <2> QED
    BY <1>0, <1>1, <1>2, <2>1, <2>2 DEF AllGood, WaitsGood, OutcomeGood, InCall
<1> QED
  BY <1>0, <1>3, <1>4, <1>5, <1>6

LEMMA NodeReceivesGood ==
  ASSUME Types, CallsInv, Mgr!IInv, Between, AllGood, NodeReceives
  PROVE  AllGood'
<1> DEFINE f == Head(toNode)
<1>0. /\ UNCHANGED <<pending, toApp, result, caller>>
      /\ toNode # <<>> /\ toNode' \in {toNode, Tail(toNode)} /\ thread.pc = "idle"
      /\ TakesRequest(f) \/ TakesStart(f)
  BY NodeTakes, CallsKept DEF iniVars
<1>1. f \in ToNode /\ ToNode \subseteq ToNode' \cup {f} /\ ~Quiet /\ ToApp' = ToApp
  BY <1>0, NodeChannel DEF Between, ToApp
<1>2. CASE TakesRequest(f)
  <2>1. handler
    BY <1>1, TransferAssumption DEF Between, FramesInv, CallsInv, Calls
  <2>2. thread'.pc = "handler"
    BY <1>2, <2>1 DEF TakesRequest
  <2>3. \A i \in Index : Comes(i) => Comes(i)'
    BY <1>0, <1>1, <1>2 DEF Comes, TakesRequest
  <2>4. ~Quiet'
    BY <2>2 DEF Quiet
  <2> QED
    BY <1>0, <1>1, <2>2, <2>3, <2>4 DEF AllGood, WaitsGood, OutcomeGood
<1>3. CASE TakesStart(f)
  <2>1. thread'.pc = "transfers" /\ thread'.todo = Index
    BY <1>1, <1>3 DEF Between, FramesInv, SessionInv, TakesStart
  <2>2. ~Quiet' /\ \A i \in Index : Comes(i)'
    BY <2>1 DEF Quiet, Comes
  <2> QED
    BY <1>0, <1>1, <2>1, <2>2 DEF AllGood, WaitsGood, OutcomeGood
<1> QED
  BY <1>0, <1>2, <1>3

LEMMA WorksGood ==
  ASSUME Types, CallsInv, Mgr!IInv, Between, AllGood, Works, Faultless'
  PROVE  AllGood'
<1>0. /\ UNCHANGED <<pending, toNode, result, caller>>
      /\ Reads \/ Stores \/ SendsReply \/ SendsBlock
  BY NodeStepCases, CallsKept DEF iniVars
<1>1. ToNode' = ToNode
  BY <1>0 DEF ToNode
<1>2. CASE Reads
  <2>1. thread.pc = "handler" /\ thread'.pc = "store" /\ toApp' = toApp
    BY <1>2 DEF Reads, Between, SessionInv, Faultless
  <2>2. ToApp' = ToApp /\ ~Quiet'
    BY <2>1 DEF ToApp, Quiet
  <2>3. \A i \in Index : Comes(i) => Comes(i)'
    BY <1>0, <1>1, <2>1, <2>2 DEF Comes
  <2> QED
    BY <1>0, <2>1, <2>2, <2>3 DEF AllGood, WaitsGood, OutcomeGood
<1>3. CASE Stores
  <2>1. /\ thread.pc = "store" /\ thread'.pc = "reply" /\ thread'.out = "ack"
        /\ toApp' = toApp
    BY <1>3 DEF Stores
  <2>2. ToApp' = ToApp /\ ~Quiet'
    BY <2>1 DEF ToApp, Quiet
  <2>3. \A i \in Index : Comes(i) => Comes(i)'
    BY <1>0, <1>1, <2>1, <2>2 DEF Comes
  <2> QED
    BY <1>0, <2>1, <2>2, <2>3 DEF AllGood, WaitsGood, OutcomeGood
<1>4. CASE SendsReply
  <2>1. /\ thread.pc = "reply" /\ thread'.pc = "idle" /\ thread.out = "ack"
        /\ toApp' = Append(toApp, Answer("ack", 0, 0))
    BY <1>4 DEF SendsReply, AllGood, OutcomeGood
  <2>2. Answer("ack", 0, 0) \in Answers /\ Answer("ack", 0, 0).type = "ack"
    BY TransferAssumption DEF Answers, Answer, Index
  <2>3. ToApp' = ToApp \cup {Answer("ack", 0, 0)}
    BY <2>1, <2>2, LastJoins DEF ToApp, Types
  <2>4. ~Quiet'
    BY <2>3 DEF Quiet
  <2>5. \A i \in Index : Comes(i) => Comes(i)'
    BY <1>0, <1>1, <2>1, <2>3 DEF Comes
  <2> QED
    BY <1>0, <2>1, <2>2, <2>3, <2>4, <2>5 DEF AllGood, WaitsGood, OutcomeGood
<1>5. CASE SendsBlock
  <2> DEFINE g == Answer("transfer", Min(thread.todo), thread.content)
  <2>1. /\ thread.pc = "transfers" /\ toApp' = Append(toApp, g)
        /\ \/ thread'.pc = "idle" /\ thread.todo = {Min(thread.todo)}
           \/ thread'.pc = "transfers" /\ thread'.todo = thread.todo \ {Min(thread.todo)}
    BY <1>5 DEF SendsBlock
  <2>2. g \in Answers /\ g.type = "transfer" /\ g.seq = Min(thread.todo)
    <3>1. Min(thread.todo) \in Index /\ thread.content \in Versions
      BY <2>1, ThreadType DEF Types
    <3> QED
      BY <3>1 DEF Answers, Answer
  <2>3. ToApp' = ToApp \cup {g}
    BY <2>1, <2>2, LastJoins DEF ToApp, Types
  <2> HIDE DEF g
  <2>4. ~Quiet'
    BY <2>3 DEF Quiet
  <2>5. ASSUME NEW i \in Index, Comes(i) PROVE Comes(i)'
    <3>1. CASE i = Min(thread.todo)
      BY <2>2, <2>3, <3>1 DEF Comes
    <3>2. CASE i # Min(thread.todo)
      BY <1>0, <1>1, <2>1, <2>3, <2>5, <3>2 DEF Comes
    <3> QED
      BY <3>1, <3>2
  <2> QED
    BY <1>0, <2>1, <2>2, <2>3, <2>4, <2>5 DEF AllGood, WaitsGood, OutcomeGood
<1> QED
  BY <1>0, <1>2, <1>3, <1>4, <1>5

LEMMA IdleGood == ASSUME AllGood, Idle PROVE AllGood'
<1>1. UNCHANGED <<pending, call, rx, toNode, toApp, result>>
  BY DEF Idle, iniVars
<1>2. UNCHANGED <<caller, thread, ToNode, ToApp>>
  BY <1>1 DEF caller, thread, ToNode, ToApp
<1> QED
  BY <1>1, <1>2 DEF AllGood, WaitsGood, OutcomeGood, Comes, Quiet

LEMMA GoodNext ==
  ASSUME Patient, Types, Mgr!IInv, TInv, GoodInv, [Next]_vars
  PROVE  GoodInv'
<1> SUFFICES ASSUME Faultless' PROVE AllGood'
  BY DEF GoodInv, AllGood
<1>1. Faultless /\ ~BusLoses /\ AllGood
  BY FaultlessBefore DEF GoodInv, AllGood
<1>2. CallsInv /\ Between
  BY DEF TInv, Between
<1> QED
  BY <1>1, <1>2, StepCases, BeginGood, MovesGood, AppReceivesGood, NodeReceivesGood,
     WorksGood, IdleGood

(* getBlock() returns false only for a reason: a frame was lost, an answer *)
(* was still to come when the call gave up, or the handler refused.  What  *)
(* comes twice, and the second run of the handler it causes, does not make *)
(* a call fail, provided that the caller waits for the bus to fall silent  *)
(* before a call.                                                          *)
THEOREM FailuresHaveReason == ASSUME Patient PROVE Spec => []FailureHasReason
<1>1. Init => GoodInv
  <2> SUFFICES ASSUME Init PROVE AllGood
    BY DEF GoodInv, AllGood
  <2>1. /\ toApp = <<>> /\ thread.pc = "idle" /\ caller.pc = "idle"
        /\ ~pending.done /\ pending.received = {}
        /\ result = [k \in Calls |-> "unused"]
    BY DEF Init, Ini!Init, Ini!NoCall, Ini!NoPending, Res!ServeInit, Res!Resting, caller, thread
  <2>2. ToApp = {}
    BY TransferInit, TypesInit, QuietIsSilent, <2>1 DEF ToApp, Carried
  <2>3. Index # {}
    BY TypesInit, ReadsFacts
  <2> QED
    BY <2>1, <2>2, <2>3 DEF AllGood, WaitsGood, OutcomeGood
<1>2. Types /\ Mgr!IInv /\ TInv /\ GoodInv /\ [Next]_vars => GoodInv'
  BY GoodNext
<1>3. Types /\ GoodInv => FailureHasReason
  <2> SUFFICES ASSUME Types, GoodInv, NEW k \in Calls, result[k] = "failed"
               PROVE  lost > 0 \/ excused
    BY DEF FailureHasReason
  <2>1. lost \in Nat
    BY TransferAssumption DEF Types
  <2> QED
    BY <2>1 DEF GoodInv, Faultless, OutcomeGood
<1> QED
  BY <1>1, <1>2, <1>3, TransferHolds, PTL DEF Spec

----------------------------------------------------------------------------
(* What is left when callers do not wait for the bus to fall silent        *)

MadeParts ==
    /\ UNCHANGED readFor
    /\ lastData' = lastData /\ (Won' => Won)

LEMMA MadeKept ==
  ASSUME MadeInv, MadeParts, UNCHANGED <<thread, session, pending>>, ToApp' \subseteq ToApp
  PROVE  MadeInv'
  BY DEF MadeInv, MadeParts, Made

LEMMA MovesMade ==
  ASSUME Types, CallsInv, Mgr!IInv, MadeInv, Moves
  PROVE  MadeInv'
<1>1. /\ UNCHANGED <<resVars, toApp, readFor, lastData>> /\ InCall /\ Returns
      /\ Asks \/ Goes \/ Starts \/ Back
      /\ CallsInv
  BY CallerStepCases
<1>2. UNCHANGED <<thread, session, ToApp>>
  BY <1>1 DEF thread, session, ToApp, resVars
<1>3. pending' = pending \/ (pending'.received = {} /\ ~pending'.ok)
  BY <1>1 DEF Asks, Goes, Starts, Back, Ini!NoPending
<1>4. Won' => Won
  <2>1. ASSUME NEW k \in Calls, result'[k] = "ok" PROVE Won
    <3>1. CASE result[k] = "ok"
      BY <3>1 DEF Won
    <3>2. CASE result[k] # "ok"
      <4>1. caller'.pc = "idle" /\ caller'.success
        BY <1>1, <2>1, <3>2 DEF Returns, Types, caller
      <4>2. Back
        BY <1>1, <4>1 DEF Asks, Goes, Starts
      <4> QED
        BY <4>1, <4>2 DEF Back, Won
    <3> QED
      BY <3>1, <3>2
  <2> QED
    BY <1>3, <2>1 DEF Won
<1> QED
  BY <1>1, <1>2, <1>3, <1>4 DEF MadeInv, Made

LEMMA HearsMade ==
  ASSUME Types, CallsInv, Mgr!IInv, MadeInv, AppReceives
  PROVE  MadeInv'
<1> DEFINE f == Head(toApp)
<1>1. /\ UNCHANGED <<resVars, readFor, result>> /\ f \in Answers
      /\ toApp # <<>> /\ toApp' \in {toApp, Tail(toApp)}
      /\ HearsAck(f) \/ HearsNack(f) \/ HearsBlock(f)
  BY AppStepCases
<1>2. ToApp' \subseteq ToApp /\ f \in ToApp
  BY <1>1, HeadLeaves DEF Types, ToApp
<1>3. UNCHANGED <<thread, session>>
  BY <1>1 DEF thread, session, resVars
<1>4. CASE \/ HearsAck(f) \/ HearsNack(f) \/ (HearsBlock(f) /\ ~Gathering)
  <2>1. /\ lastData' = lastData /\ (pending'.ok => pending.ok)
        /\ pending'.received = pending.received /\ pending'.blocks = pending.blocks
    BY <1>4 DEF HearsAck, HearsNack, HearsBlock
  <2> QED
    BY <1>1, <1>2, <1>3, <2>1 DEF MadeInv, Made, Won
<1>5. CASE HearsBlock(f) /\ Gathering
  <2> DEFINE blocks   == [pending.blocks EXCEPT ![f.seq] = f.data]
             received == pending.received \cup {f.seq}
  <2>1. /\ pending'.received = received /\ pending'.blocks = blocks
        /\ pending'.ok = (pending.ok \/ received = Index)
        /\ lastData' = IF received = Index THEN Ini!Assemble(blocks) ELSE lastData
    BY <1>5 DEF HearsBlock
  <2>2. f.seq \in Index /\ f.data \in Made /\ pending.blocks \in [Index -> Versions \cup {0}]
    BY <1>1, <1>2, <1>5, CallerFacts
    DEF HearsBlock, Answers, MadeInv, Ini!PendingState, Ini!Index, Index, Ini!Block
  <2>3. \A i \in received : blocks[i] \in Made
    BY <2>2, CallerFacts DEF MadeInv
  <2>4. /\ lastData' = <<>> \/ lastData' \in [1 .. NumBlocks -> Made]
        /\ (received = Index => lastData' # <<>>)
    <3>1. CASE received = Index
      <4>1. Made \subseteq Versions /\ 0 \notin Versions
        BY ReadsFacts, TransferAssumption DEF Made, Versions
      <4>2. \A i \in Index : blocks[i] \in Made /\ blocks[i] # 0
        BY <2>3, <3>1, <4>1
      <4>3. PICK b : b = blocks
        OBVIOUS
      <4>4. Ini!Assemble(b) = [n \in 1 .. NumBlocks |-> b[n - 1]]
        BY <4>2, <4>3, JoinedBlocks
      <4>5. \A n \in 1 .. NumBlocks : n - 1 \in Index
        BY TransferAssumption DEF Index
      <4>6. [n \in 1 .. NumBlocks |-> b[n - 1]] \in [1 .. NumBlocks -> Made]
        BY <4>2, <4>3, <4>5
      <4>7. lastData' \in [1 .. NumBlocks -> Made]
        BY <2>1, <3>1, <4>3, <4>4, <4>6
      <4> QED
        BY <4>7, FilledSome
    <3>2. CASE received # Index
      BY <2>1, <3>2 DEF MadeInv
    <3> QED
      BY <3>1, <3>2
  <2>5. pending'.ok \in BOOLEAN /\ (Won' => Won \/ received = Index)
    BY <1>1, <2>1, CallerFacts DEF Won, Ini!PendingState
  <2>6. Won => lastData' # <<>>
    BY <2>1, <2>4 DEF MadeInv
  <2> QED
    BY <1>1, <1>2, <1>3, <2>1, <2>3, <2>4, <2>5, <2>6 DEF MadeInv, Made
<1> QED
  BY <1>1, <1>4, <1>5

LEMMA TakesMade ==
  ASSUME Types, MadeInv, NodeReceives
  PROVE  MadeInv'
<1>1. /\ UNCHANGED <<iniVars, toApp, result, readFor, sessions>>
      /\ TakesRequest(Head(toNode)) \/ TakesStart(Head(toNode))
  BY NodeTakes
<1>2. UNCHANGED <<session, ToApp>>
  BY <1>1 DEF session, ToApp
<1>3. /\ thread'.pc \in {"handler", "store"} => thread'.numBlocks = NumBlocks
      /\ thread'.pc \in {"store", "transfers"} => thread'.content \in Made
  BY <1>1 DEF TakesRequest, TakesStart, MadeInv
<1> QED
  BY <1>1, <1>2, <1>3 DEF MadeInv, Made, Won, iniVars

LEMMA WorksMade ==
  ASSUME Types, MadeInv, Works
  PROVE  MadeInv'
<1>1. /\ UNCHANGED <<iniVars, result>>
      /\ Reads \/ Stores \/ SendsReply \/ SendsBlock
  BY NodeStepCases
<1>2. UNCHANGED <<pending, lastData, Won>>
  BY <1>1 DEF iniVars, Won
<1>3. CASE Reads
  <2>1. /\ Made \subseteq Made' /\ Len(readFor) + 1 \in Made'
    <3>1. Len(readFor) \in Nat /\ Made = 1 .. Len(readFor)
      BY ReadsFacts DEF Made
    <3>2. PICK x \in 0 .. MaxCalls : readFor' = Append(readFor, x)
      <4>1. 0 \in 0 .. MaxCalls
        BY TransferAssumption
      <4> QED
        BY <1>3, <4>1, CurrentType DEF Reads
    <3>3. readFor \in Seq(0 .. MaxCalls)
      BY DEF Types
    <3>4. DOMAIN Append(readFor, x) = 1 .. Len(readFor) + 1
      BY <3>3, AppendProperties, LenProperties
    <3>5. Made' = 1 .. Len(readFor) + 1
      BY <3>2, <3>4 DEF Made
    <3> QED
      BY <3>1, <3>5
  <2>2. UNCHANGED <<session, ToApp>>
    BY <1>3 DEF Reads, session, ToApp
  <2>3. /\ thread'.pc \in {"handler", "store"} => thread'.numBlocks = NumBlocks
        /\ thread'.pc \in {"store", "transfers"} => thread'.content \in Made'
    BY <1>3, <2>1 DEF Reads, MadeInv
  <2>4. lastData = <<>> \/ lastData \in [1 .. NumBlocks -> Made']
    BY <2>1 DEF MadeInv
  <2> QED
    BY <1>2, <2>1, <2>2, <2>3, <2>4 DEF MadeInv
<1>4. CASE Stores
  <2>1. ToApp' = ToApp /\ readFor' = readFor
    BY <1>4 DEF Stores, ToApp
  <2> QED
    BY <1>2, <1>4, <2>1 DEF Stores, MadeInv, Made
<1>5. CASE SendsReply
  <2>1. /\ readFor' = readFor /\ session' = session /\ thread'.pc = "idle"
    BY <1>5 DEF SendsReply, session
  <2>2. \A f \in ToApp' : f.type = "transfer" => f \in ToApp
    <3> DEFINE a == Answer(thread.out, 0, 0)
    <3>1. a \in Answers /\ a.type # "transfer"
      BY ThreadType, TransferAssumption
      DEF Types, Answer, Answers, Index, Res!Thread, thread
    <3> HIDE DEF a
    <3>2. Carried(Append(toApp, a)) = Carried(toApp) \cup {a}
      BY <3>1, LastJoins DEF Types
    <3> QED
      BY <1>5, <3>1, <3>2 DEF SendsReply, ToApp, a
  <2> QED
    BY <1>2, <2>1, <2>2 DEF MadeInv, Made
<1>6. CASE SendsBlock
  <2>1. /\ readFor' = readFor /\ session' = session /\ thread.content \in Made
        /\ thread'.pc = "idle" \/ (thread'.pc = "transfers" /\ thread'.content \in Made)
    BY <1>6 DEF SendsBlock, session, MadeInv
  <2>2. \A f \in ToApp' : f \in ToApp \/ f.data \in Made
    <3> DEFINE a == Answer("transfer", Min(thread.todo), thread.content)
    <3>1. a \in Answers /\ a.data = thread.content
      BY <1>6, ThreadType, TransferAssumption
      DEF SendsBlock, Types, Answer, Answers, Index, Res!Thread, Res!BlockIndex, thread
    <3> HIDE DEF a
    <3>2. Carried(Append(toApp, a)) = Carried(toApp) \cup {a}
      BY <3>1, LastJoins DEF Types
    <3> QED
      BY <1>6, <2>1, <3>1, <3>2 DEF SendsBlock, ToApp, a
  <2> QED
    BY <1>2, <2>1, <2>2 DEF MadeInv, Made
<1> QED
  BY <1>1, <1>3, <1>4, <1>5, <1>6

LEMMA MadeNext ==
  ASSUME Types, CallsInv, Mgr!IInv, MadeInv, [Next]_vars
  PROVE  MadeInv'
<1>1. ASSUME NEW k \in Calls, Begin(k) PROVE MadeInv'
  <2>1. /\ pending'.received = {} /\ ~pending'.ok
        /\ result' = [result EXCEPT ![k] = "open"]
        /\ UNCHANGED <<resVars, toApp, readFor, lastData>>
    BY <1>1, BeginCall
  <2>2. UNCHANGED <<thread, session, ToApp>>
    BY <2>1 DEF thread, session, ToApp, resVars
  <2>3. Won' => Won
    BY <2>1 DEF Won, Types
  <2> QED
    BY <2>1, <2>2, <2>3 DEF MadeInv, Made
<1>2. CASE Idle \/ BusLoses
  <2>1. UNCHANGED <<iniVars, sessions, rx, result, readFor>>
    BY <1>2 DEF Idle, BusLoses, resVars
  <2>2. ToApp' \subseteq ToApp
    <3>1. toApp' = toApp \/ (toApp # <<>> /\ toApp' = Tail(toApp))
      BY <1>2 DEF Idle, BusLoses
    <3> QED
      BY <3>1, HeadLeaves DEF Types, ToApp
  <2>3. UNCHANGED <<thread, session, pending, lastData, Won>>
    BY <2>1 DEF thread, session, iniVars, Won
  <2> QED
    BY <2>1, <2>2, <2>3, MadeKept DEF MadeParts
<1> QED
  BY <1>1, <1>2, StepCases, MovesMade, HearsMade, TakesMade, WorksMade

LEMMA MadeHolds == Spec => []MadeInv
<1>1. Init => CallsInv /\ MadeInv
  <2> SUFFICES ASSUME Init PROVE CallsInv /\ MadeInv
    OBVIOUS
  <2>1. /\ ToApp = {} /\ thread.pc = "idle" /\ ~session.exists /\ ~pending.ok
        /\ pending.received = {} /\ lastData = <<>> /\ result = [k \in Calls |-> "unused"]
    BY DEF Init, Ini!Init, Ini!NoPending, Res!ServeInit, Res!Resting, Res!NoSession,
       thread, session, ToApp, Carried
  <2>2. MadeInv
    BY <2>1 DEF MadeInv, Won
  <2> QED
    BY <2>2, TransferInit DEF TInv
<1> QED
  BY <1>1, CallsNext, MadeNext, TypesHold, CallerHolds, PTL DEF Spec

(* Even if calls follow each other at once, and blocks of the last call    *)
(* arrive during the next, the cache is empty or has every block, each of  *)
(* them made by a run of the other node's handler: none is left unset.     *)
THEOREM CacheHasNoHoles ==
  Spec => [](lastData = <<>> \/ lastData \in [1 .. NumBlocks -> DOMAIN readFor])
<1>1. MadeInv => lastData = <<>> \/ lastData \in [1 .. NumBlocks -> DOMAIN readFor]
  BY DEF MadeInv, Made
<1> QED
  BY <1>1, MadeHolds, PTL

(* Nor does getBlock() ever return true before there is anything in the    *)
(* cache.                                                                  *)
THEOREM SuccessIsNotInvented ==
  Spec => []((\E k \in Calls : result[k] = "ok") => lastData # <<>>)
<1>1. MadeInv => ((\E k \in Calls : result[k] = "ok") => lastData # <<>>)
  BY DEF MadeInv, Won
<1> QED
  BY <1>1, MadeHolds, PTL

----------------------------------------------------------------------------
(* Every run ends: nothing that the two managers do repeats itself.        *)
(* Work counts what is still to come, and every step uses some of it up.   *)

(* What a frame may set the serving node to: every block sent and received,*)
(* or the handler, the session and an answer.                              *)
FrameCost == 5 + 2 * NumBlocks

(* The steps left in the call under way, with the frames it still sends.   *)
CallerWork ==
    CASE caller.pc = "request"     -> 4 + FrameCost + FrameCost
      [] caller.pc = "awaitAck"    -> 3 + FrameCost
      [] caller.pc = "start"       -> 2 + FrameCost
      [] caller.pc = "awaitBlocks" -> 1
      [] caller.pc = "idle"        -> 0

(* Those of the frame in the node's hands, and what it answers.            *)
ThreadWork ==
    CASE thread.pc = "handler"   -> 4
      [] thread.pc = "store"     -> 3
      [] thread.pc = "reply"     -> 2
      [] thread.pc = "transfers" -> 2 * Cardinality(thread.todo)
      [] thread.pc = "idle"      -> 0

CallCost    == 5 + FrameCost + FrameCost
CallsWork   == CallCost * (MaxCalls - Current)
ToNodeWork  == FrameCost * Len(toNode)
RepeatWork  == FrameCost * (MaxDup - duplicated)
HandlerWork == IF handler THEN 0 ELSE 1

Work == CallsWork + CallerWork + ThreadWork + ToNodeWork + Len(toApp)
        + RepeatWork + (MaxLoss - lost) + HandlerWork

(* Multiples, one more and one less.                                       *)
LEMMA Multiples ==
  ASSUME NEW c \in Nat, NEW n \in Int
  PROVE  /\ c * n \in Int /\ c * (n + 1) = c * n + c /\ c * (n - 1) = c * n - c
         /\ n >= 0 => c * n \in Nat
  OBVIOUS

LEMMA CostsType ==
  FrameCost \in Nat /\ CallCost \in Nat /\ NumBlocks \in Nat /\ FrameCost > 2 * NumBlocks + 4
  BY TransferAssumption DEF FrameCost, CallCost

LEMMA CallerWorkType == ASSUME Types PROVE CallerWork \in Nat
<1>1. caller.pc \in {"request", "awaitAck", "start", "awaitBlocks", "idle"}
  BY DEF Types, Mgr!TInv, Mgr!TypeOK, Mgr!PC, caller
<1> QED
  BY <1>1, CostsType DEF CallerWork

(* The blocks still to be sent are counted, and are not more than there are*)
LEMMA TodoCounted ==
  ASSUME Types
  PROVE  /\ IsFiniteSet(thread.todo)
         /\ Cardinality(thread.todo) \in 0 .. NumBlocks
<1>1. IsFiniteSet(Index) /\ Cardinality(Index) = NumBlocks
  BY TransferAssumption, FS_Interval DEF Index
<1>2. thread.todo \in SUBSET Index
  BY ThreadType DEF Types
<1>3. IsFiniteSet(thread.todo) /\ Cardinality(thread.todo) <= Cardinality(Index)
  BY <1>1, <1>2, FS_Subset
<1>4. Cardinality(thread.todo) \in Nat
  BY <1>3, FS_CardinalityType
<1> QED
  BY <1>1, <1>3, <1>4, CostsType

LEMMA ThreadWorkType == Types => ThreadWork \in Nat /\ ThreadWork < FrameCost
<1> SUFFICES ASSUME Types PROVE ThreadWork \in Nat /\ ThreadWork < FrameCost
  OBVIOUS
<1>1. thread.pc \in {"handler", "store", "reply", "transfers", "idle"}
  BY ThreadType DEF Types, Res!Thread
<1>2. PICK n \in 0 .. NumBlocks : Cardinality(thread.todo) = n
  BY TodoCounted
<1>3. 2 * n \in Nat /\ 2 * n < FrameCost /\ 4 < FrameCost
  BY CostsType
<1> QED
  BY <1>1, <1>2, <1>3, CostsType DEF ThreadWork

(* The parts are natural numbers, before a step and after it.              *)
Parts ==
    /\ CallsWork \in Nat /\ CallerWork \in Nat
    /\ ThreadWork \in Nat /\ ThreadWork < FrameCost
    /\ ToNodeWork \in Nat /\ Len(toNode) \in Nat /\ Len(toApp) \in Nat
    /\ RepeatWork \in Nat /\ duplicated \in Nat
    /\ lost \in Nat /\ MaxLoss - lost \in Nat /\ HandlerWork \in Nat

LEMMA PartsType == Types => Parts
<1> SUFFICES ASSUME Types PROVE Parts
  OBVIOUS
<1>1. Len(toNode) \in Nat /\ Len(toApp) \in Nat
  BY LenProperties DEF Types
<1>2. /\ MaxCalls - Current \in Nat /\ MaxDup - duplicated \in Nat
      /\ MaxLoss - lost \in Nat /\ duplicated \in Nat /\ lost \in Nat
  BY CurrentType, TransferAssumption DEF Types
<1>3. CallsWork \in Nat /\ ToNodeWork \in Nat /\ RepeatWork \in Nat
  BY <1>1, <1>2, CostsType, Multiples DEF CallsWork, ToNodeWork, RepeatWork
<1> QED
  BY <1>1, <1>2, <1>3, CallerWorkType, ThreadWorkType DEF Parts, HandlerWork

(* Putting a frame on a channel.                                           *)
LEMMA AppendLonger ==
  ASSUME NEW X, NEW q \in Seq(X), NEW x
  PROVE  Len(Append(q, x)) = Len(q) + 1
<1>1. q \in Seq(X \cup {x})
  BY SeqMonotonic
<1> QED
  BY <1>1, AppendProperties

(* Taking a frame out of a channel or, once more, leaving it there.        *)
LEMMA ReceiveCosts ==
  ASSUME Types, NEW X, NEW q \in Seq(X), q # <<>>, NEW rest, Receive(q, rest)
  PROVE  \/ /\ Len(rest) = Len(q) - 1 /\ duplicated' = duplicated
         \/ /\ rest = q /\ duplicated' = duplicated + 1
  BY HeadTailProperties DEF Receive

(* What a frame more or less on its way to the node is worth.              *)
LEMMA ToNodeCosts ==
  ASSUME Types
  PROVE  /\ toNode' = toNode => ToNodeWork' = ToNodeWork
         /\ Len(toNode') = Len(toNode) + 1 => ToNodeWork' = ToNodeWork + FrameCost
         /\ Len(toNode') = Len(toNode) - 1 => ToNodeWork' = ToNodeWork - FrameCost
<1>1. PICK n \in Nat : Len(toNode) = n
  BY LenProperties DEF Types
<1>2. /\ ToNodeWork = FrameCost * n /\ ToNodeWork' = FrameCost * Len(toNode')
  BY <1>1 DEF ToNodeWork, FrameCost
<1>3. FrameCost * (n + 1) = FrameCost * n + FrameCost
      /\ FrameCost * (n - 1) = FrameCost * n - FrameCost
  BY CostsType, Multiples
<1> QED
  BY <1>1, <1>2, <1>3

LEMMA RepeatCosts ==
  ASSUME Types
  PROVE  /\ duplicated' = duplicated => RepeatWork' = RepeatWork
         /\ duplicated' = duplicated + 1 => RepeatWork' = RepeatWork - FrameCost
<1>1. MaxDup - duplicated \in Int /\ MaxDup - (duplicated + 1) = (MaxDup - duplicated) - 1
  BY TransferAssumption DEF Types
<1>2. FrameCost * ((MaxDup - duplicated) - 1) = FrameCost * (MaxDup - duplicated) - FrameCost
  BY <1>1, CostsType, Multiples
<1>3. RepeatWork' = FrameCost * (MaxDup - duplicated')
  BY DEF RepeatWork, FrameCost
<1> QED
  BY <1>1, <1>2, <1>3 DEF RepeatWork

(* Whatever a call does is a step towards its end.                         *)
LEMMA CallerGoes ==
  ASSUME Types, NEW pc, Ini!Goto("app", pc)
  PROVE  caller'.pc = pc
  BY DEF Ini!Goto, caller, Types, Mgr!TInv, Mgr!TypeOK

LEMMA CallerReturns ==
  ASSUME Types, NEW s, Ini!Return("app", s)
  PROVE  CallerWork' = 0
<1>1. caller'.pc = "idle"
  BY DEF Ini!Return, caller, Types, Mgr!TInv, Mgr!TypeOK
<1> QED
  BY <1>1 DEF CallerWork

LEMMA CallerSpends ==
  ASSUME Types, CallerSends
  PROVE  \/ /\ Len(toNode') = Len(toNode) + 1 /\ lost' = lost
            /\ CallerWork' = CallerWork - (FrameCost + 1)
         \/ /\ toNode' = toNode /\ lost' = lost + 1 /\ CallerWork' <= CallerWork
<1>1. PICK ok \in BOOLEAN :
        /\ \/ /\ Ini!SendRequest("app", ok)
              /\ toNode' = IF ok THEN Append(toNode, "request") ELSE toNode
           \/ /\ Ini!SendStart("app", ok)
              /\ toNode' = IF ok THEN Append(toNode, "start") ELSE toNode
        /\ lost' = IF ok THEN lost ELSE lost + 1
  BY DEF CallerSends
<1>2. CASE ok
  <2>1. /\ \/ caller.pc = "request" /\ Ini!Goto("app", "awaitAck")
           \/ caller.pc = "start" /\ Ini!Goto("app", "awaitBlocks")
        /\ \E f : toNode' = Append(toNode, f)
    BY <1>1, <1>2 DEF Ini!SendRequest, Ini!SendStart, caller
  <2>2. \/ caller.pc = "request" /\ caller'.pc = "awaitAck"
        \/ caller.pc = "start" /\ caller'.pc = "awaitBlocks"
    BY <2>1, CallerGoes
  <2>3. Len(toNode') = Len(toNode) + 1
    BY <2>1, AppendLonger DEF Types
  <2>4. FrameCost' = FrameCost
    BY DEF FrameCost
  <2> QED
    BY <1>1, <1>2, <2>2, <2>3, <2>4, CostsType DEF CallerWork
<1>3. CASE ~ok
  <2>1. Ini!Return("app", FALSE) /\ toNode' = toNode
    BY <1>1, <1>3 DEF Ini!SendRequest, Ini!SendStart
  <2>2. lost' = lost + 1
    BY <1>1, <1>3
  <2>3. CallerWork' = 0
    BY <2>1, CallerReturns
  <2>4. CallerWork' <= CallerWork
    BY <2>3, CallerWorkType
  <2> QED
    BY <2>1, <2>2, <2>4
<1> QED
  BY <1>2, <1>3

LEMMA CallerMovesOn ==
  ASSUME Types, CallerWakes \/ CallerTimesOut
  PROVE  CallerWork' < CallerWork
<1>1. caller.pc \in {"awaitAck", "awaitBlocks"}
  BY DEF CallerWakes, CallerTimesOut, Ini!WakeOnAck, Ini!WakeOnDone, Ini!AckTimeout,
     Ini!BlocksTimeout, caller
<1>2. CallerWork \in Nat /\ CallerWork > 0
  BY <1>1, CostsType DEF CallerWork
<1>3. CASE \E s : Ini!Return("app", s)
  BY <1>2, <1>3, CallerReturns
<1>4. CASE ~ \E s : Ini!Return("app", s)
  <2>1. caller.pc = "awaitAck" /\ Ini!Goto("app", "start")
    BY <1>4 DEF CallerWakes, CallerTimesOut, Ini!WakeOnAck, Ini!WakeOnDone, Ini!AckTimeout,
       Ini!BlocksTimeout, caller
  <2>2. caller'.pc = "start" /\ FrameCost' = FrameCost
    BY <2>1, CallerGoes DEF FrameCost
  <2> QED
    BY <2>1, <2>2, CostsType DEF CallerWork
<1> QED
  BY <1>3, <1>4

(* What the node does of itself; a frame it sends is on its way.           *)
LEMMA NodeSpends ==
  ASSUME Types, Works
  PROVE  \/ toApp' = toApp /\ ThreadWork' = ThreadWork - 1
         \/ toApp' = toApp /\ ThreadWork' = ThreadWork - 2
         \/ Len(toApp') = Len(toApp) + 1 /\ ThreadWork' = ThreadWork - 2
<1>1. CASE Reads
  BY <1>1 DEF Reads, ThreadWork
<1>2. CASE Stores
  BY <1>2 DEF Stores, ThreadWork
<1>3. CASE SendsReply
  <2>1. Len(toApp') = Len(toApp) + 1
    BY <1>3, AppendLonger DEF SendsReply, Types
  <2> QED
    BY <1>3, <2>1 DEF SendsReply, ThreadWork
<1>4. CASE SendsBlock
  <2> DEFINE m == Min(thread.todo)
  <2>1. Len(toApp') = Len(toApp) + 1
    BY <1>4, AppendLonger DEF SendsBlock, Types
  <2>2. PICK n \in Nat : Cardinality(thread.todo) = n
    BY TodoCounted
  <2>3. m \in thread.todo
    BY <1>4, ThreadType DEF Types, SendsBlock
  <2>4. Cardinality(thread.todo \ {m}) = n - 1
    BY <2>2, <2>3, TodoCounted, FS_RemoveElement
  <2>5. ThreadWork = 2 * n
    BY <1>4, <2>2 DEF SendsBlock, ThreadWork
  <2>6. ThreadWork' = 2 * (n - 1)
    <3>1. CASE thread'.pc = "idle" /\ thread.todo = {m}
      <4> HIDE DEF m
      <4>1. n = 1
        BY <2>2, <3>1, FS_Singleton
      <4>2. ThreadWork' = 0
        BY <3>1 DEF ThreadWork
      <4> QED
        BY <4>1, <4>2
    <3>2. CASE thread'.pc = "transfers" /\ thread'.todo = thread.todo \ {m}
      BY <2>4, <3>2 DEF ThreadWork
    <3> QED
      BY <1>4, <3>1, <3>2 DEF SendsBlock
  <2> QED
    BY <2>1, <2>5, <2>6
<1> QED
  BY <1>1, <1>2, <1>3, <1>4, NodeStepCases

(* A call that begins is one of those still to come.                       *)
LEMMA BeginSpends ==
  ASSUME Types, CallsInv, NEW k \in Calls, Begin(k)
  PROVE  CallsWork' = CallsWork - CallCost /\ CallerWork' = CallerWork + (CallCost - 1)
<1>1. /\ Current' = Current + 1 /\ Current \in Nat
      /\ caller.pc = "idle" /\ caller'.pc = "request"
  BY BeginCall, CurrentType
<1>2. MaxCalls - Current \in Int /\ MaxCalls - (Current + 1) = (MaxCalls - Current) - 1
  BY <1>1, TransferAssumption
<1>3. CallsWork' = CallCost * ((MaxCalls - Current) - 1)
  BY <1>1, <1>2 DEF CallsWork, CallCost, FrameCost
<1>4. CallsWork' = CallsWork - CallCost
  BY <1>2, <1>3, CostsType, Multiples DEF CallsWork
<1>5. CallerWork = 0 /\ CallerWork' = 4 + FrameCost + FrameCost
  BY <1>1 DEF CallerWork, FrameCost
<1> QED
  BY <1>4, <1>5, CostsType DEF CallCost

LEMMA CallsWorkKept ==
  ASSUME Current' = Current
  PROVE  CallsWork' = CallsWork
  BY DEF CallsWork, CallCost, FrameCost

LEMMA StepSpends ==
  ASSUME Types, CallsInv, Mgr!IInv, Next, ~UNCHANGED vars
  PROVE  Work' < Work
<1> DEFINE IdleCaller == CallerWork' = CallerWork /\ CallsWork' = CallsWork
           IdleThread == ThreadWork' = ThreadWork /\ HandlerWork' = HandlerWork
           IdleBus    == /\ RepeatWork' = RepeatWork /\ ToNodeWork' = ToNodeWork
                         /\ lost' = lost
<1>1. Parts /\ Parts'
  BY TypesNext, PartsType, PTL
<1>2. PICK k1 \in Nat, c1 \in Nat, t1 \in Nat, n1 \in Nat, a1 \in Nat, r1 \in Nat,
           l1 \in Nat, h1 \in Nat :
         /\ CallsWork' = k1 /\ CallerWork' = c1 /\ ThreadWork' = t1 /\ ToNodeWork' = n1
         /\ Len(toApp') = a1 /\ RepeatWork' = r1 /\ lost' = l1 /\ HandlerWork' = h1
         /\ t1 < FrameCost
  <2>1. ThreadWork' < FrameCost
    BY <1>1 DEF Parts, FrameCost
  <2> QED
    BY <1>1, <2>1 DEF Parts
<1>3. /\ Work' = k1 + c1 + t1 + n1 + a1 + r1 + (MaxLoss - l1) + h1
      /\ Work = CallsWork + CallerWork + ThreadWork + ToNodeWork + Len(toApp)
                + RepeatWork + (MaxLoss - lost) + HandlerWork
  BY <1>2 DEF Work
<1>4. FrameCost \in Nat /\ FrameCost > 4 /\ MaxLoss \in Nat /\ CallCost \in Nat
  BY CostsType, TransferAssumption
<1> USE <1>1 DEF Parts
<1>5. UNCHANGED <<call, result>> => IdleCaller
  BY DEF CallerWork, caller, CallsWork, CallCost, FrameCost, Current
<1>6. UNCHANGED <<rx, handler>> => IdleThread
  BY DEF ThreadWork, thread, HandlerWork
<1>7. UNCHANGED <<toNode, lost, duplicated>> => IdleBus
  BY ToNodeCosts, RepeatCosts
<1>8. ASSUME NEW k \in Calls, Begin(k) PROVE Work' < Work
  <2>1. IdleThread /\ IdleBus /\ toApp' = toApp
    BY <1>6, <1>7, <1>8 DEF Begin, resVars, busVars
  <2>2. CallsWork' = CallsWork - CallCost /\ CallerWork' = CallerWork + (CallCost - 1)
    BY <1>8, BeginSpends
  <2> QED
    BY <1>2, <1>3, <1>4, <2>1, <2>2
<1>9. CASE Register
  <2>1. IdleCaller /\ IdleBus /\ toApp' = toApp
    BY <1>5, <1>7, <1>9 DEF Register, iniVars, busVars
  <2>2. ThreadWork' = ThreadWork /\ HandlerWork = 1 /\ HandlerWork' = 0
    BY <1>9 DEF Register, Res!SetHandler, HandlerWork, ThreadWork, thread
  <2> QED
    BY <1>2, <1>3, <1>4, <2>1, <2>2
<1>10. CASE Moves
  <2>1. CallsWork' = CallsWork
    <3>1. InCall /\ caller'.to = caller.to /\ Returns /\ handler' = handler
      BY <1>10, CallerStepCases DEF resVars
    <3> QED
      BY <3>1, CallGoesOn, CallsWorkKept
  <2>2. IdleThread /\ toApp' = toApp
    BY <1>6, <1>10, CallerStepCases DEF resVars
  <2>3. CASE CallerSends
    <3>1. RepeatWork' = RepeatWork
      BY <2>3, RepeatCosts DEF CallerSends
    <3>2. \/ /\ ToNodeWork' = ToNodeWork + FrameCost /\ lost' = lost
             /\ CallerWork' = CallerWork - (FrameCost + 1)
          \/ /\ ToNodeWork' = ToNodeWork /\ lost' = lost + 1 /\ CallerWork' <= CallerWork
      BY <2>3, CallerSpends, ToNodeCosts
    <3> QED
      BY <1>2, <1>3, <1>4, <2>1, <2>2, <3>1, <3>2
  <2>4. CASE CallerWakes \/ CallerTimesOut
    <3>1. IdleBus
      BY <1>7, <2>4 DEF CallerWakes, CallerTimesOut, busVars
    <3>2. CallerWork' < CallerWork
      BY <2>4, CallerMovesOn
    <3> QED
      BY <1>2, <1>3, <1>4, <2>1, <2>2, <3>1, <3>2
  <2> QED
    BY <1>10, <2>3, <2>4 DEF Moves
<1>11. CASE AppReceives
  <2>1. IdleCaller /\ IdleThread
    BY <1>5, <1>6, <1>11 DEF AppReceives, resVars, Ini!OnAck, Ini!OnNack, Ini!OnTransfer
  <2>2. /\ toNode' = toNode /\ lost' = lost
        /\ \/ Len(toApp') = Len(toApp) - 1 /\ duplicated' = duplicated
           \/ toApp' = toApp /\ duplicated' = duplicated + 1
    BY <1>11, ReceiveCosts DEF AppReceives, Types
  <2>3. /\ ToNodeWork' = ToNodeWork
        /\ \/ Len(toApp') = Len(toApp) - 1 /\ RepeatWork' = RepeatWork
           \/ Len(toApp') = Len(toApp) /\ RepeatWork' = RepeatWork - FrameCost
    BY <2>2, ToNodeCosts, RepeatCosts
  <2> QED
    BY <1>2, <1>3, <1>4, <2>1, <2>2, <2>3
<1>12. CASE NodeReceives
  <2>1. UNCHANGED <<iniVars, toApp, result, lost, handler>> /\ thread.pc = "idle"
    BY <1>12, NodeTakes
  <2>2. IdleCaller /\ HandlerWork' = HandlerWork /\ ThreadWork = 0
    BY <1>5, <2>1 DEF iniVars, HandlerWork, ThreadWork
  <2>3. \/ Len(toNode') = Len(toNode) - 1 /\ duplicated' = duplicated
        \/ toNode' = toNode /\ duplicated' = duplicated + 1
    BY <1>12, ReceiveCosts DEF NodeReceives, Types
  <2>4. \/ ToNodeWork' = ToNodeWork - FrameCost /\ RepeatWork' = RepeatWork
        \/ ToNodeWork' = ToNodeWork /\ RepeatWork' = RepeatWork - FrameCost
    BY <2>3, ToNodeCosts, RepeatCosts
  <2> QED
    BY <1>2, <1>3, <1>4, <2>1, <2>2, <2>4
<1>13. CASE Works
  <2>1. UNCHANGED <<iniVars, toNode, result, lost, handler>>
    BY <1>13, NodeStepCases
  <2>2. UNCHANGED duplicated
    BY <1>13 DEF Works, NodeReads, NodeStores, NodeSends, busVars
  <2>3. IdleCaller /\ IdleBus /\ HandlerWork' = HandlerWork
    BY <1>5, <1>7, <2>1, <2>2 DEF iniVars, HandlerWork
  <2>4. \/ toApp' = toApp /\ ThreadWork' = ThreadWork - 1
        \/ toApp' = toApp /\ ThreadWork' = ThreadWork - 2
        \/ Len(toApp') = Len(toApp) + 1 /\ ThreadWork' = ThreadWork - 2
    BY <1>13, NodeSpends
  <2> QED
    BY <1>2, <1>3, <1>4, <2>3, <2>4
<1>14. CASE BusLoses
  <2>1. IdleCaller /\ IdleThread /\ RepeatWork' = RepeatWork
    BY <1>5, <1>6, <1>14, RepeatCosts DEF BusLoses, iniVars, resVars
  <2>2. /\ lost' = lost + 1
        /\ \/ Len(toNode') = Len(toNode) - 1 /\ toApp' = toApp
           \/ toNode' = toNode /\ Len(toApp') = Len(toApp) - 1
    BY <1>14, HeadTailProperties DEF BusLoses, Types
  <2>3. \/ ToNodeWork' = ToNodeWork - FrameCost /\ toApp' = toApp
        \/ ToNodeWork' = ToNodeWork /\ Len(toApp') = Len(toApp) - 1
    BY <2>2, ToNodeCosts
  <2> QED
    BY <1>2, <1>3, <1>4, <2>1, <2>2, <2>3
<1>15. ~Rest
  BY DEF Rest
<1> QED
  BY <1>8, <1>9, <1>10, <1>11, <1>12, <1>13, <1>14, <1>15
  DEF Next, Caller, Node, Moves, Works

(* Whatever is lost or comes twice, and however early the caller calls     *)
(* again, each step uses up some of a finite amount of work: no exchange   *)
(* of frames goes on for ever, and a START is answered by finitely many.   *)
THEOREM EveryRunEnds == Spec => [](Work \in Nat) /\ [][Work' < Work]_vars
<1>1. Init => CallsInv
  BY TransferInit DEF TInv
<1>2. Types /\ CallsInv /\ Mgr!IInv /\ [Next]_vars => CallsInv'
  BY CallsNext
<1>3. Types => Work \in Nat
  <2>1. \A i, j \in Nat : i + j \in Nat
    OBVIOUS
  <2>2. SUFFICES ASSUME Types PROVE Work \in Nat
    OBVIOUS
  <2>3. /\ CallsWork \in Nat /\ CallerWork \in Nat /\ ThreadWork \in Nat
        /\ ToNodeWork \in Nat /\ Len(toApp) \in Nat /\ RepeatWork \in Nat
        /\ MaxLoss - lost \in Nat /\ HandlerWork \in Nat
    BY <2>2, PartsType DEF Parts
  <2> QED
    BY <2>1, <2>3, Zenon DEF Work
<1>4. Types /\ CallsInv /\ Mgr!IInv /\ [Next]_vars => [Work' < Work]_vars
  BY StepSpends
<1> QED
  BY <1>1, <1>2, <1>3, <1>4, TypesHold, CallerHolds, PTL DEF Spec

=============================================================================
