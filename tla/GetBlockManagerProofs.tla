------------------------ MODULE GetBlockManagerProofs ------------------------
(***************************************************************************)
(* Proofs about the two halves of GetBlockManager, which share nothing but *)
(* the mutex: GetBlockInitiator and GetBlockResponder.                     *)
(*                                                                         *)
(* The first, for all callers, peers, numbers of blocks and payloads, and  *)
(* every interleaving of answers.  The type invariant holds of every       *)
(* behaviour; the safety properties need a call that has the record        *)
(* `pending' to itself, which nothing in getBlock() enforces: the callers  *)
(* have to take turns (OneAtATime), or there has to be one (SingleCaller). *)
(***************************************************************************)
EXTENDS GetBlockInitiator, GetBlockResponder, FiniteSetTheorems, TLAPS

(* A record that waits for blocks has had its ACK.                         *)
TInv == TypeOK /\ (pending.waitingTransfers => pending.acked)

InCall(c)     == call[c].pc # "idle"
Gathering(c)  == call[c].pc \in {"start", "awaitBlocks"}

(* Callers may be many, but their calls do not overlap.                    *)
OneAtATime == \A c, d \in Callers : InCall(c) /\ InCall(d) => c = d

SingleCaller == \A c, d \in Callers : c = d

(* `pending' belongs to the call in progress, ...                          *)
Ownership(c) ==
    /\ pending.peer = call[c].to
    /\ pending.waitingTransfers <=> Gathering(c)
    /\ pending.acked => heard[c].ack
    /\ ~call[c].success

(* ... and is blank if there is none.                                      *)
Unowned == (\A c \in Callers : ~InCall(c)) => pending = NoPending

(* While blocks come in, the record has just those that the peer sent, ... *)
Gathered(c) ==
    /\ Gathering(c) => /\ pending.blocks = heard[c].blocks
                       /\ pending.received = heard[c].sent
    /\ ~Gathering(c) => heard[c].sent = {} /\ heard[c].blocks = NoBlocks

(* ... and the cache is that of before, until the last of them.            *)
CacheInv(c) ==
    lastData = IF heard[c].sent = Index THEN Assemble(heard[c].blocks)
                                        ELSE heard[c].cache

CallInv(c) == Ownership(c) /\ Gathered(c) /\ CacheInv(c)

(* A call that is over keeps what was heard while it lasted, and its blocks*)
(* stay in the cache until another caller has been given others.           *)
ResultInv(c) ==
    call[c].success => /\ heard[c].ack /\ heard[c].sent = Index
                       /\ SingleCaller => lastData = Assemble(heard[c].blocks)

IInv ==
    /\ TInv
    /\ Unowned
    /\ \A c \in Callers : (InCall(c) => CallInv(c)) /\ ResultInv(c)

----------------------------------------------------------------------------
(* The type invariant, for any number of callers.                          *)

CallRecord  == [pc : PC, to : Address, success : BOOLEAN]
HeardRecord == [ack : BOOLEAN, sent : SUBSET Index, blocks : [Index -> Block],
                cache : Cached]

LEMMA BlankTypes ==
  /\ NoBlocks \in [Index -> Block]
  /\ NoPending \in PendingState
  /\ 0 \in Index
<1>1. NoBlocks \in [Index -> Block] /\ 0 \in Index
  BY InitiatorAssumption DEF NoBlocks, Block, Index
<1> QED
  BY <1>1 DEF NoPending, PendingState, Address

LEMMA TypeInit == Init => TInv
<1> SUFFICES ASSUME Init PROVE TInv
  OBVIOUS
<1>1. pending \in PendingState /\ pending.received = {} /\ ~pending.ok /\ ~pending.waitingTransfers
  BY BlankTypes DEF Init, NoPending
<1>2. call \in [Callers -> CallRecord]
  BY DEF Init, NoCall, CallRecord, PC, Address
<1>3. lastData \in Cached
  BY DEF Init, Cached
<1>4. heard \in [Callers -> HeardRecord]
  BY BlankTypes DEF Init, Unheard, HeardRecord, Cached
<1> QED
  BY <1>1, <1>2, <1>3, <1>4 DEF TInv, TypeOK, CallRecord, HeardRecord

(* The record alone: what TInv says of it.                                 *)
PendingOK ==
    /\ pending \in PendingState
    /\ pending.waitingTransfers => pending.acked
    /\ pending.received # {} => pending.acked /\ pending.waitingTransfers
    /\ pending.ok => pending.done /\ pending.received = Index

LEMMA TInvParts ==
  TInv <=> /\ PendingOK
           /\ call \in [Callers -> CallRecord]
           /\ lastData \in Cached
           /\ heard \in [Callers -> HeardRecord]
  BY DEF TInv, TypeOK, PendingOK, CallRecord, HeardRecord

LEMMA TInvNext ==
  ASSUME PendingOK', call' \in [Callers -> CallRecord], lastData' \in Cached,
         heard' \in [Callers -> HeardRecord]
  PROVE  TInv'
  BY DEF TInv, TypeOK, PendingOK, CallRecord, HeardRecord

LEMMA BlankPending == pending' = NoPending => PendingOK'
  BY BlankTypes DEF PendingOK, NoPending

(* A call returns, or goes on.                                             *)
LEMMA ReturnType ==
  ASSUME TInv, NEW c \in Callers, NEW s \in BOOLEAN, Return(c, s)
  PROVE  TInv'
<1>1. call' \in [Callers -> CallRecord]
  BY TInvParts DEF Return, CallRecord, PC
<1> QED
  BY <1>1, BlankPending, TInvParts, TInvNext DEF Return

LEMMA GotoType ==
  ASSUME TInv, NEW c \in Callers, NEW pc \in PC, Goto(c, pc)
  PROVE  call' \in [Callers -> CallRecord]
  BY TInvParts DEF Goto, CallRecord

LEMMA TypeNext == TInv /\ [Next]_vars => TInv'
<1> SUFFICES ASSUME TInv, [Next]_vars
             PROVE  TInv'
  OBVIOUS
<1>0. /\ PendingOK
      /\ call \in [Callers -> CallRecord]
      /\ lastData \in Cached
      /\ heard \in [Callers -> HeardRecord]
  BY TInvParts
<1>1. ASSUME NEW c \in Callers, Refuse(c)
      PROVE  TInv'
  <2>1. call' \in [Callers -> CallRecord]
    BY <1>0, <1>1 DEF Refuse, CallRecord
  <2> QED
    BY <1>0, <1>1, <2>1, TInvNext DEF Refuse, PendingOK
<1>2. ASSUME NEW c \in Callers, NEW to \in Address, Begin(c, to)
      PROVE  TInv'
  <2>1. PendingOK'
    BY <1>2, BlankTypes DEF Begin, PendingOK, PendingState, NoPending
  <2>2. call' \in [Callers -> CallRecord]
    BY <1>0, <1>2 DEF Begin, CallRecord, PC
  <2>3. [Unheard EXCEPT !.cache = lastData] \in HeardRecord
    BY <1>0, BlankTypes DEF Unheard, HeardRecord
  <2>4. heard' \in [Callers -> HeardRecord]
    BY <1>0, <1>2, <2>3 DEF Begin
  <2> QED
    BY <1>0, <1>2, <2>1, <2>2, <2>4, TInvNext DEF Begin
<1>3. ASSUME NEW c \in Callers, CallerStep(c)
      PROVE  TInv'
  <2>1. ASSUME NEW sent \in BOOLEAN, SendRequest(c, sent)
        PROVE  TInv'
    <3>1. CASE Return(c, FALSE)
      BY <3>1, ReturnType
    <3>2. CASE Goto(c, "awaitAck") /\ UNCHANGED <<pending, lastData, heard>>
      BY <1>0, <3>2, GotoType, TInvNext DEF PC, PendingOK
    <3> QED
      BY <2>1, <3>1, <3>2 DEF SendRequest
  <2>2. ASSUME NEW sent \in BOOLEAN, SendStart(c, sent)
        PROVE  TInv'
    <3>1. CASE Return(c, FALSE)
      BY <3>1, ReturnType
    <3>2. CASE Goto(c, "awaitBlocks") /\ UNCHANGED <<pending, lastData, heard>>
      BY <1>0, <3>2, GotoType, TInvNext DEF PC, PendingOK
    <3> QED
      BY <2>2, <3>1, <3>2 DEF SendStart
  <2>3. CASE WakeOnAck(c)
    <3>1. CASE pending.done
      BY <2>3, <3>1, ReturnType DEF WakeOnAck
    <3>2. CASE ~pending.done
      <4>1. pending.acked /\ ~pending.ok
        BY <1>0, <2>3, <3>2 DEF WakeOnAck, AckArrived, PendingOK
      <4>2. PendingOK'
        BY <1>0, <2>3, <3>2, <4>1, BlankTypes DEF WakeOnAck, PendingOK, PendingState
      <4> QED
        BY <1>0, <2>3, <3>2, <4>2, GotoType, TInvNext DEF WakeOnAck, PC
    <3> QED
      BY <3>1, <3>2
  <2>4. CASE AckTimeout(c)
    BY <2>4, ReturnType DEF AckTimeout
  <2>5. CASE WakeOnDone(c)
    <3>1. pending.ok \in BOOLEAN
      BY <1>0 DEF PendingOK, PendingState
    <3> QED
      BY <2>5, <3>1, ReturnType DEF WakeOnDone
  <2>6. CASE BlocksTimeout(c)
    BY <2>6, ReturnType DEF BlocksTimeout
  <2> QED
    BY <1>3, <2>1, <2>2, <2>3, <2>4, <2>5, <2>6 DEF CallerStep
<1>4. ASSUME NEW p \in Peers, OnAck(p)
      PROVE  TInv'
  <2>1. PendingOK'
    BY <1>0, <1>4 DEF OnAck, PendingOK, PendingState
  <2>2. heard' \in [Callers -> HeardRecord]
    BY <1>0, <1>4 DEF OnAck, HeardRecord
  <2> QED
    BY <1>0, <1>4, <2>1, <2>2, TInvNext DEF OnAck
<1>5. ASSUME NEW p \in Peers, OnNack(p)
      PROVE  TInv'
  <2>1. PendingOK'
    BY <1>0, <1>5 DEF OnNack, PendingOK, PendingState
  <2> QED
    BY <1>0, <1>5, <2>1, TInvNext DEF OnNack
<1>6. ASSUME NEW p \in Peers, NEW seq \in Index, NEW data \in Block, OnTransfer(p, seq, data)
      PROVE  TInv'
  <2>1. heard' \in [Callers -> HeardRecord]
    BY <1>0, <1>6 DEF OnTransfer, Hear, HeardRecord
  <2>2. CASE ~(pending.waitingTransfers /\ pending.peer = p)
    BY <1>0, <1>6, <2>1, <2>2, TInvNext DEF OnTransfer, PendingOK
  <2>3. CASE pending.waitingTransfers /\ pending.peer = p
    <3> DEFINE blocks   == [pending.blocks EXCEPT ![seq] = data]
               received == pending.received \cup {seq}
               all      == received = Index
    <3>1. blocks \in [Index -> Block] /\ received \in SUBSET Index /\ all \in BOOLEAN
      BY <1>0 DEF PendingOK, PendingState
    <3>2. /\ pending' = [pending EXCEPT !.blocks = blocks, !.received = received,
                                       !.done = @ \/ all, !.ok = @ \/ all]
          /\ lastData' = IF all THEN Assemble(blocks) ELSE lastData
      BY <1>6, <2>3 DEF OnTransfer
    <3>3. pending.ok => received = Index
      BY <1>0 DEF PendingOK
    <3> HIDE DEF blocks, received, all
    <3>4. PendingOK'
      BY <1>0, <2>3, <3>1, <3>2, <3>3 DEF PendingOK, PendingState, all
    <3>5. lastData' \in Cached
      BY <1>0, <3>1, <3>2 DEF Cached
    <3> QED
      BY <1>0, <1>6, <2>1, <3>4, <3>5, TInvNext DEF OnTransfer
  <2> QED
    BY <2>2, <2>3
<1>7. CASE UNCHANGED vars
  BY <1>0, <1>7, TInvNext DEF vars, PendingOK
<1> QED
  BY <1>1, <1>2, <1>3, <1>4, <1>5, <1>6, <1>7 DEF Next, Answer

(* The record, the cache and the locals of every call keep their types,    *)
(* with any number of callers; blocks come in only after an ACK.           *)
THEOREM TypeCorrect == Spec => []TypeOK
<1>1. TInv => TypeOK
  BY DEF TInv
<1> QED
  BY <1>1, TypeInit, TypeNext, PTL DEF Spec

----------------------------------------------------------------------------
(* The safety invariant, for calls that have the record to themselves.     *)

LEMMA SafeInit == Init => IInv
<1> SUFFICES ASSUME Init PROVE IInv
  OBVIOUS
<1>1. TInv
  BY TypeInit
<1>2. Unowned
  BY DEF Init, Unowned
<1>3. ASSUME NEW c \in Callers PROVE ~InCall(c) /\ ResultInv(c)
  BY <1>3 DEF Init, NoCall, InCall, ResultInv
<1> QED
  BY <1>1, <1>2, <1>3 DEF IInv

(* A call that returns clears the record, and has kept to the cache.       *)
LEMMA ReturnSafe ==
  ASSUME IInv, NEW c \in Callers, NEW s \in BOOLEAN, Return(c, s), InCall(c),
         s => Gathering(c) /\ pending.ok
  PROVE  pending' = NoPending /\ ~InCall(c)' /\ ResultInv(c)'
<1>1. /\ pending' = NoPending /\ lastData' = lastData /\ heard' = heard
      /\ call'[c].pc = "idle" /\ call'[c].success = s
  BY TInvParts DEF Return, IInv, CallRecord
<1>2. CallInv(c) /\ PendingOK
  BY TInvParts DEF IInv
<1>3. s => pending.received = Index /\ pending.acked
  BY <1>2 DEF PendingOK, CallInv, Ownership
<1>4. s => heard[c].sent = Index /\ heard[c].ack
  BY <1>2, <1>3 DEF CallInv, Ownership, Gathered
<1>5. s => lastData = Assemble(heard[c].blocks)
  BY <1>2, <1>4 DEF CallInv, CacheInv
<1> QED
  BY <1>1, <1>4, <1>5 DEF InCall, ResultInv

(* A step that moves a call on and leaves record, cache and answers alone. *)
LEMMA GotoSafe ==
  ASSUME IInv, NEW c \in Callers, NEW pc \in PC, Goto(c, pc), InCall(c), pc # "idle",
         pc \in {"start", "awaitBlocks"} <=> Gathering(c),
         UNCHANGED <<pending, lastData, heard>>
  PROVE  InCall(c)' /\ CallInv(c)' /\ ResultInv(c)'
<1>1. call'[c] = [call[c] EXCEPT !.pc = pc]
  BY TInvParts DEF Goto, IInv
<1>2. /\ call'[c].pc = pc /\ call'[c].to = call[c].to
      /\ call'[c].success = call[c].success
  BY <1>1, TInvParts DEF IInv, CallRecord
<1>3. CallInv(c)
  BY DEF IInv
<1> QED
  BY <1>2, <1>3 DEF CallInv, Ownership, Gathered, CacheInv, ResultInv, InCall, Gathering

(* The steps of the caller that has the record: it keeps what it relies on,*)
(* or gives the record back.                                               *)
LEMMA OwnStep ==
  ASSUME IInv, NEW c \in Callers, CallerStep(c)
  PROVE  /\ InCall(c)
         /\ InCall(c)' => CallInv(c)'
         /\ ~InCall(c)' => pending' = NoPending
         /\ ResultInv(c)'
<1>1. InCall(c)
  BY DEF CallerStep, SendRequest, SendStart, WakeOnAck, AckTimeout, WakeOnDone,
     BlocksTimeout, InCall
<1>2. /\ PendingOK /\ CallInv(c)
      /\ call[c] \in CallRecord /\ heard[c] \in HeardRecord
      /\ call \in [Callers -> CallRecord] /\ heard \in [Callers -> HeardRecord]
  BY <1>1, TInvParts DEF IInv
<1> DEFINE Holds == InCall(c)' /\ CallInv(c)' /\ ResultInv(c)'
           Gives == pending' = NoPending /\ ~InCall(c)' /\ ResultInv(c)'
<1>3. ASSUME NEW sent \in BOOLEAN, SendRequest(c, sent)
      PROVE  Holds \/ Gives
  BY <1>1, <1>3, ReturnSafe, GotoSafe DEF SendRequest, Gathering, PC
<1>4. ASSUME NEW sent \in BOOLEAN, SendStart(c, sent)
      PROVE  Holds \/ Gives
  BY <1>1, <1>4, ReturnSafe, GotoSafe DEF SendStart, Gathering, PC
<1>5. ASSUME WakeOnAck(c)
      PROVE  Holds \/ Gives
  <2>1. CASE pending.done
    BY <1>1, <1>5, <2>1, ReturnSafe DEF WakeOnAck
  <2>2. CASE ~pending.done
    <3>1. pending.acked /\ call[c].pc = "awaitAck"
      BY <1>5, <2>2 DEF WakeOnAck, AckArrived
    <3>2. /\ call'[c].pc = "start" /\ call'[c].to = call[c].to
          /\ call'[c].success = call[c].success
      BY <1>2, <1>5, <2>2 DEF WakeOnAck, Goto, CallRecord
    <3>3. /\ pending'.waitingTransfers /\ pending'.acked = pending.acked
          /\ pending'.peer = pending.peer
          /\ pending'.blocks = NoBlocks /\ pending'.received = {}
          /\ UNCHANGED <<lastData, heard>>
      BY <1>2, <1>5, <2>2 DEF WakeOnAck, PendingOK, PendingState
    <3> QED
      BY <1>2, <3>1, <3>2, <3>3 DEF CallInv, Ownership, Gathered, CacheInv,
         ResultInv, InCall, Gathering
  <2> QED
    BY <2>1, <2>2
<1>6. ASSUME AckTimeout(c) \/ BlocksTimeout(c)
      PROVE  Gives
  BY <1>1, <1>6, ReturnSafe DEF AckTimeout, BlocksTimeout
<1>7. ASSUME WakeOnDone(c)
      PROVE  Gives
  <2>1. pending.ok \in BOOLEAN
    BY <1>2 DEF PendingOK, PendingState
  <2> QED
    BY <1>1, <1>7, <2>1, ReturnSafe DEF WakeOnDone, Gathering
<1> QED
  BY <1>1, <1>3, <1>4, <1>5, <1>6, <1>7 DEF CallerStep

(* A caller begins while no call is under way.                             *)
LEMMA BeginSafe ==
  ASSUME TInv, NEW c \in Callers, NEW to \in Address, Begin(c, to)
  PROVE  InCall(c)' /\ CallInv(c)' /\ ResultInv(c)'
<1>1. call'[c] = [pc |-> "request", to |-> to, success |-> FALSE]
  BY TInvParts DEF Begin
<1>2. heard'[c] = [ack |-> FALSE, sent |-> {}, blocks |-> NoBlocks, cache |-> lastData]
  BY TInvParts DEF Begin, Unheard
<1>3. /\ pending'.peer = to /\ ~pending'.waitingTransfers /\ ~pending'.acked
      /\ lastData' = lastData
  BY DEF Begin, NoPending
<1> QED
  BY <1>1, <1>2, <1>3, BlankTypes DEF CallInv, Ownership, Gathered, CacheInv,
     ResultInv, InCall, Gathering

(* What a caller that has the record relies on is a matter of the record,  *)
(* of the cache, of its locals and of what it heard; what became of a call *)
(* that is over, of all but the record.                                    *)
LEMMA CallKept ==
  ASSUME NEW c \in Callers, call'[c] = call[c], heard'[c] = heard[c]
  PROVE  /\ InCall(c)' <=> InCall(c)
         /\ lastData' = lastData /\ pending' = pending /\ CallInv(c) => CallInv(c)'
         /\ lastData' = lastData \/ ~SingleCaller => (ResultInv(c) => ResultInv(c)')
  BY DEF CallInv, Ownership, Gathered, CacheInv, InCall, Gathering, ResultInv

(* A step of one caller is nothing to the locals and answers of another.   *)
LEMMA OthersStay ==
  ASSUME TInv, NEW c \in Callers, NEW d \in Callers, d # c,
         Refuse(d) \/ (\E to \in Address : Begin(d, to)) \/ CallerStep(d)
  PROVE  call'[c] = call[c] /\ heard'[c] = heard[c] /\ lastData' = lastData
<1>1. call \in [Callers -> CallRecord] /\ heard \in [Callers -> HeardRecord]
  BY TInvParts
<1>2. CASE Refuse(d)
  BY <1>1, <1>2 DEF Refuse
<1>3. CASE \E to \in Address : Begin(d, to)
  BY <1>1, <1>3 DEF Begin
<1>4. CASE CallerStep(d)
  BY <1>1, <1>4 DEF CallerStep, SendRequest, SendStart, WakeOnAck, AckTimeout,
     WakeOnDone, BlocksTimeout, Return, Goto
<1> QED
  BY <1>2, <1>3, <1>4

(* The answers: what the owner of the record relies on survives them.      *)
LEMMA AnswerSafe ==
  ASSUME IInv, Answer, NEW c \in Callers, InCall(c)
  PROVE  InCall(c)' /\ CallInv(c)' /\ ResultInv(c)'
<1>0. /\ PendingOK /\ CallInv(c) /\ ~call[c].success
      /\ call[c] \in CallRecord /\ heard[c] \in HeardRecord
  BY TInvParts DEF IInv, CallInv, Ownership
<1>1. call' = call
  BY DEF Answer, OnAck, OnNack, OnTransfer
<1>2. SUFFICES CallInv(c)'
  BY <1>0, <1>1 DEF InCall, ResultInv
<1>3. ASSUME NEW p \in Peers, OnAck(p)
      PROVE  CallInv(c)'
  <2>1. /\ lastData' = lastData
        /\ heard'[c] = IF call[c].to = p THEN [heard[c] EXCEPT !.ack = TRUE] ELSE heard[c]
    BY <1>3 DEF OnAck
  <2>2. /\ heard'[c].sent = heard[c].sent /\ heard'[c].blocks = heard[c].blocks
        /\ heard'[c].cache = heard[c].cache
        /\ heard[c].ack => heard'[c].ack
        /\ call[c].to = p => heard'[c].ack
    BY <1>0, <2>1 DEF HeardRecord
  <2>3. CASE pending' = pending
    BY <1>0, <1>1, <2>1, <2>2, <2>3 DEF CallInv, Ownership, Gathered, CacheInv, Gathering
  <2>4. CASE pending' # pending
    <3>1. pending.waitingAck /\ pending.peer = p
      BY <1>3, <2>4 DEF OnAck
    <3>2. /\ pending'.peer = pending.peer
          /\ pending'.waitingTransfers = pending.waitingTransfers
          /\ pending'.blocks = pending.blocks /\ pending'.received = pending.received
      BY <1>0, <1>3, <2>4 DEF OnAck, PendingOK, PendingState
    <3>3. call[c].to = p
      BY <1>0, <3>1 DEF CallInv, Ownership
    <3> QED
      BY <1>0, <1>1, <2>1, <2>2, <3>2, <3>3 DEF CallInv, Ownership, Gathered, CacheInv,
         Gathering
  <2> QED
    BY <2>3, <2>4
<1>4. ASSUME NEW p \in Peers, OnNack(p)
      PROVE  CallInv(c)'
  <2>1. UNCHANGED <<lastData, heard>>
    BY <1>4 DEF OnNack
  <2>2. /\ pending'.peer = pending.peer /\ pending'.acked = pending.acked
        /\ pending'.waitingTransfers = pending.waitingTransfers
        /\ pending'.blocks = pending.blocks /\ pending'.received = pending.received
    BY <1>0, <1>4 DEF OnNack, PendingOK, PendingState
  <2> QED
    BY <1>0, <1>1, <2>1, <2>2 DEF CallInv, Ownership, Gathered, CacheInv, Gathering
<1>5. ASSUME NEW p \in Peers, NEW seq \in Index, NEW data \in Block, OnTransfer(p, seq, data)
      PROVE  CallInv(c)'
  <2>1. CASE pending.waitingTransfers /\ pending.peer = p
    <3> DEFINE blocks   == [pending.blocks EXCEPT ![seq] = data]
               received == pending.received \cup {seq}
               all      == received = Index
    <3>1. /\ pending'.peer = pending.peer /\ pending'.acked = pending.acked
          /\ pending'.waitingTransfers = pending.waitingTransfers
          /\ pending'.blocks = blocks /\ pending'.received = received
          /\ lastData' = (IF all THEN Assemble(blocks) ELSE lastData)
      BY <1>0, <1>5, <2>1 DEF OnTransfer, PendingOK, PendingState
    <3>2. /\ Gathering(c) /\ call[c].to = p
          /\ pending.blocks = heard[c].blocks /\ pending.received = heard[c].sent
      BY <1>0, <2>1 DEF CallInv, Ownership, Gathered, Gathering
    <3>3. heard'[c] = [heard[c] EXCEPT !.sent = @ \cup {seq}, !.blocks[seq] = data]
      BY <1>5, <3>2 DEF OnTransfer, Hear, Gathering
    <3>4. /\ heard'[c].sent = received /\ heard'[c].blocks = blocks
          /\ heard'[c].cache = heard[c].cache /\ heard'[c].ack = heard[c].ack
      BY <1>0, <3>2, <3>3 DEF HeardRecord
    <3>5. received # Index => heard[c].sent # Index
      BY <1>0, <3>2 DEF HeardRecord
    <3> HIDE DEF blocks, received
    <3> QED
      BY <1>0, <1>1, <3>1, <3>2, <3>4, <3>5 DEF CallInv, Ownership, Gathered, CacheInv,
         Gathering
  <2>2. CASE ~(pending.waitingTransfers /\ pending.peer = p)
    <3>1. UNCHANGED <<pending, lastData>>
      BY <1>5, <2>2 DEF OnTransfer
    <3>2. ~(call[c].to = p /\ Gathering(c))
      BY <1>0, <2>2 DEF CallInv, Ownership, Gathering
    <3>3. heard'[c] = heard[c]
      BY <1>5, <3>2 DEF OnTransfer, Hear, Gathering
    <3> QED
      BY <1>0, <1>1, <3>1, <3>3, CallKept
  <2> QED
    BY <2>1, <2>2
<1> QED
  BY <1>3, <1>4, <1>5 DEF Answer

(* The answers leave a blank record blank and the cache with it, and to a  *)
(* call that is over nothing is added but an acknowledgement.              *)
LEMMA AnswerElsewhere ==
  ASSUME TInv, Answer
  PROVE  /\ call' = call
         /\ pending = NoPending => pending' = NoPending /\ lastData' = lastData
         /\ \A c \in Callers :
               ~InCall(c) => /\ heard'[c].sent = heard[c].sent
                             /\ heard'[c].blocks = heard[c].blocks
                             /\ heard[c].ack => heard'[c].ack
<1>1. call' = call
  BY DEF Answer, OnAck, OnNack, OnTransfer
<1>2. ~NoPending.waitingAck /\ ~NoPending.waitingTransfers
  BY DEF NoPending
<1>3. pending = NoPending => pending' = NoPending /\ lastData' = lastData
  BY <1>2 DEF Answer, OnAck, OnNack, OnTransfer
<1>4. ASSUME NEW c \in Callers, ~InCall(c)
      PROVE  heard'[c] \in {heard[c], [heard[c] EXCEPT !.ack = TRUE]}
  BY <1>4 DEF Answer, OnAck, OnNack, OnTransfer, Hear, InCall
<1>5. ASSUME NEW c \in Callers, ~InCall(c)
      PROVE  /\ heard'[c].sent = heard[c].sent
             /\ heard'[c].blocks = heard[c].blocks
             /\ heard[c].ack => heard'[c].ack
  <2>1. heard[c] \in HeardRecord
    BY TInvParts
  <2> QED
    BY <1>4, <1>5, <2>1 DEF HeardRecord
<1> QED
  BY <1>1, <1>3, <1>5

LEMMA SafeNext ==
  ASSUME IInv, OneAtATime, OneAtATime', [Next]_vars
  PROVE  IInv'
<1> DEFINE Safe(c) == (InCall(c) => CallInv(c)) /\ ResultInv(c)
<1>1. TInv /\ TInv' /\ Unowned /\ \A c \in Callers : Safe(c)
  BY TypeNext DEF IInv
<1>2. SUFFICES Unowned' /\ \A c \in Callers : Safe(c)'
  BY <1>1 DEF IInv
<1>3. ASSUME NEW d \in Callers, Refuse(d)
      PROVE  Unowned' /\ \A c \in Callers : Safe(c)'
  <2>1. pending' = pending /\ heard' = heard /\ lastData' = lastData
    BY <1>3 DEF Refuse
  <2>2. ~InCall(d) /\ ~InCall(d)' /\ ResultInv(d)'
    BY <1>1, <1>3, TInvParts DEF Refuse, CallRecord, InCall, ResultInv
  <2>3. \A c \in Callers : c # d => call'[c] = call[c]
    BY <1>1, <1>3, OthersStay
  <2>4. \A c \in Callers : InCall(c)' <=> InCall(c)
    BY <2>2, <2>3 DEF InCall
  <2>5. Unowned'
    BY <1>1, <2>1, <2>4 DEF Unowned
  <2>6. ASSUME NEW c \in Callers PROVE Safe(c)'
    <3>1. CASE c = d
      BY <2>2, <3>1
    <3>2. CASE c # d
      BY <1>1, <2>1, <2>3, <3>2, CallKept
    <3> QED
      BY <3>1, <3>2
  <2> QED
    BY <2>5, <2>6
<1>4. ASSUME NEW d \in Callers, NEW to \in Address, Begin(d, to)
      PROVE  Unowned' /\ \A c \in Callers : Safe(c)'
  <2>1. InCall(d)' /\ CallInv(d)' /\ ResultInv(d)'
    BY <1>1, <1>4, BeginSafe
  <2>2. Unowned'
    BY <2>1 DEF Unowned
  <2>3. ASSUME NEW c \in Callers, c # d PROVE Safe(c)'
    <3>1. ~InCall(c)'
      BY <2>1, <2>3 DEF OneAtATime
    <3>2. call'[c] = call[c] /\ heard'[c] = heard[c] /\ lastData' = lastData
      BY <1>1, <1>4, <2>3, OthersStay
    <3> QED
      BY <1>1, <3>1, <3>2, CallKept
  <2> QED
    BY <2>1, <2>2, <2>3
<1>5. ASSUME NEW d \in Callers, CallerStep(d)
      PROVE  Unowned' /\ \A c \in Callers : Safe(c)'
  <2>1. /\ InCall(d)
        /\ InCall(d)' => CallInv(d)'
        /\ ~InCall(d)' => pending' = NoPending
        /\ ResultInv(d)'
    BY <1>5, OwnStep
  <2>2. Unowned'
    BY <2>1 DEF Unowned
  <2>3. ASSUME NEW c \in Callers, c # d PROVE Safe(c)'
    <3>1. call'[c] = call[c] /\ heard'[c] = heard[c] /\ lastData' = lastData
      BY <1>1, <1>5, <2>3, OthersStay
    <3>2. ~InCall(c) /\ ~InCall(c)'
      BY <2>1, <2>3, <3>1 DEF OneAtATime, InCall
    <3> QED
      BY <1>1, <3>1, <3>2, CallKept
  <2> QED
    BY <2>1, <2>2, <2>3
<1>6. CASE Answer
  <2>1. /\ call' = call
        /\ pending = NoPending => pending' = NoPending /\ lastData' = lastData
    BY <1>1, <1>6, AnswerElsewhere
  <2>2. \A c \in Callers : InCall(c)' <=> InCall(c)
    BY <2>1 DEF InCall
  <2>3. Unowned'
    BY <1>1, <2>1, <2>2 DEF Unowned
  <2>4. ASSUME NEW c \in Callers PROVE Safe(c)'
    <3>1. CASE InCall(c)
      BY <1>6, <3>1, AnswerSafe
    <3>2. CASE ~InCall(c)
      <4>1. /\ heard'[c].sent = heard[c].sent /\ heard'[c].blocks = heard[c].blocks
            /\ heard[c].ack => heard'[c].ack
        BY <1>1, <1>6, <3>2, AnswerElsewhere
      <4>2. SingleCaller => lastData' = lastData
        BY <1>1, <2>1, <3>2 DEF SingleCaller, Unowned
      <4>3. ResultInv(c)'
        BY <1>1, <2>1, <4>1, <4>2 DEF ResultInv
      <4> QED
        BY <2>2, <3>2, <4>3
    <3> QED
      BY <3>1, <3>2
  <2> QED
    BY <2>3, <2>4
<1>7. CASE UNCHANGED vars
  <2>1. \A c \in Callers : Safe(c)'
    BY <1>1, <1>7, CallKept DEF vars
  <2>2. Unowned'
    BY <1>1, <1>7 DEF vars, Unowned, InCall
  <2> QED
    BY <2>1, <2>2
<1> QED
  BY <1>3, <1>4, <1>5, <1>6, <1>7 DEF Next

LEMMA TurnsInvariance == Spec /\ []OneAtATime => []IInv
<1>1. IInv /\ OneAtATime /\ OneAtATime' /\ [Next]_vars => IInv'
  BY SafeNext
<1> QED
  BY <1>1, SafeInit, PTL DEF Spec

(* One caller takes turns with nobody.                                     *)
LEMMA Invariance == ASSUME SingleCaller PROVE Spec => []IInv
<1>1. OneAtATime
  BY DEF SingleCaller, OneAtATime
<1> QED
  BY <1>1, TurnsInvariance, PTL

(* A call returns true as the cache holds what its peer sent.              *)
ReturnsWhatIsCached ==
    \A c \in Callers :
        call'[c].success /\ ~call[c].success =>
            /\ heard[c].ack /\ heard[c].sent = Index
            /\ lastData = Assemble(heard[c].blocks) /\ lastData' = lastData

(* Whatever the number of callers that take turns, at the moment getBlock()*)
(* returns true the peer of this call has acknowledged it and sent every   *)
(* block, and the cache holds these.                                       *)
THEOREM SuccessAtReturn == Spec /\ []OneAtATime => [][ReturnsWhatIsCached]_vars
<1>1. IInv /\ [Next]_vars => [ReturnsWhatIsCached]_vars
  <2> SUFFICES ASSUME IInv, Next, NEW c \in Callers, call'[c].success, ~call[c].success
               PROVE  /\ heard[c].ack /\ heard[c].sent = Index
                      /\ lastData = Assemble(heard[c].blocks) /\ lastData' = lastData
    BY DEF ReturnsWhatIsCached
  <2>1. PendingOK /\ call \in [Callers -> CallRecord]
    BY TInvParts DEF IInv
  <2>2. call'[c] # call[c]
    OBVIOUS
  <2>3. Refuse(c) \/ (\E to \in Address : Begin(c, to)) \/ CallerStep(c)
    <3>1. ~Answer
      BY <2>2, AnswerElsewhere DEF IInv
    <3> QED
      BY <2>2, <3>1, OthersStay DEF Next, IInv
  <2>4. ~Refuse(c)
    BY <2>1 DEF Refuse, CallRecord
  <2>5. ~ \E to \in Address : Begin(c, to)
    <3>1. ASSUME NEW to \in Address, Begin(c, to) PROVE ~call'[c].success
      BY <2>1, <3>1 DEF Begin
    <3> QED
      BY <3>1
  <2>6. PICK s \in BOOLEAN : Return(c, s) /\ (s => WakeOnDone(c) /\ pending.ok)
    <3>1. pending.ok \in BOOLEAN
      BY <2>1 DEF PendingOK, PendingState
    <3>2. ASSUME NEW pc, Goto(c, pc) PROVE call'[c].success = call[c].success
      BY <2>1, <3>2 DEF Goto, CallRecord
    <3> QED
      BY <2>3, <2>4, <2>5, <3>1, <3>2
      DEF CallerStep, SendRequest, SendStart, WakeOnAck, AckTimeout, WakeOnDone, BlocksTimeout
  <2>7. s
    BY <2>1, <2>6 DEF Return, CallRecord
  <2>8. Gathering(c) /\ CallInv(c) /\ pending.received = Index /\ pending.acked
    <3>1. call[c].pc = "awaitBlocks" /\ pending.ok
      BY <2>6, <2>7 DEF WakeOnDone
    <3>2. Gathering(c) /\ CallInv(c)
      BY <3>1 DEF Gathering, InCall, IInv
    <3> QED
      BY <2>1, <3>1, <3>2 DEF PendingOK, CallInv, Ownership
  <2>9. heard[c].ack /\ heard[c].sent = Index
    BY <2>8 DEF CallInv, Ownership, Gathered
  <2> QED
    BY <2>6, <2>8, <2>9 DEF CallInv, CacheInv, Return
<1> QED
  BY <1>1, TurnsInvariance, PTL DEF Spec

(* With one caller, what getBlock() returned true for stays in the cache:  *)
(* the peer acknowledged the call, sent every block, and there they are.   *)
(* Another caller's call would bring in other blocks.                      *)
THEOREM SuccessIsCached == ASSUME SingleCaller PROVE Spec => []SuccessMeansCached
<1>1. IInv => SuccessMeansCached
  BY DEF IInv, ResultInv, SuccessMeansCached
<1> QED
  BY <1>1, Invariance, PTL

(* If callers take turns, the cache is what it was before a call until all *)
(* blocks of the call have come: it never holds half a payload.            *)
THEOREM CacheKeepsWhole == Spec /\ []OneAtATime => []CacheIsOldOrWhole
<1>1. IInv => CacheIsOldOrWhole
  BY DEF IInv, CallInv, CacheInv, InCall, CacheIsOldOrWhole
<1> QED
  BY <1>1, TurnsInvariance, PTL

(* Blocks of which none is empty are joined one by one, in their order.    *)
THEOREM WholeAssembly ==
  ASSUME NEW blocks, \A i \in Index : blocks[i] # Empty
  PROVE  Assemble(blocks) = [n \in 1 .. NumBlocks |-> blocks[n - 1]]
<1> DEFINE kept   == {i \in Index : blocks[i] # Empty}
           Nth(n) == CHOOSE i \in kept : Cardinality({j \in kept : j < i}) = n - 1
<1>1. kept = Index
  OBVIOUS
<1>2. Cardinality(kept) = NumBlocks
  <2>1. Cardinality(0 .. NumBlocks - 1) = NumBlocks
    BY InitiatorAssumption, FS_Interval
  <2> HIDE DEF kept
  <2> QED
    BY <1>1, <2>1 DEF Index
<1>3. ASSUME NEW i \in Index PROVE Cardinality({j \in kept : j < i}) = i
  <2>1. {j \in kept : j < i} = 0 .. i - 1
    BY <1>1, InitiatorAssumption DEF Index
  <2>2. Cardinality(0 .. i - 1) = i
    BY FS_Interval, InitiatorAssumption DEF Index
  <2> HIDE DEF kept
  <2> QED
    BY <2>1, <2>2
<1>4. ASSUME NEW n \in 1 .. NumBlocks PROVE Nth(n) = n - 1
  <2>1. n - 1 \in kept
    BY <1>1, InitiatorAssumption DEF Index
  <2>2. \A i \in kept : Cardinality({j \in kept : j < i}) = n - 1 <=> i = n - 1
    BY <1>1, <1>3
  <2> HIDE DEF kept
  <2> QED
    BY <2>1, <2>2
<1>5. Assemble(blocks) = [n \in 1 .. Cardinality(kept) |-> blocks[Nth(n)]]
  BY DEF Assemble
<1> QED
  BY <1>2, <1>4, <1>5

----------------------------------------------------------------------------
(* The serving half, for any peers, receive threads and interfaces.        *)

(* What a thread stores or sends comes from a run of the handler, and what *)
(* it has sent in answer to a START is of the one content that it copied.  *)
ServingInv(t) ==
    /\ rx[t].pc \in {"store", "transfers"} => rx[t].content \in Readings
    /\ \A a, b \in answered[t] : a = b
    /\ rx[t].pc = "transfers" => answered[t] \subseteq {rx[t].content}

ServeInv == ServeTypeOK /\ \A t \in Threads : ServingInv(t)

LEMMA RestingType ==
  ASSUME NEW p \in Clients
  PROVE  /\ Resting(p) \in Thread
         /\ Resting(p).pc = "idle" /\ Resting(p).numBlocks = 1
  BY ResponderAssumption DEF Resting, Thread

LEMMA RestingReplies ==
  ASSUME NEW p \in Clients, NEW a \in {"ack", "nack"}
  PROVE  /\ [Resting(p) EXCEPT !.pc = "reply", !.out = a] \in Thread
         /\ [Resting(p) EXCEPT !.pc = "reply", !.out = a].pc = "reply"
<1>1. 1 \in 1 .. MaxBlocks
  BY ResponderAssumption
<1>2. {} \in SUBSET BlockIndex
  OBVIOUS
<1> QED
  BY <1>1, <1>2 DEF Resting, Thread

(* A step of one thread that leaves the sessions alone.                    *)
LEMMA ThreadOnly ==
  ASSUME ServeInv, NEW t \in Threads, NEW r \in Thread, rx' = [rx EXCEPT ![t] = r],
         NEW s \in SUBSET Readings, answered' = [answered EXCEPT ![t] = s],
         UNCHANGED <<handler, sessions>>,
         r.pc = "transfers" => r.todo \in (SUBSET (0 .. r.numBlocks - 1)) \ {{}},
         r.pc \in {"store", "transfers"} => r.content \in Readings,
         \A a, b \in s : a = b,
         r.pc = "transfers" => s \subseteq {r.content}
  PROVE  ServeInv'
<1>1. rx'[t] = r /\ answered'[t] = s
  BY DEF ServeInv, ServeTypeOK
<1>2. \A u \in Threads : u # t => rx'[u] = rx[u] /\ answered'[u] = answered[u]
  BY DEF ServeInv, ServeTypeOK
<1>3. rx' \in [Threads -> Thread] /\ answered' \in [Threads -> SUBSET Readings]
  BY DEF ServeInv, ServeTypeOK
<1>4. ServeTypeOK'
  BY <1>1, <1>2, <1>3 DEF ServeInv, ServeTypeOK
<1>5. \A u \in Threads : ServingInv(u)'
  BY <1>1, <1>2 DEF ServeInv, ServingInv
<1> QED
  BY <1>4, <1>5 DEF ServeInv

LEMMA ReplyStep ==
  ASSUME ServeInv, NEW t \in Threads, NEW p \in Clients,
         NEW a \in {"ack", "nack"}, Reply(t, p, a),
         UNCHANGED <<handler, sessions>>,
         answered' \in {answered, [answered EXCEPT ![t] = {}]}
  PROVE  ServeInv'
<1> DEFINE r == [Resting(p) EXCEPT !.pc = "reply", !.out = a]
<1>1. r \in Thread /\ r.pc = "reply"
  BY RestingReplies
<1>2. rx' = [rx EXCEPT ![t] = r]
  BY DEF Reply
<1> HIDE DEF r
<1>3. PICK s \in {answered[t], {}} : answered' = [answered EXCEPT ![t] = s]
  BY DEF ServeInv, ServeTypeOK
<1>4. s \in SUBSET Readings /\ \A x, y \in s : x = y
  BY <1>3 DEF ServeInv, ServingInv, ServeTypeOK
<1> QED
  BY <1>1, <1>2, <1>3, <1>4, ThreadOnly

LEMMA ServingNext ==
  ASSUME ServeInv, [ServeNext]_serveVars
  PROVE  ServeInv'
<1>0. \A t \in Threads : rx[t] \in Thread /\ answered[t] \in SUBSET Readings
  BY DEF ServeInv, ServeTypeOK
<1>10. \A t \in Threads : answered = [answered EXCEPT ![t] = @]
  BY DEF ServeInv, ServeTypeOK
<1>1. ASSUME NEW h \in BOOLEAN, SetHandler(h)
      PROVE  ServeInv'
  BY <1>1 DEF SetHandler, ServeInv, ServeTypeOK, ServingInv
<1>2. ASSUME NEW t \in Threads, NEW p \in Clients, NEW low6 \in BlockIndex,
             NEW hasAddress \in BOOLEAN, OnRequest(t, p, low6, hasAddress)
      PROVE  ServeInv'
  <2>1. CASE ~handler
    BY <1>2, <2>1, ReplyStep DEF OnRequest
  <2>2. CASE handler
    <3> DEFINE r == [Resting(p) EXCEPT !.pc = "handler", !.numBlocks = low6 + 1,
                                           !.hasAddress = hasAddress]
    <3>1. low6 + 1 \in 1 .. MaxBlocks
      BY ResponderAssumption DEF BlockIndex
    <3>2. r \in Thread /\ r.pc = "handler"
      BY <3>1, ResponderAssumption DEF Thread, Resting
    <3>3. rx' = [rx EXCEPT ![t] = r] /\ UNCHANGED <<handler, sessions, answered>>
      BY <1>2, <2>2 DEF OnRequest
    <3> HIDE DEF r
    <3>4. answered' = [answered EXCEPT ![t] = answered[t]]
      BY <1>10, <3>3
    <3>5. \A a, b \in answered[t] : a = b
      BY DEF ServeInv, ServingInv
    <3> QED
      BY <1>0, <3>2, <3>3, <3>4, <3>5, ThreadOnly
  <2> QED
    BY <2>1, <2>2
<1>3. ASSUME NEW t \in Threads, NEW p \in Clients, NEW bitmap \in SUBSET BlockIndex,
             OnStart(t, p, bitmap)
      PROVE  ServeInv'
  <2> DEFINE s == sessions[p]
             todo == bitmap \cap 0 .. s.numBlocks - 1
  <2>1. CASE ~s.exists
    BY <1>3, <2>1, ReplyStep DEF OnStart
  <2>2. CASE s.exists
    <3> DEFINE r == [Resting(p) EXCEPT !.pc = IF todo = {} THEN "idle" ELSE "transfers",
                        !.numBlocks = s.numBlocks, !.content = s.content, !.todo = todo]
    <3>1. s \in Session /\ s.content \in Readings
      BY <2>2 DEF ServeInv, ServeTypeOK, Session
    <3>2. /\ r \in Thread
          /\ r.pc = (IF todo = {} THEN "idle" ELSE "transfers")
          /\ r.numBlocks = s.numBlocks /\ r.content = s.content /\ r.todo = todo
      BY <3>1, ResponderAssumption DEF Thread, Session, Resting, BlockIndex
    <3>3. rx' = [rx EXCEPT ![t] = r] /\ answered' = [answered EXCEPT ![t] = {}]
      BY <1>3, <2>2 DEF OnStart
    <3>4. r.pc = "transfers" => r.todo \in (SUBSET (0 .. r.numBlocks - 1)) \ {{}}
      BY <3>2
    <3>5. UNCHANGED <<handler, sessions>>
      BY <1>3 DEF OnStart
    <3> HIDE DEF r, todo
    <3> QED
      BY <3>1, <3>2, <3>3, <3>4, <3>5, ThreadOnly
  <2> QED
    BY <2>1, <2>2
<1>4. ASSUME NEW t \in Threads, NEW p \in Clients, OnAbort(t, p)
      PROVE  ServeInv'
  <2>1. NoSession \in Session /\ ~NoSession.exists
           /\ NoSession.content = Nothing
    BY ResponderAssumption DEF NoSession, Session
  <2>2. ServeTypeOK'
    BY <1>4, <2>1 DEF OnAbort, ServeInv, ServeTypeOK
  <2> QED
    BY <1>4, <2>2 DEF OnAbort, ServeInv, ServingInv
<1>5. ASSUME NEW t \in Threads, NEW ok \in BOOLEAN, NEW size \in 0 .. MaxBlocks,
             NEW content \in Readings, RunHandler(t, ok, size, content)
      PROVE  ServeInv'
  <2>1. rx[t].peer \in Clients
    BY <1>0 DEF Thread
  <2>2. CASE ~(ok /\ size = rx[t].numBlocks /\ rx[t].hasAddress)
    BY <1>5, <2>1, <2>2, ReplyStep DEF RunHandler
  <2>3. CASE ok /\ size = rx[t].numBlocks /\ rx[t].hasAddress
    <3> DEFINE r == [rx[t] EXCEPT !.pc = "store", !.content = content]
    <3>1. r \in Thread /\ r.pc = "store" /\ r.content \in Readings
      BY <1>0 DEF Thread
    <3>2. rx' = [rx EXCEPT ![t] = r] /\ UNCHANGED <<handler, sessions, answered>>
      BY <1>5, <2>3 DEF RunHandler, ServeInv, ServeTypeOK
    <3> HIDE DEF r
    <3>3. answered' = [answered EXCEPT ![t] = answered[t]]
      BY <1>10, <3>2
    <3>4. \A a, b \in answered[t] : a = b
      BY DEF ServeInv, ServingInv
    <3> QED
      BY <1>0, <3>1, <3>2, <3>3, <3>4, ThreadOnly
  <2> QED
    BY <2>2, <2>3
<1>6. ASSUME NEW t \in Threads, Store(t)
      PROVE  ServeInv'
  <2> DEFINE p == rx[t].peer
             s == [exists |-> TRUE, numBlocks |-> rx[t].numBlocks, content |-> rx[t].content]
             r == [Resting(p) EXCEPT !.pc = "reply", !.out = "ack"]
  <2>1. p \in Clients /\ rx[t].content \in Readings
    BY <1>0, <1>6 DEF Thread, Store, ServeInv, ServingInv
  <2>2. s \in Session /\ s.exists /\ s.content # Nothing
    BY <1>0, <2>1, ResponderAssumption DEF Thread, Session
  <2>3. r \in Thread /\ r.pc = "reply"
    BY <2>1, RestingReplies
  <2>4. /\ sessions' = [sessions EXCEPT ![p] = s]
        /\ rx' = [rx EXCEPT ![t] = r]
        /\ UNCHANGED <<handler, answered>>
    BY <1>6 DEF Store, Reply
  <2> HIDE DEF s, r, p
  <2>5. ServeTypeOK'
    BY <2>1, <2>2, <2>3, <2>4 DEF ServeInv, ServeTypeOK
  <2>6. \A u \in Threads : ServingInv(u)'
    BY <2>3, <2>4 DEF ServeInv, ServingInv, ServeTypeOK
  <2> QED
    BY <2>5, <2>6 DEF ServeInv
<1>7. ASSUME NEW t \in Threads, SendTransfer(t)
      PROVE  ServeInv'
  <2> DEFINE rest == rx[t].todo \ {Min(rx[t].todo)}
             s == answered[t] \cup {rx[t].content}
             next == [rx[t] EXCEPT !.todo = rest]
             last == Resting(rx[t].peer)
  <2>1. /\ rx[t].pc = "transfers" /\ rx[t].content \in Readings
        /\ answered[t] \subseteq {rx[t].content}
        /\ rx[t].todo \in SUBSET (0 .. rx[t].numBlocks - 1)
    BY <1>7 DEF SendTransfer, ServeInv, ServingInv, ServeTypeOK
  <2>2. /\ answered' = [answered EXCEPT ![t] = s]
        /\ UNCHANGED <<handler, sessions>>
    BY <1>7 DEF SendTransfer
  <2>3. s \in SUBSET Readings /\ s \subseteq {rx[t].content}
    BY <1>0, <2>1
  <2>4. CASE rest = {}
    <3>1. last \in Thread /\ last.pc = "idle"
      BY <1>0, RestingType DEF Thread
    <3>2. rx' = [rx EXCEPT ![t] = last]
      BY <1>7, <2>4 DEF SendTransfer, ServeInv, ServeTypeOK
    <3> HIDE DEF last, s
    <3> QED
      BY <2>2, <2>3, <3>1, <3>2, ThreadOnly
  <2>5. CASE rest # {}
    <3>1. /\ next \in Thread /\ next.pc = "transfers" /\ next.todo = rest
          /\ next.content = rx[t].content /\ next.numBlocks = rx[t].numBlocks
      BY <1>0, <2>1 DEF Thread
    <3>2. rx' = [rx EXCEPT ![t] = next]
      BY <1>7, <2>5 DEF SendTransfer, ServeInv, ServeTypeOK
    <3>3. next.todo \in (SUBSET (0 .. next.numBlocks - 1)) \ {{}}
      BY <2>1, <2>5, <3>1
    <3>4. next.content \in Readings /\ s \subseteq {next.content} /\ \A a, b \in s : a = b
      BY <2>1, <2>3, <3>1
    <3> HIDE DEF next, s, rest
    <3> QED
      BY <2>2, <2>3, <3>1, <3>2, <3>3, <3>4, ThreadOnly
  <2> QED
    BY <2>4, <2>5
<1>8. ASSUME NEW t \in Threads, SendReply(t)
      PROVE  ServeInv'
  <2> DEFINE r == Resting(rx[t].peer)
  <2>1. r \in Thread /\ r.pc = "idle"
    BY <1>0, RestingType DEF Thread
  <2>2. rx' = [rx EXCEPT ![t] = r] /\ UNCHANGED <<handler, sessions, answered>>
    BY <1>8 DEF SendReply
  <2> HIDE DEF r
  <2>3. answered' = [answered EXCEPT ![t] = answered[t]]
    BY <1>10, <2>2
  <2>4. \A a, b \in answered[t] : a = b
    BY DEF ServeInv, ServingInv
  <2> QED
    BY <1>0, <2>1, <2>2, <2>3, <2>4, ThreadOnly
<1>9. CASE UNCHANGED serveVars
  BY <1>9 DEF serveVars, ServeInv, ServeTypeOK, ServingInv
<1> QED
  BY <1>1, <1>2, <1>3, <1>4, <1>5, <1>6, <1>7, <1>8, <1>9
     DEF ServeNext, Frame, ThreadStep

LEMMA ServingInit == ServeInit => ServeInv
<1> SUFFICES ASSUME ServeInit PROVE ServeInv
  OBVIOUS
<1>1. PICK p \in Clients : rx = [t \in Threads |-> Resting(p)]
  BY DEF ServeInit
<1>2. NoSession \in Session /\ ~NoSession.exists
         /\ NoSession.content = Nothing
  BY ResponderAssumption DEF NoSession, Session
<1>3. ServeTypeOK
  BY <1>1, <1>2, RestingType DEF ServeInit, ServeTypeOK
<1>4. \A t \in Threads : ServingInv(t)
  BY <1>1, RestingType DEF ServeInit, ServingInv
<1> QED
  BY <1>3, <1>4 DEF ServeInv

LEMMA Serving == ServeSpec => []ServeInv
<1> QED
  BY ServingInit, ServingNext, PTL DEF ServeSpec

(* The sessions and the threads that serve getBlock() keep to their types, *)
(* and no block is sent from beyond the end of a session.                  *)
THEOREM ServingTypeCorrect == ServeSpec => []ServeTypeOK
<1>1. ServeInv => ServeTypeOK
  BY DEF ServeInv
<1> QED
  BY Serving, <1>1, PTL

(* The blocks sent in answer to one START come from one run of the handler,*)
(* whatever other threads do to the session meanwhile.                     *)
THEOREM AnswerIsOneRun == ServeSpec => []TransfersOfOneAnswer
<1>1. ServeInv => TransfersOfOneAnswer
  BY DEF ServeInv, ServingInv, TransfersOfOneAnswer
<1> QED
  BY Serving, <1>1, PTL
=============================================================================
