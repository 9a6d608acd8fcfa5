---------------------- MODULE SetBlockInitiatorProofs ----------------------
(***************************************************************************)
(* Proofs about SetBlockInitiator, for every set of callers and of peers,  *)
(* every block limit and every interleaving of answers.  The type          *)
(* invariant and CleanAfterwards hold of every behaviour.  The other safety*)
(* properties need a call to have the record `pending' to itself, which    *)
(* nothing in setBlock() enforces: they hold of the behaviours in which    *)
(* the callers take turns (OneAtATime), and so of all behaviours if there  *)
(* is one caller (SingleCaller).                                           *)
(***************************************************************************)
EXTENDS SetBlockInitiator, TLAPS

(* The loop over the blocks never runs past the last one.  Requests start  *)
(* it at zero.                                                             *)
LoopBound(c) ==
    /\ call[c].pc \in {"request", "awaitAck"} => call[c].next = 0
    /\ call[c].pc = "transfer" => call[c].next < call[c].numBlocks

TInv == TypeOK /\ \A c \in Callers : LoopBound(c)

(* setBlock() from the first access to `pending' to the last.              *)
InCall(c) == call[c].pc \notin {"idle", "abort"}

Requesting(c) == call[c].pc \in {"request", "awaitAck"}
Reporting(c)  == call[c].pc \in {"status", "awaitReport"}

(* Callers may be many, but their calls do not overlap.  The abort at the  *)
(* end of a call may: it is sent after the record was given back.          *)
OneAtATime == \A c, d \in Callers : InCall(c) /\ InCall(d) => c = d

SingleCaller == \A c, d \in Callers : c = d

(* `pending' belongs to the call in progress, ...                          *)
Ownership(c) == pending.active /\ pending.peer = call[c].to

(* ... and is blank if there is none.                                      *)
Unowned == (\A c \in Callers : ~InCall(c)) => pending = NoPending

(* The flags of `pending' agree with the phase of the call.                *)
PhaseFlags(c) ==
    /\ pending.waitingReport <=> Reporting(c)
    /\ pending.reportReceived => pending.waitingReport
    /\ pending.ok => pending.reportReceived
    /\ Requesting(c) => pending.waitingRequestAck \/ pending.requestAcked

(* What the flags of `pending' and the phase say about the answers heard.  *)
FlagsMeanAnswers(c) ==
    /\ pending.requestAcked => "ack" \in heard[c]
    /\ call[c].pc \in {"transfer", "arm", "status", "awaitReport"}
          => "ack" \in heard[c]
    /\ pending.ok /\ pending.done /\ Blocks(c) \subseteq pending.bitmap
          => "report" \in heard[c]
    /\ ~call[c].success

(* What the answers heard say about the flags of `pending'.                *)
AnswersMeanFlags(c) ==
    /\ Requesting(c) /\ "ack" \in heard[c] => pending.requestAcked
    /\ "report" \in heard[c] => Reporting(c) /\ pending.reportReceived

CallInv(c) ==
    Ownership(c) /\ PhaseFlags(c) /\ FlagsMeanAnswers(c) /\ AnswersMeanFlags(c)

(* A call that is over keeps what was heard while it lasted.               *)
ResultInv(c) == call[c].success => "report" \in heard[c]

IInv ==
    /\ TInv
    /\ Unowned
    /\ \A c \in Callers : (InCall(c) => CallInv(c)) /\ ResultInv(c)

----------------------------------------------------------------------------
(* The type invariant, for any number of callers.                          *)

LEMMA TypeInit == Init => TInv
  BY InitiatorAssumption
  DEF Init, TInv, TypeOK, NoPending, NoCall, PC, Sending, Waiting, Address,
      Index, LoopBound, PendingRecord, CallRecord

(* A call that gives up leaves a well-typed state.                         *)
LEMMA GiveUpType ==
  ASSUME TInv, NEW c \in Callers, GiveUp(c)
  PROVE  TInv'
  BY InitiatorAssumption
  DEF TInv, TypeOK, GiveUp, Goto, NoPending, PC, Sending, Waiting, Address,
      Index, LoopBound, PendingRecord, CallRecord

(* Storing a result leaves a well-typed record.                            *)
LEMMA SuccessType ==
  ASSUME NEW c \in Callers, NEW s \in BOOLEAN, NEW r \in CallRecord
  PROVE  [r EXCEPT !.success = s] \in CallRecord
  BY DEF CallRecord

LEMMA TypeNext == TInv /\ [Next]_vars => TInv'
<1> SUFFICES ASSUME TInv, [Next]_vars
             PROVE  TInv'
  OBVIOUS
<1> USE InitiatorAssumption
<1> USE DEF TInv, TypeOK, LoopBound, PC, Sending, Waiting, Address, Index,
            PendingRecord, CallRecord
<1>1. ASSUME NEW c \in Callers, NEW e \in BOOLEAN, NEW n \in 0 .. MaxBlocks + 1,
             Refuse(c, e, n)
      PROVE  TInv'
  <2>1. call' \in [Callers -> CallRecord]
    <3> HIDE DEF CallRecord
    <3>1. call' = [call EXCEPT ![c] = [call[c] EXCEPT !.success = FALSE]]
      BY <1>1 DEF Refuse
    <3> QED
      BY <3>1, SuccessType
  <2>2. ASSUME NEW d \in Callers
        PROVE  /\ call'[d].pc = call[d].pc
               /\ call'[d].next = call[d].next
               /\ call'[d].numBlocks = call[d].numBlocks
    BY <1>1, <2>2 DEF Refuse
  <2> QED
    BY <1>1, <2>1, <2>2 DEF Refuse
<1>2. ASSUME NEW c \in Callers, NEW to \in Address, NEW n \in 1 .. MaxBlocks,
             Begin(c, to, n)
      PROVE  TInv'
  <2>1. pending' \in PendingRecord
    BY <1>2 DEF Begin, NoPending
  <2>2. call' \in [Callers -> CallRecord] /\ heard' \in [Callers -> SUBSET {"ack", "report"}]
    BY <1>2 DEF Begin
  <2>3. ASSUME NEW d \in Callers PROVE LoopBound(d)'
    <3>1. CASE d = c
      BY <1>2, <3>1 DEF Begin
    <3>2. CASE d # c
      BY <1>2, <3>2 DEF Begin
    <3> QED
      BY <3>1, <3>2
  <2> QED
    BY <2>1, <2>2, <2>3
<1>3. ASSUME NEW c \in Callers, CallerStep(c)
      PROVE  TInv'
  <2>1. ASSUME NEW sent \in BOOLEAN, SendRequest(c, sent)
        PROVE  TInv'
    BY <2>1, GiveUpType DEF SendRequest, Goto
  <2>2. ASSUME NEW sent \in BOOLEAN, SendTransfer(c, sent)
        PROVE  TInv'
    BY <2>2, GiveUpType DEF SendTransfer
  <2>3. ASSUME NEW sent \in BOOLEAN, SendStatusRequest(c, sent)
        PROVE  TInv'
    BY <2>3, GiveUpType DEF SendStatusRequest, Goto
  <2>4. CASE WakeOnAck(c)
    BY <2>4, GiveUpType DEF WakeOnAck, Goto
  <2>5. CASE AckTimeout(c)
    BY <2>5, GiveUpType DEF AckTimeout
  <2>6. CASE Arm(c)
    <3>1. pending' \in PendingRecord
      BY <2>6 DEF Arm
    <3>2. call' \in [Callers -> CallRecord]
      BY <2>6 DEF Arm, Goto
    <3> QED
      BY <2>6, <3>1, <3>2 DEF Arm, Goto
  <2>7. CASE WakeOnReport(c)
    <3>1. CASE GiveUp(c)
      BY <3>1, GiveUpType
    <3>2. CASE ~GiveUp(c)
      <4>1. pending' \in PendingRecord
        <5>1. pending' = NoPending
          BY <2>7, <3>2, Zenon DEF WakeOnReport
        <5> QED
          BY <5>1 DEF NoPending
      <4>2. PICK s \in BOOLEAN :
              call' = [call EXCEPT ![c].pc = "abort", ![c].success = s]
        <5>1. (Blocks(c) \subseteq pending.bitmap /\ pending.done) \in BOOLEAN
          OBVIOUS
        <5> QED
          BY <2>7, <3>2, <5>1, Zenon DEF WakeOnReport
      <4>3. call' \in [Callers -> CallRecord]
        <5> HIDE DEF CallRecord
        <5>1. call' = [call EXCEPT ![c] = [[call[c] EXCEPT !.pc = "abort"] EXCEPT !.success = s]]
          BY <4>2
        <5>2. [call[c] EXCEPT !.pc = "abort"] \in CallRecord
          BY DEF CallRecord
        <5> QED
          BY <5>1, <5>2, SuccessType
      <4> QED
        BY <2>7, <3>2, <4>1, <4>2, <4>3 DEF WakeOnReport
    <3> QED
      BY <3>1, <3>2
  <2>8. CASE ReportTimeout(c)
    BY <2>8, GiveUpType DEF ReportTimeout
  <2>9. CASE SendAbort(c)
    BY <2>9 DEF SendAbort, Goto
  <2> QED
    BY <1>3, <2>1, <2>2, <2>3, <2>4, <2>5, <2>6, <2>7, <2>8, <2>9 DEF CallerStep
<1>4. ASSUME NEW p \in Peers, OnAck(p)
      PROVE  TInv'
  BY <1>4 DEF OnAck, Hear
<1>5. ASSUME NEW p \in Peers, OnNack(p)
      PROVE  TInv'
  BY <1>5 DEF OnNack
<1>6. ASSUME NEW p \in Peers, NEW d \in BOOLEAN, NEW b \in SUBSET Index,
             OnReport(p, d, b)
      PROVE  TInv'
  BY <1>6 DEF OnReport
<1>7. CASE UNCHANGED vars
  BY <1>7 DEF vars
<1> QED
  BY <1>1, <1>2, <1>3, <1>4, <1>5, <1>6, <1>7 DEF Next, Answer

(* The record and the locals of every call keep their types, and the       *)
(* counter of the transfer loop its range, with any number of callers.     *)
THEOREM TypeCorrect == Spec => []TypeOK
<1>1. TInv => TypeOK
  BY DEF TInv
<1> QED
  BY <1>1, TypeInit, TypeNext, PTL DEF Spec

----------------------------------------------------------------------------
(* Any number of callers, whose calls may overlap: the last one out leaves *)
(* a blank record.                                                         *)

(* A step of one caller is nothing to the locals and answers of another.   *)
LEMMA OthersStay ==
  ASSUME TypeOK, NEW c \in Callers, NEW d \in Callers, d # c,
         \/ \E e \in BOOLEAN, n \in 0 .. MaxBlocks + 1 : Refuse(d, e, n)
         \/ \E to \in Address, n \in 1 .. MaxBlocks : Begin(d, to, n)
         \/ CallerStep(d)
  PROVE  call'[c] = call[c] /\ heard'[c] = heard[c]
<1>1. CASE \E e \in BOOLEAN, n \in 0 .. MaxBlocks + 1 : Refuse(d, e, n)
  BY <1>1 DEF Refuse, TypeOK
<1>2. CASE \E to \in Address, n \in 1 .. MaxBlocks : Begin(d, to, n)
  BY <1>2 DEF Begin, TypeOK
<1>3. CASE CallerStep(d)
  BY <1>3 DEF CallerStep, SendRequest, SendTransfer, SendStatusRequest, SendAbort,
     WakeOnAck, AckTimeout, Arm, WakeOnReport, ReportTimeout, GiveUp, Goto, TypeOK
<1> QED
  BY <1>1, <1>2, <1>3

(* The answers leave a blank record blank, and take back nothing heard.    *)
LEMMA AnswerElsewhere ==
  ASSUME Answer
  PROVE  /\ call' = call
         /\ pending = NoPending => pending' = NoPending
         /\ \A c \in Callers : ResultInv(c) => ResultInv(c)'
<1>1. call' = call
  BY DEF Answer, OnAck, OnNack, OnReport
<1>2. ~NoPending.active
  BY DEF NoPending
<1>3. pending = NoPending => pending' = NoPending
  BY <1>2 DEF Answer, OnAck, OnNack, OnReport
<1>4. ASSUME NEW c \in Callers PROVE heard[c] \subseteq heard'[c]
  BY <1>4 DEF Answer, OnAck, OnNack, OnReport, Hear
<1> QED
  BY <1>1, <1>3, <1>4 DEF ResultInv

(* Giving up ends a call, and the other steps of a call do not.            *)
LEMMA LeaveBlank ==
  ASSUME TypeOK, NEW c \in Callers, CallerStep(c), InCall(c), ~InCall(c)'
  PROVE  pending' = NoPending
<1>1. ASSUME NEW pc, Goto(c, pc) PROVE call'[c].pc = pc
  BY <1>1 DEF Goto, TypeOK, CallRecord
<1>2. ASSUME NEW sent \in BOOLEAN, SendTransfer(c, sent), ~GiveUp(c)
      PROVE  call'[c].pc \in {"arm", "transfer"}
  BY <1>2 DEF SendTransfer, TypeOK, CallRecord
<1> QED
  BY <1>1, <1>2 DEF CallerStep, SendRequest, SendTransfer, SendStatusRequest, SendAbort,
     WakeOnAck, AckTimeout, Arm, WakeOnReport, ReportTimeout, GiveUp, InCall

LEMMA UnownedNext == ASSUME TypeOK, Unowned, [Next]_vars PROVE Unowned'
<1>1. ASSUME NEW d \in Callers, NEW e \in BOOLEAN, NEW n \in 0 .. MaxBlocks + 1,
             Refuse(d, e, n)
      PROVE  Unowned'
  <2>1. pending' = pending /\ \A c \in Callers : call'[c].pc = call[c].pc
    BY <1>1 DEF Refuse, TypeOK, CallRecord
  <2> QED
    BY <2>1 DEF Unowned, InCall
<1>2. ASSUME NEW d \in Callers, NEW to \in Address, NEW n \in 1 .. MaxBlocks,
             Begin(d, to, n)
      PROVE  Unowned'
  <2>1. call'[d].pc = "request"
    BY <1>2 DEF Begin, TypeOK
  <2> QED
    BY <2>1 DEF Unowned, InCall
<1>3. ASSUME NEW d \in Callers, CallerStep(d)
      PROVE  Unowned'
  <2>1. CASE InCall(d)
    BY <1>3, <2>1, LeaveBlank DEF Unowned
  <2>2. CASE ~InCall(d)
    <3>1. SendAbort(d)
      BY <1>3, <2>2 DEF InCall, CallerStep, SendRequest, SendTransfer,
         SendStatusRequest, WakeOnAck, AckTimeout, Arm, WakeOnReport, ReportTimeout
    <3>2. pending' = pending /\ \A c \in Callers : c # d => call'[c] = call[c]
      BY <3>1 DEF SendAbort, Goto, TypeOK
    <3> QED
      BY <2>2, <3>2 DEF Unowned, InCall
  <2> QED
    BY <2>1, <2>2
<1>4. CASE Answer
  BY <1>4, AnswerElsewhere DEF Unowned, InCall
<1>5. CASE UNCHANGED vars
  BY <1>5 DEF vars, Unowned, InCall
<1> QED
  BY <1>1, <1>2, <1>3, <1>4, <1>5 DEF Next

(* However many callers there are, and whether or not their calls overlap, *)
(* the shared record is blank when the last of them is out of setBlock().  *)
THEOREM CleanAfterwards == Spec => []CleanBetweenCalls
<1>1. Init => TInv /\ Unowned
  BY TypeInit DEF Init, Unowned
<1>2. TInv /\ Unowned /\ [Next]_vars => TInv' /\ Unowned'
  BY TypeNext, UnownedNext DEF TInv
<1>3. Unowned => CleanBetweenCalls
  BY DEF Unowned, InCall, CleanBetweenCalls
<1> QED
  BY <1>1, <1>2, <1>3, PTL DEF Spec

----------------------------------------------------------------------------
(* The safety invariant, for calls that have the record to themselves.     *)

LEMMA SafeInit == Init => IInv
<1> SUFFICES ASSUME Init PROVE IInv
  OBVIOUS
<1>1. TInv
  BY TypeInit
<1>2. Unowned
  BY DEF Init, Unowned
<1>3. ASSUME NEW c \in Callers PROVE ~InCall(c) /\ ResultInv(c)
  BY <1>3 DEF Init, NoCall, InCall, ResultInv
<1> QED
  BY <1>1, <1>2, <1>3 DEF IInv

(* A call that gives up is over, and reports no success.                   *)
LEMMA GiveUpSafe ==
  ASSUME IInv, NEW c \in Callers, GiveUp(c), InCall(c)
  PROVE  ~InCall(c)' /\ ResultInv(c)'
<1>1. call'[c].pc = "idle" /\ call'[c].success = call[c].success
  BY DEF GiveUp, Goto, IInv, TInv, TypeOK, CallRecord
<1>2. ~call[c].success
  BY DEF IInv, CallInv, FlagsMeanAnswers
<1> QED
  BY <1>1, <1>2 DEF InCall, ResultInv

(* The steps of the caller that has the record: it keeps what it relies on *)
(* until it is out of the call.                                            *)
LEMMA OwnStep ==
  ASSUME IInv, NEW c \in Callers, CallerStep(c), InCall(c)
  PROVE  (InCall(c)' => CallInv(c)') /\ ResultInv(c)'
<1> USE DEF CallInv, Ownership, PhaseFlags, FlagsMeanAnswers, AnswersMeanFlags,
            InCall, Requesting, Reporting, ResultInv
<1>1. TypeOK /\ CallInv(c) /\ LoopBound(c)
  BY DEF IInv, TInv
<1>2. CASE GiveUp(c)
  BY <1>2, GiveUpSafe
<1>3. CASE ~GiveUp(c)
  <2>1. ASSUME NEW sent \in BOOLEAN, SendRequest(c, sent)
        PROVE  InCall(c)' /\ CallInv(c)' /\ ResultInv(c)'
    BY <1>1, <1>3, <2>1 DEF SendRequest, Goto, TypeOK, CallRecord, Blocks
  <2>2. ASSUME NEW sent \in BOOLEAN, SendTransfer(c, sent)
        PROVE  InCall(c)' /\ CallInv(c)' /\ ResultInv(c)'
    BY <1>1, <1>3, <2>2 DEF SendTransfer, TypeOK, CallRecord, Blocks
  <2>3. ASSUME NEW sent \in BOOLEAN, SendStatusRequest(c, sent)
        PROVE  InCall(c)' /\ CallInv(c)' /\ ResultInv(c)'
    BY <1>1, <1>3, <2>3 DEF SendStatusRequest, Goto, TypeOK, CallRecord, Blocks
  <2>4. ASSUME WakeOnAck(c)
        PROVE  InCall(c)' /\ CallInv(c)' /\ ResultInv(c)'
    BY <1>1, <1>3, <2>4 DEF WakeOnAck, AckArrived, Goto, TypeOK, CallRecord, Blocks
  <2>5. ASSUME Arm(c)
        PROVE  InCall(c)' /\ CallInv(c)' /\ ResultInv(c)'
    BY <1>1, <2>5 DEF Arm, Goto, TypeOK, CallRecord, PendingRecord, Blocks
  <2>6. ASSUME WakeOnReport(c)
        PROVE  ~InCall(c)' /\ ResultInv(c)'
    BY <1>1, <1>3, <2>6 DEF WakeOnReport, TypeOK, CallRecord, Blocks
  <2> QED
    BY <1>1, <1>3, <2>1, <2>2, <2>3, <2>4, <2>5, <2>6
    DEF CallerStep, AckTimeout, ReportTimeout, SendAbort
<1> QED
  BY <1>2, <1>3

(* The answers: what the owner of the record relies on survives them.      *)
LEMMA AnswerSafe ==
  ASSUME IInv, Answer, NEW c \in Callers, InCall(c)
  PROVE  InCall(c)' /\ CallInv(c)'
<1> USE DEF CallInv, Ownership, PhaseFlags, FlagsMeanAnswers, AnswersMeanFlags,
            InCall, Requesting, Reporting
<1>1. TypeOK /\ CallInv(c) /\ LoopBound(c)
  BY DEF IInv, TInv
<1>2. ASSUME NEW p \in Peers, OnAck(p)
      PROVE  InCall(c)' /\ CallInv(c)'
  <2>1. CASE pending.active /\ pending.peer = p /\ pending.waitingRequestAck
    <3>1. heard'[c] = heard[c] \cup {"ack"}
      BY <1>1, <1>2, <2>1 DEF OnAck, Hear, TypeOK, CallRecord
    <3>2. /\ pending'.requestAcked
          /\ \A f \in {"active", "waitingReport", "reportReceived", "done", "ok",
                      "peer", "bitmap"} : pending'[f] = pending[f]
      BY <2>1, <1>1, <1>2 DEF OnAck, TypeOK, PendingRecord
    <3> QED
      BY <1>1, <1>2, <3>1, <3>2 DEF OnAck, Blocks
  <2>2. CASE ~(pending.active /\ pending.peer = p /\ pending.waitingRequestAck)
    <3>1. pending' = pending /\ call' = call
      BY <1>2, <2>2 DEF OnAck
    <3>2. heard'[c] \in {heard[c], heard[c] \cup {"ack"}}
      BY <1>2 DEF OnAck, Hear
    <3>3. heard'[c] # heard[c] => call[c].to = p
      BY <1>2 DEF OnAck, Hear
    <3> QED
      BY <1>1, <2>2, <3>1, <3>2, <3>3 DEF Blocks
  <2> QED
    BY <2>1, <2>2
<1>3. ASSUME NEW p \in Peers, OnNack(p)
      PROVE  InCall(c)' /\ CallInv(c)'
  <2>1. call' = call /\ heard' = heard
    BY <1>3 DEF OnNack
  <2>2. CASE pending' = pending
    BY <1>1, <2>1, <2>2 DEF Blocks
  <2>3. CASE pending' # pending
    <3>1. /\ ~pending'.ok
          /\ \A f \in {"active", "waitingRequestAck", "requestAcked", "waitingReport",
                      "reportReceived", "peer", "bitmap"} : pending'[f] = pending[f]
      BY <2>3, <1>1, <1>3 DEF OnNack, TypeOK, PendingRecord
    <3> QED
      BY <1>1, <2>1, <3>1 DEF Blocks
  <2> QED
    BY <2>2, <2>3
<1>4. ASSUME NEW p \in Peers, NEW d \in BOOLEAN, NEW b \in SUBSET Index,
             OnReport(p, d, b)
      PROVE  InCall(c)' /\ CallInv(c)'
  BY <1>1, <1>4 DEF OnReport, TypeOK, PendingRecord, Blocks
<1> QED
  BY <1>2, <1>3, <1>4 DEF Answer

(* A caller begins while no call is under way.                             *)
LEMMA BeginSafe ==
  ASSUME TypeOK, NEW c \in Callers, NEW to \in Address, NEW n \in 1 .. MaxBlocks,
         Begin(c, to, n)
  PROVE  InCall(c)' /\ CallInv(c)' /\ ResultInv(c)'
  BY DEF Begin, NoPending, TypeOK, CallRecord, Blocks, CallInv, Ownership,
     PhaseFlags, FlagsMeanAnswers, AnswersMeanFlags, InCall, Requesting, Reporting,
     ResultInv

(* What a caller that has the record relies on is a matter of the record,  *)
(* of its locals and of what it heard.                                     *)
LEMMA CallKept ==
  ASSUME NEW c \in Callers, pending' = pending, call'[c] = call[c], heard'[c] = heard[c]
  PROVE  /\ InCall(c)' <=> InCall(c)
         /\ CallInv(c) => CallInv(c)'
         /\ ResultInv(c) => ResultInv(c)'
  BY DEF CallInv, Ownership, PhaseFlags, FlagsMeanAnswers, AnswersMeanFlags,
     InCall, Requesting, Reporting, Blocks, ResultInv

LEMMA SafeNext ==
  ASSUME IInv, OneAtATime, OneAtATime', [Next]_vars
  PROVE  IInv'
<1> DEFINE Safe(c) == (InCall(c) => CallInv(c)) /\ ResultInv(c)
<1>1. TInv /\ TInv' /\ TypeOK /\ Unowned' /\ \A c \in Callers : Safe(c)
  BY TypeNext, UnownedNext DEF IInv, TInv
<1>2. SUFFICES \A c \in Callers : Safe(c)'
  BY <1>1 DEF IInv
<1>3. ASSUME NEW d \in Callers, NEW e \in BOOLEAN, NEW n \in 0 .. MaxBlocks + 1,
             Refuse(d, e, n)
      PROVE  \A c \in Callers : Safe(c)'
  <2>1. pending' = pending /\ heard' = heard
    BY <1>3 DEF Refuse
  <2>2. ~InCall(d) /\ ~InCall(d)' /\ ResultInv(d)'
    BY <1>1, <1>3 DEF Refuse, TypeOK, CallRecord, InCall, ResultInv
  <2>3. \A c \in Callers : c # d => call'[c] = call[c]
    BY <1>1, <1>3 DEF Refuse, TypeOK
  <2>4. ASSUME NEW c \in Callers, c # d PROVE Safe(c)'
    BY <1>1, <2>1, <2>3, <2>4, CallKept
  <2> QED
    BY <2>2, <2>4
<1>4. ASSUME NEW d \in Callers, NEW to \in Address, NEW n \in 1 .. MaxBlocks,
             Begin(d, to, n)
      PROVE  \A c \in Callers : Safe(c)'
  <2>1. InCall(d)' /\ CallInv(d)' /\ ResultInv(d)'
    BY <1>1, <1>4, BeginSafe
  <2>2. ASSUME NEW c \in Callers, c # d PROVE Safe(c)'
    <3>1. ~InCall(c)'
      BY <2>1, <2>2 DEF OneAtATime
    <3>2. call'[c] = call[c] /\ heard'[c] = heard[c]
      BY <1>1, <1>4, <2>2, OthersStay
    <3> QED
      BY <1>1, <3>1, <3>2 DEF ResultInv
  <2> QED
    BY <2>1, <2>2
<1>5. ASSUME NEW d \in Callers, CallerStep(d)
      PROVE  \A c \in Callers : Safe(c)'
  <2>1. \A c \in Callers : c # d => call'[c] = call[c] /\ heard'[c] = heard[c]
    BY <1>1, <1>5, OthersStay
  <2>2. CASE InCall(d)
    <3>1. Safe(d)'
      BY <1>5, <2>2, OwnStep
    <3>2. ASSUME NEW c \in Callers, c # d PROVE Safe(c)'
      <4>1. ~InCall(c)
        BY <2>2, <3>2 DEF OneAtATime
      <4> QED
        BY <1>1, <2>1, <3>2, <4>1 DEF InCall, ResultInv
    <3> QED
      BY <3>1, <3>2
  <2>3. CASE ~InCall(d)
    <3>1. SendAbort(d)
      BY <1>5, <2>3 DEF InCall, CallerStep, SendRequest, SendTransfer,
         SendStatusRequest, WakeOnAck, AckTimeout, Arm, WakeOnReport, ReportTimeout
    <3>2. /\ pending' = pending /\ heard' = heard
          /\ ~InCall(d)' /\ call'[d].success = call[d].success
      BY <1>1, <3>1 DEF SendAbort, Goto, TypeOK, CallRecord, InCall
    <3>3. Safe(d)'
      BY <1>1, <3>2 DEF ResultInv
    <3>4. ASSUME NEW c \in Callers, c # d PROVE Safe(c)'
      BY <1>1, <2>1, <3>2, <3>4, CallKept
    <3> QED
      BY <3>3, <3>4
  <2> QED
    BY <2>2, <2>3
<1>6. CASE Answer
  <2>1. call' = call /\ \A c \in Callers : ResultInv(c) => ResultInv(c)'
    BY <1>6, AnswerElsewhere
  <2>2. \A c \in Callers : InCall(c)' <=> InCall(c)
    BY <2>1 DEF InCall
  <2> QED
    BY <1>1, <1>6, <2>1, <2>2, AnswerSafe
<1>7. CASE UNCHANGED vars
  BY <1>1, <1>7, CallKept DEF vars
<1> QED
  BY <1>3, <1>4, <1>5, <1>6, <1>7 DEF Next

LEMMA TurnsInvariance == Spec /\ []OneAtATime => []IInv
<1>1. IInv /\ OneAtATime /\ OneAtATime' /\ [Next]_vars => IInv'
  BY SafeNext
<1> QED
  BY <1>1, SafeInit, PTL DEF Spec

(* One caller takes turns with nobody.                                     *)
LEMMA Invariance == ASSUME SingleCaller PROVE Spec => []IInv
<1>1. OneAtATime
  BY DEF SingleCaller, OneAtATime
<1> QED
  BY <1>1, TurnsInvariance, PTL

(* Whatever the number of callers that take turns, setBlock() returns true *)
(* only after the peer of this call reported, since the call asked, that   *)
(* all blocks were received and processed.                                 *)
THEOREM SuccessIsReported == Spec /\ []OneAtATime => []SuccessMeansReported
<1>1. IInv => SuccessMeansReported
  BY DEF IInv, ResultInv, SuccessMeansReported
<1> QED
  BY <1>1, TurnsInvariance, PTL

(* If callers take turns, the wait for an answer finds every answer that   *)
(* came after the matching request was about to be sent.                   *)
THEOREM NoAnswerIsLost == Spec /\ []OneAtATime => []NoLostAnswer
<1>1. IInv => NoLostAnswer
  BY DEF IInv, CallInv, AnswersMeanFlags, Requesting, InCall, NoLostAnswer
<1> QED
  BY <1>1, TurnsInvariance, PTL

(* If callers take turns, blocks follow an acknowledgement of the peer.    *)
THEOREM AckBeforeTransfer == Spec /\ []OneAtATime => []TransfersFollowAck
<1>1. IInv => TransfersFollowAck
  BY DEF IInv, CallInv, FlagsMeanAnswers, InCall, TransfersFollowAck
<1> QED
  BY <1>1, TurnsInvariance, PTL
============================================================================
