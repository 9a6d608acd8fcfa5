------------------------ MODULE CanTsProtocolProofs ------------------------
(***************************************************************************)
(* Proofs about CanTsProtocol, for any number of nodes, application        *)
(* threads, channels and calls.  A call that is answered has an owner and  *)
(* a receive thread that is free to take the answer; the invariant says    *)
(* so of every record `pending' while a call waits on it.                  *)
(* The second half follows each request from its call to its answer, to    *)
(* show that an answer that matches a record is the answer to its call.    *)
(***************************************************************************)
EXTENDS CanTsProtocol, SequenceTheorems, TLAPS

(* The record of a call names the peer that was called.  It is complete    *)
(* only if the call was not made by the receive thread, and its peer is    *)
(* another node.                                                           *)
OwnerInv(n, t) ==
    LET p == pending[n][call[n][t].kind] IN
    Busy(n, t) => /\ p.waiting /\ p.peer = call[n][t].to
                  /\ p.done => t # Receiver /\ p.peer \in Nodes \ {n}

Senders(n) == {inbox[n][i].from : i \in DOMAIN inbox[n]}

(* No node gets frames of its own.                                         *)
Foreign == \A n \in Nodes : n \notin Senders(n)

(* While nothing is lost, a frame of whoever has spoken has been taken or  *)
(* is on its way.                                                          *)
Heard ==
    lost = 0 => \A n \in Nodes : spoken \ {n} \subseteq peers[n] \cup Senders(n)

IInv ==
    /\ OneOwner
    /\ \A n \in Nodes, t \in Threads : OwnerInv(n, t)
    /\ NestedUnanswered

----------------------------------------------------------------------------
(* Type correctness.  First the values that are written, ...               *)

LEMMA NoChannelType == NoChannel \in Channels
  BY ProtocolAssumption DEF NoChannel

LEMMA BlankTypes ==
  /\ NoPending \in PendingTcTm
  /\ NoCall \in Call
  /\ Idle \in [handler : BOOLEAN, frame : Frame \cup {NoFrame}]
  BY NoChannelType
     DEF NoPending, PendingTcTm, NoCall, Call, Idle, Address, Awaited, Outcomes

LEMMA NoFrameIsNone == NoFrame \notin Frame
  BY DEF NoFrame, Frame, Kinds, Awaited, Casts

(* ... then the operations on the bus, ...                                 *)

LEMMA FirstType ==
  ASSUME TypeOK, NEW n \in Nodes, inbox[n] # <<>>
  PROVE  First(n) \in Frame /\ Tail(inbox[n]) \in Seq(Frame)
<1>1. inbox[n] \in Seq(Frame)
  BY DEF TypeOK
<1> QED
  BY <1>1, HeadTailProperties DEF First

LEMMA TransmitType ==
  ASSUME TypeOK, NEW f \in Frame, Transmit(f)
  PROVE  inbox' \in [Nodes -> Seq(Frame)] /\ spoken' \in SUBSET Nodes
<1>1. ASSUME NEW n \in Nodes
      PROVE  inbox'[n] \in Seq(Frame)
  <2>1. inbox[n] \in Seq(Frame)
    BY DEF TypeOK
  <2>2. Append(inbox[n], f) \in Seq(Frame)
    BY <2>1, AppendProperties
  <2> QED
    BY <2>1, <2>2 DEF Transmit
<1>2. inbox' = [n \in Nodes |-> inbox'[n]]
  BY DEF Transmit
<1>3. spoken' \in SUBSET Nodes
  BY DEF Transmit, TypeOK, Frame
<1> QED
  BY <1>1, <1>2, <1>3

LEMMA TakeType ==
  ASSUME TypeOK, NEW n \in Nodes, Take(n)
  PROVE  inbox' \in [Nodes -> Seq(Frame)] /\ peers' \in [Nodes -> SUBSET Nodes]
<1>1. First(n) \in Frame /\ Tail(inbox[n]) \in Seq(Frame)
  BY FirstType DEF Take
<1>2. inbox' \in [Nodes -> Seq(Frame)]
  BY <1>1 DEF Take, TypeOK
<1>3. First(n).from \in Nodes
  BY <1>1 DEF Frame
<1>4. peers' = [peers EXCEPT ![n] = peers[n] \cup {First(n).from}]
  BY DEF Take
<1>5. peers \in [Nodes -> SUBSET Nodes]
  BY DEF TypeOK
<1>6. peers' \in [Nodes -> SUBSET Nodes]
  BY <1>3, <1>4, <1>5
<1> QED
  BY <1>2, <1>6

(* ... and on the records of the calls.                                    *)

LEMMA ReturnType ==
  ASSUME TypeOK, NEW n \in Nodes, NEW t \in Threads, NEW o \in Outcomes,
         Return(n, t, o)
  PROVE  call' \in [Nodes -> [Threads -> Call]]
<1>1. call[n][t] \in Call
  BY DEF TypeOK
<1>2. [call[n][t] EXCEPT !.pc = "idle", !.outcome = o] \in Call
  BY <1>1 DEF Call
<1> QED
  BY <1>2 DEF Return, TypeOK

LEMMA FailType ==
  ASSUME TypeOK, NEW n \in Nodes, NEW t \in Threads, Fail(n, t)
  PROVE  call' \in [Nodes -> [Threads -> Call]]
  BY BlankTypes DEF Fail, TypeOK

LEMMA ClearType ==
  ASSUME TypeOK, NEW n \in Nodes, NEW k \in Awaited, Clear(n, k)
  PROVE  /\ pending' \in [Nodes -> [Awaited -> PendingTcTm]]
         /\ \A m \in Nodes, l \in Awaited :
                pending'[m][l] = NoPending \/ pending'[m][l].waiting
  BY BlankTypes DEF Clear, TypeOK

(* A call that is over, or that goes on, keeps the receive thread where it *)
(* was: in a handler, if it has a call.                                    *)
LEMMA StillInHandler ==
  ASSUME TypeOK, UNCHANGED rx, NEW n \in Nodes, NEW t \in Threads,
         \A m \in Nodes, u \in Threads :
            <<m, u>> # <<n, t>> => call'[m][u] = call[m][u],
         Busy(n, t) \/ ~Busy(n, t)' \/ t # Receiver \/ rx[n].handler
  PROVE  \A m \in Nodes : /\ Busy(m, Receiver)' => rx'[m].handler
                          /\ rx'[m].handler => rx'[m].frame # NoFrame
  BY DEF TypeOK, Busy, Threads

(* Every step keeps the types.  Each action says nothing of what it leaves *)
(* unchanged.                                                              *)
LEMMA TypeStep ==
  ASSUME TypeOK, [Next]_vars
  PROVE  TypeOK'
<1> USE ProtocolAssumption
<1>1. ASSUME NEW n \in Nodes, NEW t \in Threads, NEW kind \in Awaited, TurnAway(n, t, kind)
      PROVE  TypeOK'
  <2>1. call' \in [Nodes -> [Threads -> Call]]
    BY <1>1, FailType DEF TurnAway
  <2>2. \A m \in Nodes, u \in Threads : Busy(m, u)' => Busy(m, u)
    BY <1>1 DEF TurnAway, Fail, Busy, NoCall, TypeOK
  <2> QED
    BY <1>1, <2>1, <2>2 DEF TurnAway, TypeOK, busVars, historyVars, Threads
<1>2. ASSUME NEW n \in Nodes, NEW t \in Threads, NEW kind \in Awaited,
             NEW target \in Targets[n], Begin(n, t, kind, target[1], target[2])
      PROVE  TypeOK'
  <2>1. target[1] \in Address /\ target[2] \in Channels
    OBVIOUS
  <2>2. count' \in Ids /\ count' \in 0 .. MaxCalls
    BY <1>2 DEF Begin, TypeOK, Ids
  <2>3. [NoPending EXCEPT !.waiting = TRUE, !.peer = target[1], !.channel = target[2]]
           \in {p \in PendingTcTm : p.waiting}
    BY <2>1, BlankTypes DEF NoPending, PendingTcTm
  <2>4. /\ pending' \in [Nodes -> [Awaited -> PendingTcTm]]
        /\ \A m \in Nodes, l \in Awaited :
               pending'[m][l] = NoPending \/ pending'[m][l].waiting
    BY <1>2, <2>3 DEF Begin, TypeOK
  <2>5. [pc |-> "send", kind |-> kind, to |-> target[1], channel |-> target[2],
         id |-> count', outcome |-> "none"] \in Call
    BY <2>1, <2>2 DEF Call, Outcomes
  <2>6. call' \in [Nodes -> [Threads -> Call]]
    BY <1>2, <2>5 DEF Begin, TypeOK
  <2>7. \A m \in Nodes : Busy(m, Receiver)' => rx[m].handler
    BY <1>2 DEF Begin, MayCall, Busy, TypeOK, Threads
  <2>8. asked' \in [Nodes -> Ids \cup {0}]
    BY <1>2, <2>2 DEF Begin, TypeOK
  <2> QED
    BY <1>2, <2>2, <2>4, <2>6, <2>7, <2>8 DEF Begin, TypeOK, busVars
<1>3. ASSUME NEW n \in Nodes, NEW t \in Threads, NEW kind \in Casts,
             NEW to \in Address, Cast(n, t, kind, to)
      PROVE  TypeOK'
  <2> DEFINE f == [kind |-> kind, what |-> "cast", from |-> n, to |-> to,
                   channel |-> NoChannel, id |-> 0]
  <2>1. f \in Frame
    BY NoChannelType DEF Frame, Kinds
  <2>2. Transmit(f)
    BY <1>3 DEF Cast
  <2>3. inbox' \in [Nodes -> Seq(Frame)] /\ spoken' \in SUBSET Nodes
    BY <2>1, <2>2, TransmitType
  <2> QED
    BY <1>3, <2>3 DEF Cast, TypeOK, nodeVars, threadVars, Busy
<1>4. ASSUME NEW n \in Nodes, NEW t \in Threads, Send(n, t)
      PROVE  TypeOK'
  <2> DEFINE c == call[n][t]
             f == [kind |-> c.kind, what |-> "req", from |-> n, to |-> c.to,
                   channel |-> c.channel, id |-> c.id]
  <2>1. c \in Call
    BY DEF TypeOK
  <2>2. f \in Frame
    BY <2>1 DEF Frame, Kinds, Casts, Awaited, Call
  <2>3. inbox' \in [Nodes -> Seq(Frame)] /\ spoken' \in SUBSET Nodes
    BY <1>4, <2>2, TransmitType DEF Send
  <2>4. [c EXCEPT !.pc = "wait"] \in Call
    BY <2>1 DEF Call
  <2>5. call' \in [Nodes -> [Threads -> Call]]
    BY <1>4, <2>4 DEF Send, TypeOK
  <2>6. \A m \in Nodes, u \in Threads : Busy(m, u)' => Busy(m, u)
    BY <1>4 DEF Send, Busy, TypeOK
  <2> QED
    BY <1>4, <2>3, <2>5, <2>6 DEF Send, TypeOK, nodeVars, historyVars, Threads
<1>5. ASSUME NEW n \in Nodes, NEW t \in Threads, SendFails(n, t)
      PROVE  TypeOK'
  <2>1. call[n][t].kind \in Awaited
    BY DEF TypeOK, Call
  <2>2. /\ pending' \in [Nodes -> [Awaited -> PendingTcTm]]
        /\ \A m \in Nodes, l \in Awaited :
               pending'[m][l] = NoPending \/ pending'[m][l].waiting
    BY <1>5, <2>1, ClearType DEF SendFails
  <2>3. call' \in [Nodes -> [Threads -> Call]]
    BY <1>5, FailType DEF SendFails
  <2>4. \A m \in Nodes, u \in Threads : Busy(m, u)' => Busy(m, u)
    BY <1>5 DEF SendFails, Fail, NoCall, Busy, TypeOK
  <2>5. lost' \in 0 .. MaxLoss
    BY <1>5 DEF SendFails, TypeOK
  <2> QED
    BY <1>5, <2>2, <2>3, <2>4, <2>5 DEF SendFails, TypeOK, historyVars, Threads
<1>6. ASSUME NEW n \in Nodes, NEW t \in Threads, Wake(n, t)
      PROVE  TypeOK'
  <2>1. call[n][t].kind \in Awaited
    BY DEF TypeOK, Call
  <2>2. /\ pending' \in [Nodes -> [Awaited -> PendingTcTm]]
        /\ \A m \in Nodes, l \in Awaited :
               pending'[m][l] = NoPending \/ pending'[m][l].waiting
    BY <1>6, <2>1, ClearType DEF Wake
  <2>3. call' \in [Nodes -> [Threads -> Call]]
    BY <1>6, ReturnType DEF Wake, Outcomes
  <2>4. \A m \in Nodes, u \in Threads : Busy(m, u)' => Busy(m, u)
    BY <1>6 DEF Wake, Return, Busy, TypeOK
  <2> QED
    BY <1>6, <2>2, <2>3, <2>4 DEF Wake, TypeOK, busVars, historyVars, Threads
<1>7. ASSUME NEW n \in Nodes, NEW t \in Threads, TimeOut(n, t)
      PROVE  TypeOK'
  <2>1. call[n][t].kind \in Awaited
    BY DEF TypeOK, Call
  <2>2. /\ pending' \in [Nodes -> [Awaited -> PendingTcTm]]
        /\ \A m \in Nodes, l \in Awaited :
               pending'[m][l] = NoPending \/ pending'[m][l].waiting
    BY <1>7, <2>1, ClearType DEF TimeOut
  <2>3. call' \in [Nodes -> [Threads -> Call]]
    BY <1>7, FailType DEF TimeOut
  <2>4. \A m \in Nodes, u \in Threads : Busy(m, u)' => Busy(m, u)
    BY <1>7 DEF TimeOut, Fail, NoCall, Busy, TypeOK
  <2>5. overdue' \in [Nodes -> SUBSET Topic]
    BY <1>7 DEF TimeOut, TypeOK
  <2> QED
    BY <1>7, <2>2, <2>3, <2>4, <2>5 DEF TimeOut, TypeOK, busVars, Threads
<1>8. ASSUME NEW n \in Nodes, NEW kind \in Kinds, SetHandler(n, kind)
      PROVE  TypeOK'
  <2>1. handlers' \in [Nodes -> SUBSET Kinds]
    BY <1>8 DEF SetHandler, TypeOK
  <2> QED
    BY <1>8, <2>1 DEF SetHandler, TypeOK, threadVars, busVars, historyVars, Busy
<1>9. ASSUME NEW n \in Nodes, Reject(n)
      PROVE  TypeOK'
  <2>1. inbox' \in [Nodes -> Seq(Frame)] /\ peers' \in [Nodes -> SUBSET Nodes]
    BY <1>9, TakeType DEF Reject
  <2> QED
    BY <1>9, <2>1 DEF Reject, TypeOK, threadVars, historyVars, Busy
<1>10. ASSUME NEW n \in Nodes, TakeForHandler(n)
       PROVE  TypeOK'
  <2>1. inbox' \in [Nodes -> Seq(Frame)] /\ peers' \in [Nodes -> SUBSET Nodes]
    BY <1>10, TakeType DEF TakeForHandler
  <2>2. First(n) \in Frame /\ rx[n].frame = NoFrame
    BY <1>10, FirstType DEF TakeForHandler, Take
  <2>3. [handler |-> First(n).kind \in handlers[n], frame |-> First(n)]
          \in [handler : BOOLEAN, frame : Frame \cup {NoFrame}]
    BY <2>2
  <2>4. /\ rx' \in [Nodes -> [handler : BOOLEAN, frame : Frame \cup {NoFrame}]]
        /\ \A m \in Nodes : rx'[m].handler => rx'[m].frame # NoFrame
    BY <1>10, <2>2, <2>3, NoFrameIsNone DEF TakeForHandler, TypeOK
  <2>5. \A m \in Nodes : Busy(m, Receiver) => rx'[m].handler
    BY <1>10, <2>2 DEF TakeForHandler, TypeOK
  <2> QED
    BY <1>10, <2>1, <2>4, <2>5 DEF TakeForHandler, TypeOK, historyVars, Busy
<1>11. ASSUME NEW n \in Nodes, TakeAnswer(n)
       PROVE  TypeOK'
  <2> DEFINE f == First(n)
  <2>1. inbox' \in [Nodes -> Seq(Frame)] /\ peers' \in [Nodes -> SUBSET Nodes]
    BY <1>11, TakeType DEF TakeAnswer
  <2>2. f.kind \in Awaited /\ f.id \in Ids \cup {0}
    <3>1. f \in Frame /\ f.what # "cast"
      BY <1>11, FirstType DEF TakeAnswer, Take
    <3> QED
      BY <3>1 DEF Frame, Kinds
  <2> DEFINE q == pending[n][f.kind]
  <2>3. q \in PendingTcTm
    BY <2>2 DEF TypeOK
  <2>4. CASE Matches(q, f)
    <3>1. [q EXCEPT !.done = TRUE, !.ok = (f.what = "ack")] \in PendingTcTm
      BY <2>3 DEF PendingTcTm
    <3>2. [q EXCEPT !.done = TRUE, !.ok = (f.what = "ack")].waiting
      BY <2>3, <2>4 DEF PendingTcTm, Matches
    <3>3. pending' = [pending EXCEPT ![n][f.kind] =
                        [q EXCEPT !.done = TRUE, !.ok = (f.what = "ack")]]
      BY <1>11, <2>4 DEF TakeAnswer
    <3>4. /\ pending' \in [Nodes -> [Awaited -> PendingTcTm]]
          /\ \A m \in Nodes, l \in Awaited :
                 pending'[m][l] = NoPending \/ pending'[m][l].waiting
      BY <2>2, <3>1, <3>2, <3>3 DEF TypeOK
    <3>5. PICK x \in Ids \cup {None} : lastTm' \in {lastTm, [lastTm EXCEPT ![n] = x]}
      <4>1. lastTm' \in {lastTm, [lastTm EXCEPT ![n] = f.id], [lastTm EXCEPT ![n] = None]}
        BY <1>11, <2>4 DEF TakeAnswer
      <4> QED
        BY <2>2, <4>1 DEF None
    <3>6. lastTm' \in [Nodes -> Ids \cup {None}]
      <4>1. lastTm \in [Nodes -> Ids \cup {None}]
        BY DEF TypeOK
      <4> QED
        BY <3>5, <4>1
    <3> QED
      BY <1>11, <2>1, <3>4, <3>6 DEF TakeAnswer, TypeOK, threadVars, historyVars, Busy
  <2>5. CASE ~Matches(q, f)
    BY <1>11, <2>1, <2>5 DEF TakeAnswer, TypeOK, threadVars, historyVars, Busy
  <2> QED
    BY <2>4, <2>5
<1>12. ASSUME NEW n \in Nodes, NEW result \in BOOLEAN, Serve(n, result)
       PROVE  TypeOK'
  <2> DEFINE f  == rx[n].frame
             ok == rx[n].handler /\ result
             a  == [f EXCEPT !.what = IF ok THEN "ack" ELSE "nack", !.from = n, !.to = f.from]
  <2>1. f \in Frame /\ f.what = "req"
    BY <1>12 DEF Serve, TypeOK
  <2>2. a \in Frame
    BY <2>1 DEF Frame, Address
  <2>3. inbox' \in [Nodes -> Seq(Frame)] /\ spoken' \in SUBSET Nodes
    BY <1>12, <2>2, TransmitType DEF Serve
  <2>4. accepted' \in [Nodes -> SUBSET (Ids \cup {0})]
    <3>1. f.id \in Ids \cup {0}
      BY <2>1 DEF Frame
    <3> QED
      BY <1>12, <3>1 DEF Serve, TypeOK
  <2> QED
    BY <1>12, <2>3, <2>4, BlankTypes, NoFrameIsNone DEF Serve, TypeOK, nodeVars, Busy, Idle
<1>13. ASSUME NEW n \in Nodes, ServeCast(n)
       PROVE  TypeOK'
  <2>1. rx' \in [Nodes -> [handler : BOOLEAN, frame : Frame \cup {NoFrame}]]
    BY <1>13, BlankTypes DEF ServeCast, TypeOK
  <2> QED
    BY <1>13, <2>1 DEF ServeCast, TypeOK, nodeVars, busVars, historyVars, Busy, Idle
<1>14. ASSUME NEW n \in Nodes, Lose(n)
       PROVE  TypeOK'
  <2>1. inbox' \in [Nodes -> Seq(Frame)]
    BY <1>14, FirstType DEF Lose, TypeOK
  <2>2. lost' \in 0 .. MaxLoss
    BY <1>14 DEF Lose, TypeOK
  <2> QED
    BY <1>14, <2>1, <2>2 DEF Lose, TypeOK, nodeVars, threadVars, historyVars, Busy
<1>15. CASE UNCHANGED vars
  BY <1>15 DEF TypeOK, vars, nodeVars, threadVars, busVars, historyVars, Busy
<1> QED
  BY <1>1, <1>2, <1>3, <1>4, <1>5, <1>6, <1>7, <1>8, <1>9, <1>10, <1>11, <1>12,
     <1>13, <1>14, <1>15
     DEF Next, Calls, CallProceeds, Receives, Address

LEMMA InitType == Init => TypeOK
<1> SUFFICES ASSUME Init PROVE TypeOK
  OBVIOUS
<1>1. \A n \in Nodes, t \in Threads : ~Busy(n, t)
  BY DEF Init, Busy, NoCall
<1> QED
  BY <1>1, BlankTypes, ProtocolAssumption, EmptySeq
     DEF Init, TypeOK, None, Ids, Threads, Idle

(* The variables of every node keep to their types, and a record that no   *)
(* call waits on is blank.                                                 *)
THEOREM TypeCorrect == Spec => []TypeOK
<1> QED
  BY InitType, TypeStep, PTL DEF Spec

----------------------------------------------------------------------------
(* The frames on the bus                                                   *)

(* What a step may do to frames, and to what the nodes know of each other. *)
LEMMA BusStep ==
  ASSUME TypeOK, [Next]_vars
  PROVE  /\ lost' = 0 => lost = 0
         /\ \/ UNCHANGED <<inbox, spoken, peers>>
            \/ (\E f \in Frame : Transmit(f)) /\ UNCHANGED peers
            \/ (\E n \in Nodes : Take(n)) /\ UNCHANGED spoken
            \/ /\ lost' # 0 /\ UNCHANGED <<spoken, peers>>
               /\ \E n \in Nodes : /\ inbox[n] # <<>>
                                   /\ inbox' = [inbox EXCEPT ![n] = Tail(@)]
<1> DEFINE Effect ==
         \/ UNCHANGED <<inbox, spoken, peers>>
         \/ (\E f \in Frame : Transmit(f)) /\ UNCHANGED peers
         \/ (\E n \in Nodes : Take(n)) /\ UNCHANGED spoken
         \/ /\ lost' # 0 /\ UNCHANGED <<spoken, peers>>
            /\ \E n \in Nodes : /\ inbox[n] # <<>>
                                /\ inbox' = [inbox EXCEPT ![n] = Tail(@)]
       Good == (lost' = 0 => lost = 0) /\ Effect
<1>1. ASSUME NEW n \in Nodes, NEW t \in Threads, NEW kind \in Casts,
             NEW to \in Address, Cast(n, t, kind, to)
      PROVE  Good
  <2>1. [kind |-> kind, what |-> "cast", from |-> n, to |-> to,
         channel |-> NoChannel, id |-> 0] \in Frame
    BY NoChannelType DEF Frame, Kinds
  <2> QED
    BY <1>1, <2>1 DEF Cast, nodeVars
<1>2. ASSUME NEW n \in Nodes, NEW t \in Threads, Send(n, t)
      PROVE  Good
  <2>1. call[n][t] \in Call
    BY DEF TypeOK
  <2>2. [kind |-> call[n][t].kind, what |-> "req", from |-> n, to |-> call[n][t].to,
         channel |-> call[n][t].channel, id |-> call[n][t].id] \in Frame
    BY <2>1 DEF Frame, Kinds, Casts, Awaited, Call
  <2> QED
    BY <1>2, <2>2 DEF Send, nodeVars
<1>3. ASSUME NEW n \in Nodes, NEW result \in BOOLEAN, Serve(n, result)
      PROVE  Good
  <2> DEFINE f == rx[n].frame
             a == [f EXCEPT !.what = IF rx[n].handler /\ result THEN "ack" ELSE "nack",
                            !.from = n, !.to = f.from]
  <2>1. f \in Frame /\ f.what = "req"
    BY <1>3 DEF Serve, TypeOK
  <2>2. a \in Frame
    BY <2>1 DEF Frame, Address
  <2> QED
    BY <1>3, <2>2 DEF Serve, nodeVars
<1>4. ASSUME NEW n \in Nodes, Reject(n) \/ TakeForHandler(n) \/ TakeAnswer(n)
      PROVE  Good
  BY <1>4 DEF Reject, TakeForHandler, TakeAnswer
<1>5. ASSUME NEW n \in Nodes, Lose(n)
      PROVE  Good
  <2>1. lost' # 0
    BY <1>5 DEF Lose, TypeOK
  <2> QED
    BY <1>5, <2>1 DEF Lose, nodeVars
<1>6. ASSUME NEW n \in Nodes, NEW t \in Threads, SendFails(n, t)
      PROVE  Good
  BY <1>6 DEF SendFails, TypeOK
<1>7. ASSUME NEW n \in Nodes, NEW t \in Threads, NEW kind \in Awaited, TurnAway(n, t, kind)
      PROVE  Good
  BY <1>7 DEF TurnAway, busVars
<1>8. ASSUME NEW n \in Nodes, NEW t \in Threads, NEW kind \in Awaited,
             NEW target \in Targets[n], Begin(n, t, kind, target[1], target[2])
      PROVE  Good
  BY <1>8 DEF Begin, busVars
<1>9. ASSUME NEW n \in Nodes, NEW t \in Threads, Wake(n, t) \/ TimeOut(n, t)
      PROVE  Good
  BY <1>9 DEF Wake, TimeOut, busVars
<1>10. ASSUME NEW n \in Nodes, NEW kind \in Kinds, SetHandler(n, kind)
       PROVE  Good
  BY <1>10 DEF SetHandler, busVars
<1>11. ASSUME NEW n \in Nodes, ServeCast(n)
       PROVE  Good
  BY <1>11 DEF ServeCast, busVars, nodeVars
<1>12. ASSUME UNCHANGED vars
       PROVE  Good
  BY <1>12 DEF vars, busVars, nodeVars
<1> HIDE DEF Good
<1>13. ASSUME NEW n \in Nodes, NEW t \in Threads, Calls(n, t)
       PROVE  Good
  <2>1. CASE CallProceeds(n, t)
    BY <2>1, <1>2, <1>6, <1>9 DEF CallProceeds
  <2>2. CASE ~CallProceeds(n, t)
    BY <1>13, <2>2, <1>1, <1>7, <1>8, ProtocolAssumption DEF Calls, Address
  <2> QED
    BY <2>1, <2>2
<1>14. ASSUME NEW n \in Nodes, Receives(n)
       PROVE  Good
  BY <1>14, <1>3, <1>4, <1>11, ProtocolAssumption DEF Receives
<1> QED
  <2>1. Good
    BY <1>5, <1>10, <1>12, <1>13, <1>14 DEF Next
  <2> QED
    BY <2>1 DEF Good

(* What Append and Tail do to the senders of an inbox.                     *)
LEMMA AppendFrom ==
  ASSUME NEW q \in Seq(Frame), NEW f \in Frame
  PROVE  {Append(q, f)[i].from : i \in DOMAIN Append(q, f)}
            = {q[i].from : i \in DOMAIN q} \cup {f.from}
<1>1. /\ DOMAIN q = 1 .. Len(q) /\ Len(q) \in Nat
      /\ DOMAIN Append(q, f) = 1 .. Len(q) + 1
      /\ \A i \in 1 .. Len(q) : Append(q, f)[i] = q[i]
      /\ Append(q, f)[Len(q) + 1] = f
  BY AppendProperties, LenProperties
<1>2. 1 .. Len(q) + 1 = (1 .. Len(q)) \cup {Len(q) + 1}
  BY <1>1
<1> QED
  BY <1>1, <1>2

LEMMA TailFrom ==
  ASSUME NEW q \in Seq(Frame), q # <<>>
  PROVE  {q[i].from : i \in DOMAIN q}
            = {Tail(q)[i].from : i \in DOMAIN Tail(q)} \cup {Head(q).from}
<1>1. /\ DOMAIN q = 1 .. Len(q) /\ Len(q) \in Nat
      /\ DOMAIN Tail(q) = 1 .. Len(q) - 1
      /\ \A i \in 1 .. Len(q) - 1 : Tail(q)[i] = q[i + 1]
      /\ Head(q) = q[1] /\ Len(q) # 0
  BY HeadTailProperties, LenProperties, EmptySeq
<1>2. ASSUME NEW i \in DOMAIN q
      PROVE  q[i].from \in {Tail(q)[j].from : j \in DOMAIN Tail(q)} \cup {Head(q).from}
  <2>1. CASE i = 1
    BY <1>1, <2>1
  <2>2. CASE i # 1
    <3>1. i - 1 \in 1 .. Len(q) - 1 /\ Tail(q)[i - 1] = q[i]
      BY <1>1, <2>2
    <3> QED
      BY <1>1, <3>1
  <2> QED
    BY <2>1, <2>2
<1>3. ASSUME NEW j \in DOMAIN Tail(q)
      PROVE  Tail(q)[j].from \in {q[i].from : i \in DOMAIN q}
  <2>1. j + 1 \in DOMAIN q /\ Tail(q)[j] = q[j + 1]
    BY <1>1
  <2> QED
    BY <2>1
<1>4. Head(q).from \in {q[i].from : i \in DOMAIN q}
  <2>1. 1 \in DOMAIN q
    BY <1>1
  <2> QED
    BY <1>1, <2>1
<1> QED
  BY <1>2, <1>3, <1>4

LEMMA TransmitSenders ==
  ASSUME TypeOK, NEW f \in Frame, Transmit(f), NEW n \in Nodes
  PROVE  Senders(n)' = IF n = f.from THEN Senders(n) ELSE Senders(n) \cup {f.from}
<1>1. inbox[n] \in Seq(Frame)
  BY DEF TypeOK
<1>2. inbox'[n] = IF n = f.from THEN inbox[n] ELSE Append(inbox[n], f)
  BY DEF Transmit
<1>3. CASE n = f.from
  BY <1>2, <1>3 DEF Senders
<1>4. CASE n # f.from
  <2>1. Senders(n)' = {Append(inbox[n], f)[i].from : i \in DOMAIN Append(inbox[n], f)}
    BY <1>2, <1>4 DEF Senders
  <2> QED
    BY <1>1, <1>4, <2>1, AppendFrom DEF Senders
<1> QED
  BY <1>3, <1>4

(* A node that loses the first frame of its inbox.                         *)
LEMMA TailSenders ==
  ASSUME TypeOK, NEW m \in Nodes, inbox[m] # <<>>,
         inbox' = [inbox EXCEPT ![m] = Tail(@)], NEW n \in Nodes
  PROVE  Senders(n) = IF n = m THEN Senders(n)' \cup {First(n).from} ELSE Senders(n)'
<1>1. inbox[n] \in Seq(Frame)
  BY DEF TypeOK
<1>2. inbox'[n] = IF n = m THEN Tail(inbox[n]) ELSE inbox[n]
  BY DEF TypeOK
<1>3. CASE n # m
  BY <1>2, <1>3 DEF Senders
<1>4. CASE n = m
  <2>1. Senders(n)' = {Tail(inbox[n])[i].from : i \in DOMAIN Tail(inbox[n])}
    BY <1>2, <1>4 DEF Senders
  <2> QED
    BY <1>1, <1>4, <2>1, TailFrom DEF Senders, First
<1> QED
  BY <1>3, <1>4

LEMMA ForeignStep ==
  ASSUME TypeOK, Foreign, [Next]_vars
  PROVE  Foreign'
<1>1. CASE UNCHANGED inbox
  BY <1>1 DEF Foreign, Senders
<1>2. ASSUME NEW f \in Frame, Transmit(f)
      PROVE  Foreign'
  BY <1>2, TransmitSenders DEF Foreign
<1>3. ASSUME NEW m \in Nodes, inbox[m] # <<>>, inbox' = [inbox EXCEPT ![m] = Tail(@)]
      PROVE  Foreign'
  BY <1>3, TailSenders DEF Foreign
<1> QED
  BY BusStep, <1>1, <1>2, <1>3 DEF Take

LEMMA HeardStep ==
  ASSUME TypeOK, Heard, [Next]_vars
  PROVE  Heard'
<1> SUFFICES ASSUME lost' = 0, NEW n \in Nodes
             PROVE  spoken' \ {n} \subseteq peers'[n] \cup Senders(n)'
  BY DEF Heard
<1>1. spoken \ {n} \subseteq peers[n] \cup Senders(n)
  BY BusStep DEF Heard
<1>2. CASE UNCHANGED <<inbox, spoken, peers>>
  BY <1>1, <1>2 DEF Senders
<1>3. ASSUME NEW f \in Frame, Transmit(f), UNCHANGED peers
      PROVE  spoken' \ {n} \subseteq peers'[n] \cup Senders(n)'
  <2>1. Senders(n)' = IF n = f.from THEN Senders(n) ELSE Senders(n) \cup {f.from}
    BY <1>3, TransmitSenders
  <2>2. spoken' = spoken \cup {f.from}
    BY <1>3 DEF Transmit
  <2> QED
    BY <1>1, <1>3, <2>1, <2>2
<1>4. ASSUME NEW m \in Nodes, Take(m), UNCHANGED spoken
      PROVE  spoken' \ {n} \subseteq peers'[n] \cup Senders(n)'
  <2>1. Senders(n) = IF n = m THEN Senders(n)' \cup {First(n).from} ELSE Senders(n)'
    BY <1>4, TailSenders DEF Take
  <2>2. peers'[n] = IF n = m THEN peers[n] \cup {First(n).from} ELSE peers[n]
    BY <1>4 DEF Take, TypeOK
  <2> QED
    BY <1>1, <1>4, <2>1, <2>2
<1> QED
  BY BusStep, <1>2, <1>3, <1>4

(* A node that has sent anything is known to every node that has taken     *)
(* what was sent, as long as no frame is lost.                             *)
THEOREM AllSpeakersKnown == Spec => []SpokenMeansKnown
<1>1. Init => Heard
  BY DEF Init, Heard
<1>2. Heard => SpokenMeansKnown
  BY DEF Heard, SpokenMeansKnown, Senders, isPeerConnected
<1> QED
  BY TypeCorrect, HeardStep, <1>1, <1>2, PTL DEF Spec

----------------------------------------------------------------------------
(* The owners of the records                                               *)

(* A call ends: it clears the record of its kind, and an answer counts only*)
(* if the record is complete.                                              *)
LEMMA EndStep ==
  ASSUME TypeOK, IInv, NEW n \in Nodes, NEW t \in Threads, Busy(n, t),
         Clear(n, call[n][t].kind), NEW c \in Call, c.pc = "idle",
         call' = [call EXCEPT ![n][t] = c],
         c.outcome \in {"ok", "refused"} =>
            c.to = call[n][t].to /\ pending[n][call[n][t].kind].done
  PROVE  IInv'
<1> DEFINE k == call[n][t].kind
<1>1. k \in Awaited
  BY DEF TypeOK, Call
<1>2. /\ call'[n][t] = c
      /\ \A m \in Nodes, u \in Threads : <<m, u>> # <<n, t>> => call'[m][u] = call[m][u]
  BY DEF TypeOK
<1>3. /\ pending'[n][k] = NoPending
      /\ \A m \in Nodes, l \in Awaited : <<m, l>> # <<n, k>> => pending'[m][l] = pending[m][l]
  BY <1>1 DEF Clear, TypeOK
<1>4. \A u \in Threads : u # t => ~Owns(n, u, k)
  BY <1>1 DEF IInv, OneOwner, Owns
<1>5. \A m \in Nodes, u \in Threads : call[m][u].kind \in Awaited
  BY DEF TypeOK, Call
<1>6. \A m \in Nodes, u \in Threads, l \in Awaited :
         Owns(m, u, l)' <=> Owns(m, u, l) /\ <<m, l>> # <<n, k>>
  BY <1>2, <1>4 DEF Owns, Busy
<1>7. OneOwner'
  BY <1>3, <1>6 DEF IInv, OneOwner, NoPending
<1>8. ASSUME NEW m \in Nodes, NEW u \in Threads
      PROVE  OwnerInv(m, u)'
  <2>1. CASE <<m, u>> = <<n, t>>
    BY <1>2, <2>1 DEF OwnerInv, Busy
  <2>2. CASE <<m, u>> # <<n, t>> /\ Busy(m, u)
    <3>1. <<m, call[m][u].kind>> # <<n, k>>
      BY <1>4, <2>2 DEF Owns
    <3> QED
      BY <1>2, <1>3, <1>5, <2>2, <3>1 DEF IInv, OwnerInv, Busy
  <2>3. CASE <<m, u>> # <<n, t>> /\ ~Busy(m, u)
    BY <1>2, <2>3 DEF OwnerInv, Busy
  <2> QED
    BY <2>1, <2>2, <2>3
<1>9. NestedUnanswered'
  <2>1. c.outcome \in {"ok", "refused"} => t # Receiver /\ c.to \in Nodes \ {n}
    BY DEF IInv, OwnerInv
  <2> QED
    BY <1>2, <2>1 DEF IInv, NestedUnanswered
<1> QED
  BY <1>7, <1>8, <1>9 DEF IInv

LEMMA OwnerStep ==
  ASSUME TypeOK, TypeOK', Foreign, IInv, [Next]_vars
  PROVE  IInv'
<1>1. ASSUME UNCHANGED <<pending, call>>
      PROVE  IInv'
  BY <1>1 DEF IInv, OneOwner, Owns, OwnerInv, NestedUnanswered, Busy
<1>2. ASSUME NEW n \in Nodes, NEW t \in Threads, NEW kind \in Awaited, TurnAway(n, t, kind)
      PROVE  IInv'
  <2>1. ~Busy(n, t) /\ UNCHANGED pending
    BY <1>2 DEF TurnAway, MayCall
  <2>2. /\ call'[n][t] = NoCall
        /\ \A m \in Nodes, u \in Threads : <<m, u>> # <<n, t>> => call'[m][u] = call[m][u]
    BY <1>2 DEF TurnAway, Fail, TypeOK
  <2>3. \A m \in Nodes, u \in Threads : Busy(m, u)' <=> Busy(m, u)
    BY <2>1, <2>2 DEF Busy, NoCall
  <2>4. \A m \in Nodes, u \in Threads : Busy(m, u) => call'[m][u] = call[m][u]
    BY <2>1, <2>2
  <2>5. OneOwner'
    BY <2>1, <2>3, <2>4 DEF IInv, OneOwner, Owns
  <2>6. ASSUME NEW m \in Nodes, NEW u \in Threads
        PROVE  OwnerInv(m, u)'
    BY <2>1, <2>3, <2>4 DEF IInv, OwnerInv
  <2>7. NestedUnanswered'
    BY <2>2 DEF IInv, NestedUnanswered, NoCall
  <2> QED
    BY <2>5, <2>6, <2>7 DEF IInv
<1>3. ASSUME NEW n \in Nodes, NEW t \in Threads, NEW kind \in Awaited,
             NEW target \in Targets[n], Begin(n, t, kind, target[1], target[2])
      PROVE  IInv'
  <2> DEFINE c == [pc |-> "send", kind |-> kind, to |-> target[1], channel |-> target[2],
                   id |-> count', outcome |-> "none"]
             p == [NoPending EXCEPT !.waiting = TRUE, !.peer = target[1],
                                    !.channel = target[2]]
  <2>1. /\ call'[n][t] = c
        /\ \A m \in Nodes, u \in Threads : <<m, u>> # <<n, t>> => call'[m][u] = call[m][u]
    BY <1>3 DEF Begin, TypeOK
  <2>2. /\ pending'[n][kind] = p
        /\ \A m \in Nodes, l \in Awaited :
              <<m, l>> # <<n, kind>> => pending'[m][l] = pending[m][l]
    BY <1>3 DEF Begin, TypeOK
  <2>3. /\ p.waiting /\ ~p.done /\ p.peer = target[1]
        /\ c.kind = kind /\ c.to = target[1] /\ c.outcome = "none"
    BY DEF NoPending
  <2>4. ~Busy(n, t) /\ \A u \in Threads : ~Owns(n, u, kind)
    BY <1>3 DEF Begin, MayCall, IInv, OneOwner
  <2>5. \A m \in Nodes, u \in Threads, l \in Awaited :
           Owns(m, u, l)' <=> Owns(m, u, l) \/ <<m, u, l>> = <<n, t, kind>>
    BY <2>1, <2>4 DEF Owns, Busy
  <2> HIDE DEF c, p
  <2>6. OneOwner'
    <3> SUFFICES ASSUME NEW m \in Nodes, NEW l \in Awaited
                 PROVE  /\ \A u, v \in Threads : Owns(m, u, l)' /\ Owns(m, v, l)' => u = v
                        /\ pending'[m][l].waiting <=> \E u \in Threads : Owns(m, u, l)'
      BY DEF OneOwner
    <3>1. CASE <<m, l>> = <<n, kind>>
      BY <2>2, <2>3, <2>4, <2>5, <3>1
    <3>2. CASE <<m, l>> # <<n, kind>>
      BY <2>2, <2>5, <3>2 DEF IInv, OneOwner
    <3> QED
      BY <3>1, <3>2
  <2>7. ASSUME NEW m \in Nodes, NEW u \in Threads
        PROVE  OwnerInv(m, u)'
    <3>1. CASE <<m, u>> = <<n, t>>
      <4>1. pending'[m][call'[m][u].kind] = p /\ call'[m][u].to = target[1]
        BY <2>1, <2>2, <2>3, <3>1
      <4> QED
        BY <2>3, <4>1 DEF OwnerInv
    <3>2. CASE <<m, u>> # <<n, t>> /\ Busy(m, u)
      <4>1. call[m][u].kind \in Awaited /\ <<m, call[m][u].kind>> # <<n, kind>>
        BY <2>4, <3>2 DEF Owns, TypeOK, Call
      <4> QED
        BY <2>1, <2>2, <3>2, <4>1 DEF IInv, OwnerInv, Busy
    <3>3. CASE <<m, u>> # <<n, t>> /\ ~Busy(m, u)
      BY <2>1, <3>3 DEF OwnerInv, Busy
    <3> QED
      BY <3>1, <3>2, <3>3
  <2>8. NestedUnanswered'
    BY <2>1, <2>3 DEF IInv, NestedUnanswered
  <2> QED
    BY <2>6, <2>7, <2>8 DEF IInv
<1>4. ASSUME NEW n \in Nodes, NEW t \in Threads, Send(n, t)
      PROVE  IInv'
  <2>1. call[n][t] \in Call /\ UNCHANGED pending
    BY <1>4 DEF Send, TypeOK, nodeVars
  <2>2. /\ call'[n][t] = [call[n][t] EXCEPT !.pc = "wait"]
        /\ \A m \in Nodes, u \in Threads : <<m, u>> # <<n, t>> => call'[m][u] = call[m][u]
    BY <1>4 DEF Send, TypeOK
  <2>3. \A m \in Nodes, u \in Threads :
           /\ Busy(m, u)' <=> Busy(m, u)
           /\ call'[m][u].kind = call[m][u].kind
           /\ call'[m][u].to = call[m][u].to
           /\ call'[m][u].outcome = call[m][u].outcome
    BY <1>4, <2>1, <2>2 DEF Send, Busy, Call
  <2>4. OneOwner'
    BY <2>1, <2>3 DEF IInv, OneOwner, Owns
  <2>5. ASSUME NEW m \in Nodes, NEW u \in Threads
        PROVE  OwnerInv(m, u)'
    BY <2>1, <2>3 DEF IInv, OwnerInv
  <2>6. NestedUnanswered'
    BY <2>3 DEF IInv, NestedUnanswered
  <2> QED
    BY <2>4, <2>5, <2>6 DEF IInv
<1>5. ASSUME NEW n \in Nodes, NEW t \in Threads, SendFails(n, t) \/ TimeOut(n, t)
      PROVE  IInv'
  BY <1>5, EndStep, BlankTypes DEF SendFails, TimeOut, Fail, Busy, NoCall
<1>6. ASSUME NEW n \in Nodes, NEW t \in Threads, Wake(n, t)
      PROVE  IInv'
  <2>1. PICK o \in Outcomes : Return(n, t, o)
    BY <1>6 DEF Wake, Outcomes
  <2>2. call[n][t] \in Call
    BY DEF TypeOK
  <2> DEFINE c == [call[n][t] EXCEPT !.pc = "idle", !.outcome = o]
  <2>3. c \in Call /\ c.pc = "idle" /\ c.to = call[n][t].to
    BY <2>2 DEF Call
  <2>4. call' = [call EXCEPT ![n][t] = c]
    BY <2>1 DEF Return
  <2> QED
    BY <1>6, <2>3, <2>4, EndStep DEF Wake, Busy
<1>7. ASSUME NEW n \in Nodes, TakeAnswer(n)
      PROVE  IInv'
  <2> DEFINE f == First(n)
             q == pending[n][f.kind]
  <2>1. f \in Frame /\ f.kind \in Awaited /\ f.from \in Nodes
    <3>1. f \in Frame /\ f.what # "cast"
      BY <1>7, FirstType DEF TakeAnswer, Take
    <3> QED
      BY <3>1 DEF Frame, Kinds
  <2>2. f.from # n
    <3>1. inbox[n] \in Seq(Frame) /\ inbox[n] # <<>>
      BY <1>7 DEF TakeAnswer, Take, TypeOK
    <3>2. f.from \in Senders(n)
      BY <3>1, TailFrom DEF First, Senders
    <3> QED
      BY <3>2 DEF Foreign
  <2>3. ~Busy(n, Receiver) /\ UNCHANGED call
    BY <1>7 DEF TakeAnswer, Take, TypeOK, threadVars
  <2>4. CASE Matches(q, f)
    <3>1. q \in PendingTcTm
      BY <2>1 DEF TypeOK
    <3> DEFINE p == [q EXCEPT !.done = TRUE, !.ok = (f.what = "ack")]
    <3>2. p.waiting = q.waiting /\ p.peer = q.peer /\ q.peer = f.from
      BY <2>4, <3>1 DEF PendingTcTm, Matches
    <3>3. /\ pending'[n][f.kind] = p
          /\ \A m \in Nodes, l \in Awaited :
                <<m, l>> # <<n, f.kind>> => pending'[m][l] = pending[m][l]
      BY <1>7, <2>1, <2>4 DEF TakeAnswer, TypeOK
    <3>4. \A m \in Nodes, l \in Awaited :
             /\ pending'[m][l].waiting = pending[m][l].waiting
             /\ pending'[m][l].peer = pending[m][l].peer
      BY <3>2, <3>3
    <3>5. OneOwner'
      BY <2>3, <3>4 DEF IInv, OneOwner, Owns, Busy
    <3>6. ASSUME NEW m \in Nodes, NEW u \in Threads
          PROVE  OwnerInv(m, u)'
      <4>1. call[m][u].kind \in Awaited
        BY DEF TypeOK, Call
      <4>2. CASE <<m, call[m][u].kind>> = <<n, f.kind>>
        BY <2>1, <2>2, <2>3, <3>2, <3>4, <4>1, <4>2 DEF IInv, OwnerInv, Busy
      <4>3. CASE <<m, call[m][u].kind>> # <<n, f.kind>>
        BY <2>3, <3>3, <4>1, <4>3 DEF IInv, OwnerInv, Busy
      <4> QED
        BY <4>2, <4>3
    <3>7. NestedUnanswered'
      BY <2>3 DEF IInv, NestedUnanswered
    <3> QED
      BY <3>5, <3>6, <3>7 DEF IInv
  <2>5. CASE ~Matches(q, f)
    BY <1>1, <1>7, <2>3, <2>5 DEF TakeAnswer
  <2> QED
    BY <2>4, <2>5
<1>8. CASE UNCHANGED vars
  BY <1>1, <1>8 DEF vars, nodeVars, threadVars
<1>9. ASSUME NEW n \in Nodes, NEW t \in Threads, Calls(n, t)
      PROVE  IInv'
  <2>1. CASE CallProceeds(n, t)
    BY <2>1, <1>4, <1>5, <1>6 DEF CallProceeds
  <2>2. CASE \E to, kind : Cast(n, t, kind, to)
    BY <1>1, <2>2 DEF Cast, nodeVars, threadVars
  <2> QED
    BY <1>2, <1>3, <1>9, <2>1, <2>2 DEF Calls
<1>10. ASSUME NEW n \in Nodes, Receives(n)
       PROVE  IInv'
  <2>1. CASE TakeAnswer(n)
    BY <1>7, <2>1
  <2>2. CASE ~TakeAnswer(n)
    <3>1. UNCHANGED <<pending, call>>
      BY <1>10, <2>2
         DEF Receives, Reject, TakeForHandler, Serve, ServeCast, nodeVars, threadVars
    <3> QED
      BY <1>1, <3>1
  <2> QED
    BY <2>1, <2>2
<1>11. ASSUME NEW n \in Nodes, NEW kind \in Kinds, SetHandler(n, kind)
       PROVE  IInv'
  BY <1>1, <1>11 DEF SetHandler, threadVars
<1>12. ASSUME NEW n \in Nodes, Lose(n)
       PROVE  IInv'
  BY <1>1, <1>12 DEF Lose, nodeVars, threadVars
<1> QED
  BY <1>8, <1>9, <1>10, <1>11, <1>12 DEF Next

LEMMA InitOwners == Init => Foreign /\ IInv
<1> SUFFICES ASSUME Init PROVE Foreign /\ IInv
  OBVIOUS
<1>1. \A n \in Nodes, t \in Threads : ~Busy(n, t) /\ call[n][t].outcome = "none"
  BY DEF Init, Busy, NoCall
<1>2. \A n \in Nodes, k \in Awaited : ~pending[n][k].waiting
  BY DEF Init, NoPending
<1>3. \A n \in Nodes : Senders(n) = {}
  <2>1. DOMAIN <<>> = {}
    OBVIOUS
  <2> QED
    BY <2>1 DEF Init, Senders
<1> QED
  BY <1>1, <1>2, <1>3 DEF Foreign, IInv, OneOwner, Owns, OwnerInv, NestedUnanswered

LEMMA Owners == Spec => []IInv
<1> QED
  BY InitOwners, ForeignStep, OwnerStep, TypeCorrect, PTL DEF Spec

(* Each record has one owner while a call waits on it, and none otherwise. *)
THEOREM RecordsAreOwned == Spec => []OneOwner
<1>1. IInv => OneOwner
  BY DEF IInv
<1> QED
  BY Owners, <1>1, PTL

(* A call that a handler makes, and a call to address 0, is never answered.*)
THEOREM NestedCallsFail == Spec => []NestedUnanswered
<1>1. IInv => NestedUnanswered
  BY DEF IInv
<1> QED
  BY Owners, <1>1, PTL

----------------------------------------------------------------------------
(* The verdicts of the calls.  A request that node m has to serve, serves, *)
(* or has answered is in one of three places, and in one place only.       *)

Coming(n) == {inbox[n][i] : i \in DOMAIN inbox[n]}

ReqFor(m, f) == f.what = "req" /\ f.to \in {m, Everyone}
AnsTo(n, f)  == f.what \in {"ack", "nack"} /\ f.to \in {n, Everyone}

Served(m) == {f \in {rx[m].frame} \ {NoFrame} : f.what = "req"}
Reqs(m)   == {f \in Coming(m) : ReqFor(m, f)}
Open(m)   == Reqs(m) \cup Served(m)
Ans(n)    == {f \in Coming(n) : AnsTo(n, f)}

(* Two frames for n about the same request, in the same place.             *)
Same(n, f, g) ==
    /\ f.id = g.id
    /\ \/ ReqFor(n, f) /\ ReqFor(n, g)
       \/ AnsTo(n, f) /\ AnsTo(n, g) /\ f.from = g.from

Once(n) == \A i, j \in DOMAIN inbox[n] : i < j => ~Same(n, inbox[n][i], inbox[n][j])

ServedOnce(m) == \A f \in Reqs(m), g \in Served(m) : f.id # g.id

Unique ==
    /\ \A n \in Nodes : Once(n) /\ ServedOnce(n)
    /\ \A m, n \in Nodes : \A f \in Open(m), g \in Ans(n) : g.from = m => f.id # g.id

(* An answer says what its sender did with the request.                    *)
Truthful ==
    /\ \A m \in Nodes : \A f \in Open(m) : f.id \notin accepted[m]
    /\ \A n \in Nodes : \A f \in Ans(n) : f.what = "ack" <=> f.id \in accepted[f.from]

(* The number of a call is its own, and unknown to all until it is sent.   *)
Fresh(i) ==
    \A m \in Nodes : /\ i \notin accepted[m]
                     /\ \A f \in Open(m) \cup Ans(m) : f.id # i

NumberInv(n, t) ==
    LET c == call[n][t] IN
    /\ c.id <= count
    /\ Busy(n, t) => c.id # 0 /\ c.outcome = "none"
    /\ c.pc = "send" => Fresh(c.id)
    /\ Busy(n, t) /\ c.kind = "tm" => c.id = asked[n]

Numbered ==
    /\ \A n \in Nodes, t \in Threads : NumberInv(n, t)
    /\ \A i \in Ids : i > count => Fresh(i)
    /\ \A n, m \in Nodes, t, u \in Threads :
          call[n][t].id = call[m][u].id /\ call[n][t].id # 0 => n = m /\ t = u

(* A request of n to m that is not done with is one that a call still waits*)
(* for, or one that a call has given up on.                                *)
Awaits(n, t, m, f) ==
    LET c == call[n][t] IN
    /\ c.pc = "wait" /\ c.kind = f.kind /\ c.channel = f.channel /\ c.id = f.id
    /\ c.to \in {m, Everyone}
    /\ ~pending[n][f.kind].done

GivenUp(n, m, f) == [kind |-> f.kind, channel |-> f.channel, peer |-> m] \in overdue[n]

Accounted(n, m, f) == GivenUp(n, m, f) \/ \E t \in Threads : Awaits(n, t, m, f)

AccountInv ==
    /\ \A m \in Nodes : \A f \in Open(m) : Accounted(f.from, m, f)
    /\ \A n \in Nodes : \A f \in Ans(n) : Accounted(n, f.from, f)

(* The peer of a call has made up its mind, and says so.                   *)
Decided(c, ok) ==
    \E m \in Nodes : /\ c.to = m
                     /\ ok <=> c.id \in accepted[m]
                     /\ \A f \in Open(m) : f.id # c.id

OnAnswer(n, t) ==
    LET c == call[n][t]
        p == pending[n][c.kind]
    IN  Busy(n, t) /\ p.done =>
            /\ c.pc = "wait"
            /\ Decided(c, p.ok)
            /\ p.ok /\ c.kind = "tm" => lastTm[n] = c.id

OnReturn(n, t) ==
    LET c == call[n][t] IN
    c.outcome \in {"ok", "refused"} =>
        /\ Decided(c, c.outcome = "ok")
        /\ c.outcome = "ok" /\ c.kind = "tm" /\ c.id = asked[n] => lastTm[n] = c.id

Verdicts(n, t) == Unmistakable(n, t) => OnAnswer(n, t) /\ OnReturn(n, t)

ChannelInv(n, t) ==
    Busy(n, t) => pending[n][call[n][t].kind].channel = call[n][t].channel

VInv ==
    /\ Unique /\ Truthful /\ Numbered /\ AccountInv
    /\ \A n \in Nodes, t \in Threads : ChannelInv(n, t) /\ Verdicts(n, t)

(* Where the frames are, after one is sent ...                             *)
LEMMA TransmitComing ==
  ASSUME TypeOK, NEW f \in Frame, Transmit(f), NEW n \in Nodes
  PROVE  /\ Coming(n)' = IF n = f.from THEN Coming(n) ELSE Coming(n) \cup {f}
         /\ Once(n) /\ (\A g \in Coming(n) : ~Same(n, g, f)) => Once(n)'
<1>1. inbox[n] \in Seq(Frame)
  BY DEF TypeOK
<1>2. inbox'[n] = IF n = f.from THEN inbox[n] ELSE Append(inbox[n], f)
  BY DEF Transmit
<1>3. CASE n = f.from
  BY <1>2, <1>3 DEF Coming, Once, Same, ReqFor, AnsTo
<1>4. CASE n # f.from
  <2> DEFINE q == inbox[n]
  <2>1. /\ DOMAIN q = 1 .. Len(q) /\ Len(q) \in Nat
        /\ DOMAIN inbox'[n] = 1 .. Len(q) + 1
        /\ \A i \in 1 .. Len(q) : inbox'[n][i] = q[i]
        /\ inbox'[n][Len(q) + 1] = f
    BY <1>1, <1>2, <1>4, AppendProperties, LenProperties
  <2>2. 1 .. Len(q) + 1 = (1 .. Len(q)) \cup {Len(q) + 1}
    BY <2>1
  <2>3. Coming(n)' = Coming(n) \cup {f}
    BY <2>1, <2>2 DEF Coming
  <2>4. ASSUME Once(n), \A g \in Coming(n) : ~Same(n, g, f),
               NEW i \in DOMAIN inbox'[n], NEW j \in DOMAIN inbox'[n], i < j
        PROVE  ~Same(n, inbox'[n][i], inbox'[n][j])
    <3>1. i \in 1 .. Len(q) /\ inbox'[n][i] = q[i] /\ q[i] \in Coming(n)
      BY <2>1, <2>4 DEF Coming
    <3>2. CASE j \in 1 .. Len(q)
      BY <2>1, <2>4, <3>1, <3>2 DEF Once
    <3>3. CASE j = Len(q) + 1
      BY <2>1, <2>4, <3>1, <3>3
    <3> QED
      BY <2>1, <2>2, <3>2, <3>3
  <2>5. Once(n) /\ (\A g \in Coming(n) : ~Same(n, g, f)) => Once(n)'
    BY <2>4 DEF Once, Same, ReqFor, AnsTo
  <2> QED
    BY <1>4, <2>3, <2>5
<1> QED
  BY <1>3, <1>4

(* ... and after the first one for m is taken or lost.                     *)
LEMMA TailComing ==
  ASSUME TypeOK, NEW m \in Nodes, inbox[m] # <<>>,
         inbox' = [inbox EXCEPT ![m] = Tail(@)], NEW n \in Nodes, Once(n)
  PROVE  /\ Coming(n)' \subseteq Coming(n)
         /\ Once(n)'
         /\ First(m) \in Coming(m)
         /\ n = m => \A g \in Coming(n)' : ~Same(n, First(n), g)
<1> DEFINE q == inbox[m]
<1>1. /\ DOMAIN q = 1 .. Len(q) /\ Len(q) \in Nat
      /\ DOMAIN Tail(q) = 1 .. Len(q) - 1
      /\ \A i \in 1 .. Len(q) - 1 : Tail(q)[i] = q[i + 1]
      /\ Head(q) = q[1] /\ Len(q) # 0
  <2>1. q \in Seq(Frame)
    BY DEF TypeOK
  <2> QED
    BY <2>1, HeadTailProperties, LenProperties, EmptySeq
<1>2. inbox'[n] = IF n = m THEN Tail(q) ELSE inbox[n]
  BY DEF TypeOK
<1>3. First(m) \in Coming(m)
  <2>1. 1 \in DOMAIN q
    BY <1>1
  <2> QED
    BY <1>1, <2>1 DEF First, Coming
<1>4. CASE n # m
  BY <1>2, <1>3, <1>4 DEF Coming, Once, Same, ReqFor, AnsTo
<1>5. CASE n = m
  <2>1. \A i \in DOMAIN inbox'[n] : /\ i + 1 \in DOMAIN q /\ 1 < i + 1 /\ 1 \in DOMAIN q
                                    /\ inbox'[n][i] = q[i + 1]
    <3>1. inbox'[n] = Tail(q)
      BY <1>2, <1>5
    <3> HIDE DEF q
    <3> QED
      BY <1>1, <3>1
  <2>2. Coming(n)' \subseteq Coming(n)
    BY <1>5, <2>1 DEF Coming
  <2>3. ASSUME NEW i \in DOMAIN inbox'[n], NEW j \in DOMAIN inbox'[n], i < j
        PROVE  ~Same(n, inbox'[n][i], inbox'[n][j])
    <3>1. i + 1 < j + 1
      BY <1>1, <1>2, <1>5, <2>3
    <3> QED
      BY <1>5, <2>1, <3>1 DEF Once
  <2>4. Once(n)'
    BY <2>3 DEF Once, Same, ReqFor, AnsTo
  <2>5. ASSUME NEW g \in Coming(n)'
        PROVE  ~Same(n, First(n), g)
    <3>1. PICK i \in DOMAIN inbox'[n] : g = inbox'[n][i]
      BY <2>5 DEF Coming
    <3> QED
      BY <1>1, <1>5, <2>1, <3>1 DEF Once, First
  <2> QED
    BY <1>3, <1>5, <2>2, <2>4, <2>5
<1> QED
  BY <1>4, <1>5

LEMMA ComingType ==
  ASSUME TypeOK, NEW n \in Nodes
  PROVE  Coming(n) \subseteq Frame /\ Open(n) \subseteq Frame /\ Ans(n) \subseteq Frame
<1>1. inbox[n] \in Seq(Frame)
  BY DEF TypeOK
<1>2. Coming(n) \subseteq Frame
  BY <1>1, ElementOfSeq, LenProperties DEF Coming
<1>3. Served(n) \subseteq Frame
  BY DEF Served, TypeOK
<1> QED
  BY <1>2, <1>3 DEF Open, Reqs, Ans

(* Nothing new is on its way and nothing is decided.                       *)
LEMMA FewerFrames ==
  ASSUME Unique, Truthful, UNCHANGED accepted,
         \A n \in Nodes : Open(n)' \subseteq Open(n) /\ Ans(n)' \subseteq Ans(n),
         \A n \in Nodes : Once(n)' /\ ServedOnce(n)'
  PROVE  /\ Unique' /\ Truthful'
         /\ \A i \in Ids \cup {0} : Fresh(i) => Fresh(i)'
<1>1. Unique'
  BY DEF Unique
<1>2. Truthful'
  BY DEF Truthful
<1>3. \A i \in Ids \cup {0} : Fresh(i) => Fresh(i)'
  BY DEF Fresh
<1> QED
  BY <1>1, <1>2, <1>3

(* ... nor does any call get on.                                           *)
LEMMA QuietStep ==
  ASSUME TypeOK, TypeOK', VInv,
         UNCHANGED <<pending, lastTm, call, accepted, overdue, asked>>, count' >= count,
         \A n \in Nodes : Open(n)' \subseteq Open(n) /\ Ans(n)' \subseteq Ans(n),
         \A n \in Nodes : Once(n)' /\ ServedOnce(n)'
  PROVE  VInv'
<1>1. Unique' /\ Truthful' /\ \A i \in Ids \cup {0} : Fresh(i) => Fresh(i)'
  BY FewerFrames DEF VInv
<1>2. \A n \in Nodes, t \in Threads : call[n][t] \in Call
  BY DEF TypeOK
<1>3. Numbered'
  <2>1. ASSUME NEW n \in Nodes, NEW t \in Threads PROVE NumberInv(n, t)'
    <3>1. NumberInv(n, t) /\ call[n][t].id \in Ids \cup {0}
      BY <1>2 DEF VInv, Numbered, Call
    <3>2. call[n][t].id <= count'
      BY <3>1 DEF NumberInv, TypeOK, Ids
    <3> QED
      BY <1>1, <3>1, <3>2 DEF NumberInv, Busy
  <2>2. ASSUME NEW i \in Ids, i > count' PROVE Fresh(i)'
    BY <1>1, <2>2 DEF VInv, Numbered, TypeOK, Ids
  <2> QED
    BY <2>1, <2>2 DEF VInv, Numbered
<1>4. AccountInv'
  BY DEF VInv, AccountInv, Accounted, GivenUp, Awaits
<1>5. ASSUME NEW n \in Nodes, NEW t \in Threads
      PROVE  ChannelInv(n, t)' /\ Verdicts(n, t)'
  <2>1. ChannelInv(n, t)'
    BY DEF VInv, ChannelInv, Busy
  <2>2. Unmistakable(n, t)' => Unmistakable(n, t)
    BY DEF Unmistakable
  <2>3. OnAnswer(n, t) => OnAnswer(n, t)'
    BY DEF OnAnswer, Busy, Decided
  <2>4. OnReturn(n, t) => OnReturn(n, t)'
    BY DEF OnReturn, Decided
  <2> QED
    BY <2>1, <2>2, <2>3, <2>4 DEF VInv, Verdicts
<1> QED
  BY <1>1, <1>3, <1>4, <1>5 DEF VInv

(* A call ends, and its record, if it has one, is cleared.                 *)
LEMMA VerdictEnd ==
  ASSUME TypeOK, TypeOK', IInv, VInv, UNCHANGED <<lastTm, rx, inbox, count, accepted, asked>>,
         NEW n \in Nodes, NEW t \in Threads, NEW c \in Call,
         call' = [call EXCEPT ![n][t] = c], c.pc = "idle", c.id \in {0, call[n][t].id},
         IF Busy(n, t) THEN Clear(n, call[n][t].kind) ELSE UNCHANGED pending,
         \A m \in Nodes : overdue[m] \subseteq overdue'[m],
         \A m \in Nodes, f \in Frame :
            f.kind \in Awaited /\ Awaits(n, t, m, f) => GivenUp(n, m, f)',
         c.outcome \in {"ok", "refused"} =>
            (Unmistakable(n, t)' => Decided(c, c.outcome = "ok"))
            /\ (Unmistakable(n, t)' /\ c.outcome = "ok" /\ c.kind = "tm" /\ c.id = asked[n]
                   => lastTm[n] = c.id)
  PROVE  VInv'
<1>1. \A m \in Nodes, u \in Threads : call[m][u] \in Call
  BY DEF TypeOK
<1>2. /\ call'[n][t] = c
      /\ \A m \in Nodes, u \in Threads : <<m, u>> # <<n, t>> => call'[m][u] = call[m][u]
  BY DEF TypeOK
<1>3. ASSUME NEW m \in Nodes, NEW u \in Threads, <<m, u>> # <<n, t>>, Busy(m, u)
      PROVE  pending'[m][call[m][u].kind] = pending[m][call[m][u].kind]
  <2>1. call[m][u].kind \in Awaited /\ call[n][t].kind \in Awaited
    BY <1>1 DEF Call
  <2>2. Busy(n, t) => <<m, call[m][u].kind>> # <<n, call[n][t].kind>>
    BY <1>3, <2>1 DEF IInv, OneOwner, Owns
  <2> QED
    BY <2>1, <2>2 DEF Clear, TypeOK
<1>4. \A m \in Nodes : /\ Open(m)' = Open(m) /\ Ans(m)' = Ans(m)
                       /\ Once(m)' = Once(m) /\ ServedOnce(m)' = ServedOnce(m)
  BY DEF Open, Ans, Once, ServedOnce, Coming, Reqs, Served, ReqFor, AnsTo, Same
<1>5. Unique' /\ Truthful' /\ \A i \in Ids \cup {0} : Fresh(i) => Fresh(i)'
  BY <1>4, FewerFrames DEF VInv, Unique
<1>6. Numbered'
  <2>1. ASSUME NEW m \in Nodes, NEW u \in Threads PROVE NumberInv(m, u)'
    <3>1. NumberInv(m, u) /\ call[m][u].id \in Ids \cup {0}
      BY <1>1 DEF VInv, Numbered, Call
    <3>2. CASE <<m, u>> = <<n, t>>
      <4>1. c.id <= count
        BY <3>1, <3>2 DEF NumberInv, TypeOK
      <4> QED
        BY <1>2, <3>2, <4>1 DEF NumberInv, Busy
    <3>3. CASE <<m, u>> # <<n, t>>
      BY <1>2, <1>5, <3>1, <3>3 DEF NumberInv, Busy
    <3> QED
      BY <3>2, <3>3
  <2>2. \A i \in Ids : i > count' => Fresh(i)'
    BY <1>5 DEF VInv, Numbered
  <2>3. ASSUME NEW m \in Nodes, NEW k \in Nodes, NEW u \in Threads, NEW v \in Threads,
               call'[m][u].id = call'[k][v].id, call'[m][u].id # 0
        PROVE  m = k /\ u = v
    <3>1. call'[m][u].id = call[m][u].id /\ call'[k][v].id = call[k][v].id
      BY <1>2, <2>3
    <3> QED
      BY <2>3, <3>1 DEF VInv, Numbered
  <2> QED
    BY <2>1, <2>2, <2>3 DEF Numbered
<1>7. ASSUME NEW m \in Nodes, NEW k \in Nodes, NEW f \in Frame, f.kind \in Awaited,
             Accounted(m, k, f)
      PROVE  Accounted(m, k, f)'
  <2>1. CASE GivenUp(m, k, f)
    BY <2>1 DEF Accounted, GivenUp
  <2>2. ASSUME NEW u \in Threads, Awaits(m, u, k, f), <<m, u>> # <<n, t>>
        PROVE  Awaits(m, u, k, f)'
    BY <1>2, <1>3, <2>2 DEF Awaits, Busy
  <2>3. CASE Awaits(n, t, k, f) /\ m = n
    BY <1>7, <2>3 DEF Accounted
  <2> QED
    BY <1>7, <2>1, <2>2, <2>3 DEF Accounted
<1>8. AccountInv'
  <2>1. ASSUME NEW m \in Nodes, NEW f \in Open(m)
        PROVE  Accounted(f.from, m, f)'
    <3>1. f \in Frame /\ f.kind \in Awaited /\ f.from \in Nodes
      <4>1. f \in Frame /\ f.what = "req"
        BY ComingType DEF Open, Reqs, ReqFor, Served
      <4> QED
        BY <4>1 DEF Frame, Kinds
    <3>2. Accounted(f.from, m, f)
      BY DEF VInv, AccountInv
    <3> DEFINE k == f.from
    <3>3. k \in Nodes /\ Accounted(k, m, f)
      BY <3>1, <3>2
    <3> HIDE DEF k
    <3>4. Accounted(k, m, f)'
      BY <1>7, <3>1, <3>3
    <3> QED
      BY <3>4 DEF k
  <2>2. ASSUME NEW m \in Nodes, NEW f \in Ans(m)
        PROVE  Accounted(m, f.from, f)'
    <3>1. f \in Frame /\ f.kind \in Awaited /\ f.from \in Nodes
      <4>1. f \in Frame /\ f.what # "cast"
        BY ComingType DEF Ans, AnsTo
      <4> QED
        BY <4>1 DEF Frame, Kinds
    <3>2. Accounted(m, f.from, f)
      BY DEF VInv, AccountInv
    <3> QED
      BY <1>7, <3>1, <3>2
  <2> QED
    BY <1>4, <2>1, <2>2 DEF AccountInv
<1>9. ASSUME NEW m \in Nodes, NEW u \in Threads
      PROVE  ChannelInv(m, u)' /\ Verdicts(m, u)'
  <2>1. CASE <<m, u>> = <<n, t>>
    <3>1. ~Busy(m, u)'
      BY <1>2, <2>1 DEF Busy
    <3>2. OnReturn(m, u)' \/ ~Unmistakable(m, u)'
      BY <1>2, <1>4, <2>1 DEF OnReturn, Decided
    <3> QED
      BY <3>1, <3>2 DEF ChannelInv, Verdicts, OnAnswer
  <2>2. CASE <<m, u>> # <<n, t>>
    <3>1. call'[m][u] = call[m][u]
      BY <1>2, <2>2
    <3>2. Unmistakable(m, u)' => Unmistakable(m, u)
      BY <3>1 DEF Unmistakable
    <3>3. OnReturn(m, u) => OnReturn(m, u)'
      BY <1>4, <3>1 DEF OnReturn, Decided
    <3>4. OnAnswer(m, u) => OnAnswer(m, u)'
      BY <1>3, <1>4, <2>2, <3>1 DEF OnAnswer, Decided, Busy
    <3>5. ChannelInv(m, u)'
      BY <1>3, <2>2, <3>1 DEF VInv, ChannelInv, Busy
    <3> QED
      BY <3>2, <3>3, <3>4, <3>5 DEF VInv, Verdicts
  <2> QED
    BY <2>1, <2>2
<1> QED
  BY <1>5, <1>6, <1>8, <1>9 DEF VInv

(* A call begins, under a number that nothing has had before.              *)
LEMMA VerdictBegin ==
  ASSUME TypeOK, TypeOK', IInv, VInv, NEW n \in Nodes, NEW t \in Threads,
         NEW kind \in Awaited, NEW to \in Address, NEW channel \in Channels,
         Begin(n, t, kind, to, channel)
  PROVE  VInv'
<1> DEFINE c == [pc |-> "send", kind |-> kind, to |-> to, channel |-> channel,
                 id |-> count', outcome |-> "none"]
           p == [NoPending EXCEPT !.waiting = TRUE, !.peer = to, !.channel = channel]
<1>1. \A m \in Nodes, u \in Threads : call[m][u] \in Call
  BY DEF TypeOK
<1>2. /\ call'[n][t] = c
      /\ \A m \in Nodes, u \in Threads : <<m, u>> # <<n, t>> => call'[m][u] = call[m][u]
  BY DEF Begin, TypeOK
<1>3. /\ pending'[n][kind] = p
      /\ \A m \in Nodes, l \in Awaited :
            <<m, l>> # <<n, kind>> => pending'[m][l] = pending[m][l]
  BY DEF Begin, TypeOK
<1>4. /\ c.pc = "send" /\ c.kind = kind /\ c.to = to /\ c.channel = channel
      /\ c.id = count + 1 /\ c.outcome = "none"
      /\ ~p.done /\ p.channel = channel
  BY DEF NoPending, Begin
<1>5. count' = count + 1 /\ count \in Nat /\ count + 1 \in Ids
  BY ProtocolAssumption DEF Begin, TypeOK, Ids
<1>6. ~Busy(n, t) /\ \A u \in Threads : ~Owns(n, u, kind)
  BY DEF Begin, MayCall, IInv, OneOwner
<1> HIDE DEF c, p
<1>7. ASSUME NEW m \in Nodes, NEW u \in Threads, <<m, u>> # <<n, t>>, Busy(m, u)
      PROVE  /\ <<m, call[m][u].kind>> # <<n, kind>>
             /\ pending'[m][call[m][u].kind] = pending[m][call[m][u].kind]
  BY <1>1, <1>3, <1>6, <1>7 DEF Owns, Call
<1>8. UNCHANGED <<lastTm, rx, inbox, accepted, overdue>>
  BY DEF Begin, busVars
<1>9. \A m \in Nodes : /\ Open(m)' = Open(m) /\ Ans(m)' = Ans(m)
                       /\ Once(m)' = Once(m) /\ ServedOnce(m)' = ServedOnce(m)
  BY <1>8 DEF Open, Ans, Once, ServedOnce, Coming, Reqs, Served, ReqFor, AnsTo, Same
<1>10. Unique' /\ Truthful' /\ \A i \in Ids \cup {0} : Fresh(i) => Fresh(i)'
  BY <1>8, <1>9, FewerFrames DEF VInv, Unique
<1>11. \A m \in Nodes, u \in Threads : call[m][u].id \in 0 .. count
  BY <1>1, <1>5 DEF VInv, Numbered, NumberInv, Call, Ids
<1>12. Numbered'
  <2>1. Fresh(count + 1)
    BY <1>5 DEF VInv, Numbered
  <2>2. ASSUME NEW m \in Nodes, NEW u \in Threads PROVE NumberInv(m, u)'
    <3>1. NumberInv(m, u) /\ call[m][u].id \in Ids \cup {0}
      BY <1>1 DEF VInv, Numbered, Call
    <3>2. CASE <<m, u>> = <<n, t>>
      <4>1. PICK i \in Ids : i = count + 1
        BY <1>5
      <4>2. call'[n][t].id = i /\ Fresh(i)'
        BY <1>2, <1>4, <1>10, <2>1, <4>1
      <4>3. kind = "tm" => asked'[n] = count'
        BY DEF Begin, TypeOK
      <4>4. Fresh(call[n][t].id)'
        BY <4>2
      <4> QED
        BY <1>2, <1>4, <1>5, <3>2, <4>3, <4>4 DEF NumberInv
    <3>3. CASE <<m, u>> # <<n, t>>
      <4>1. call[m][u].id <= count'
        BY <1>5, <1>11
      <4>2. Busy(m, u) /\ call[m][u].kind = "tm" => asked'[m] = asked[m]
        <5>1. ASSUME Busy(m, u), call[m][u].kind = "tm" PROVE kind # "tm" \/ m # n
          BY <1>7, <3>3, <5>1
        <5> QED
          BY <5>1 DEF Begin, TypeOK
      <4> QED
        BY <1>2, <1>10, <3>1, <3>3, <4>1, <4>2 DEF NumberInv, Busy
    <3> QED
      BY <3>2, <3>3
  <2>3. ASSUME NEW i \in Ids, i > count' PROVE Fresh(i)'
    <3>1. i > count
      BY <1>5, <2>3 DEF Ids
    <3> QED
      BY <1>10, <3>1 DEF VInv, Numbered
  <2>4. ASSUME NEW m \in Nodes, NEW k \in Nodes, NEW u \in Threads, NEW v \in Threads,
               call'[m][u].id = call'[k][v].id, call'[m][u].id # 0
        PROVE  m = k /\ u = v
    <3>1. CASE <<m, u>> # <<n, t>> /\ <<k, v>> # <<n, t>>
      <4>1. call'[m][u].id = call[m][u].id /\ call'[k][v].id = call[k][v].id
        BY <1>2, <3>1
      <4>2. call[m][u].id = call[k][v].id /\ call[m][u].id # 0
        BY <2>4, <4>1
      <4> QED
        BY <4>2 DEF VInv, Numbered
    <3>2. \A a \in Nodes, b \in Threads :
             <<a, b>> # <<n, t>> => call'[a][b].id # call'[n][t].id
      BY <1>2, <1>4, <1>5, <1>11
    <3> QED
      BY <2>4, <3>1, <3>2
  <2> QED
    BY <2>2, <2>3, <2>4 DEF Numbered
<1>13. ASSUME NEW m \in Nodes, NEW k \in Nodes, NEW f \in Frame, Accounted(m, k, f)
       PROVE  Accounted(m, k, f)'
  <2>1. CASE GivenUp(m, k, f)
    BY <1>8, <2>1 DEF Accounted, GivenUp
  <2>2. ASSUME NEW u \in Threads, Awaits(m, u, k, f)
        PROVE  Awaits(m, u, k, f)'
    <3>1. Busy(m, u) /\ <<m, u>> # <<n, t>>
      BY <1>6, <2>2 DEF Awaits, Busy
    <3> QED
      BY <1>2, <1>7, <2>2, <3>1 DEF Awaits
  <2> QED
    BY <1>13, <2>1, <2>2 DEF Accounted
<1>14. AccountInv'
  <2>1. ASSUME NEW m \in Nodes, NEW f \in Open(m)
        PROVE  Accounted(f.from, m, f)'
    <3>1. f \in Frame /\ f.from \in Nodes
      BY ComingType DEF Frame
    <3> DEFINE k == f.from
    <3>2. k \in Nodes /\ Accounted(k, m, f)
      BY <3>1 DEF VInv, AccountInv
    <3> HIDE DEF k
    <3>3. Accounted(k, m, f)'
      BY <1>13, <3>1, <3>2
    <3> QED
      BY <3>3 DEF k
  <2>2. ASSUME NEW m \in Nodes, NEW f \in Ans(m)
        PROVE  Accounted(m, f.from, f)'
    <3>1. f \in Frame /\ f.from \in Nodes
      BY ComingType DEF Frame
    <3> QED
      BY <1>13, <3>1 DEF VInv, AccountInv
  <2> QED
    BY <1>9, <2>1, <2>2 DEF AccountInv
<1>15. ASSUME NEW m \in Nodes, NEW u \in Threads
       PROVE  ChannelInv(m, u)' /\ Verdicts(m, u)'
  <2>1. CASE <<m, u>> = <<n, t>>
    <3>1. ~pending'[m][call'[m][u].kind].done /\ call'[m][u].outcome = "none"
      BY <1>2, <1>3, <1>4, <2>1
    <3>2. ChannelInv(m, u)'
      BY <1>2, <1>3, <1>4, <2>1 DEF ChannelInv
    <3> QED
      BY <3>1, <3>2 DEF Verdicts, OnAnswer, OnReturn
  <2>2. CASE <<m, u>> # <<n, t>>
    <3>1. call'[m][u] = call[m][u]
      BY <1>2, <2>2
    <3>2. Unmistakable(m, u)' => Unmistakable(m, u)
      BY <1>8, <3>1 DEF Unmistakable
    <3>3. OnReturn(m, u) => OnReturn(m, u)'
      <4>1. call[m][u].id = asked'[m] => call[m][u].id = asked[m]
        BY <1>5, <1>11 DEF Begin, TypeOK
      <4> QED
        BY <1>8, <1>9, <3>1, <4>1 DEF OnReturn, Decided
    <3>4. OnAnswer(m, u) => OnAnswer(m, u)'
      BY <1>7, <1>8, <1>9, <2>2, <3>1 DEF OnAnswer, Decided, Busy
    <3>5. ChannelInv(m, u)'
      BY <1>7, <2>2, <3>1 DEF VInv, ChannelInv, Busy
    <3> QED
      BY <3>2, <3>3, <3>4, <3>5 DEF VInv, Verdicts
  <2> QED
    BY <2>1, <2>2
<1> QED
  BY <1>10, <1>12, <1>14, <1>15 DEF VInv

(* The request of a call is sent: it is new to every node, and awaited.    *)
LEMMA VerdictSend ==
  ASSUME TypeOK, TypeOK', IInv, VInv, NEW n \in Nodes, NEW t \in Threads, Send(n, t)
  PROVE  VInv'
<1> DEFINE c == call[n][t]
           r == [kind |-> c.kind, what |-> "req", from |-> n, to |-> c.to,
                 channel |-> c.channel, id |-> c.id]
<1>1. \A m \in Nodes, u \in Threads : call[m][u] \in Call
  BY DEF TypeOK
<1>2. PICK f \in Frame : f = r /\ f.kind \in Awaited
  <2>1. c \in Call
    BY <1>1
  <2>2. r \in Frame /\ r.kind \in Awaited
    BY <2>1 DEF Frame, Kinds, Casts, Awaited, Call
  <2> QED
    BY <2>2
<1>3. /\ call'[n][t] = [c EXCEPT !.pc = "wait"]
      /\ \A m \in Nodes, u \in Threads : <<m, u>> # <<n, t>> => call'[m][u] = call[m][u]
  BY DEF Send, TypeOK
<1>4. \A m \in Nodes, u \in Threads :
         /\ call'[m][u].kind = call[m][u].kind
         /\ call'[m][u].to = call[m][u].to
         /\ call'[m][u].channel = call[m][u].channel
         /\ call'[m][u].id = call[m][u].id
         /\ call'[m][u].outcome = call[m][u].outcome
         /\ Busy(m, u)' <=> Busy(m, u)
         /\ call[m][u].pc = "wait" => call'[m][u].pc = "wait"
         /\ call'[m][u].pc = "send" => call[m][u].pc = "send" /\ <<m, u>> # <<n, t>>
  <2>1. c \in Call /\ c.pc = "send"
    BY <1>1 DEF Send
  <2> HIDE DEF c
  <2>2. c = call[n][t]
    BY DEF c
  <2> QED
    BY <1>3, <2>1, <2>2 DEF Call, Busy
<1>5. /\ f.what = "req" /\ f.from = n /\ f.to = c.to /\ f.kind = c.kind
      /\ f.channel = c.channel /\ f.id = c.id
      /\ c.id # 0 /\ c.id <= count /\ Fresh(f.id)
  BY <1>2 DEF VInv, Numbered, NumberInv, Send, Busy
<1>6. UNCHANGED <<pending, lastTm, rx, count, accepted, overdue, asked>> /\ Transmit(f)
  BY <1>2 DEF Send, nodeVars, historyVars
<1> HIDE DEF r
<1>7. \A m \in Nodes :
         /\ Coming(m)' = IF m = n THEN Coming(m) ELSE Coming(m) \cup {f}
         /\ Once(m) /\ (\A g \in Coming(m) : ~Same(m, g, f)) => Once(m)'
  BY <1>2, <1>5, <1>6, TransmitComing
<1>8. \A m \in Nodes : /\ Served(m)' = Served(m)
                       /\ Ans(m)' = Ans(m)
                       /\ Reqs(m)' \subseteq Reqs(m) \cup {f}
                       /\ Open(m)' \subseteq Open(m) \cup {f}
                       /\ f \in Reqs(m)' => f.to \in {m, Everyone} \/ f \in Reqs(m)
  BY <1>5, <1>6, <1>7 DEF Served, Ans, Reqs, Open, ReqFor, AnsTo
<1>9. ASSUME NEW m \in Nodes
      PROVE  /\ \A g \in Open(m) \cup Ans(m) : g.id # f.id
             /\ f.id \notin accepted[m]
  BY <1>5 DEF Fresh
<1>10. Unique'
  <2>1. ASSUME NEW m \in Nodes PROVE Once(m)' /\ ServedOnce(m)'
    <3>1. \A g \in Coming(m) : ~Same(m, g, f)
      BY <1>5, <1>9 DEF Same, Open, Reqs, AnsTo
    <3>2. Once(m)'
      BY <1>7, <3>1 DEF VInv, Unique
    <3>3. Served(m) \subseteq Open(m)
      BY DEF Open
    <3>4. ServedOnce(m)'
      BY <1>8, <1>9, <3>3 DEF VInv, Unique, ServedOnce
    <3> QED
      BY <3>2, <3>4
  <2>2. ASSUME NEW m \in Nodes, NEW k \in Nodes, NEW g \in Open(m)', NEW h \in Ans(k)',
               h.from = m
        PROVE  g.id # h.id
    BY <1>8, <1>9, <2>2 DEF VInv, Unique
  <2> QED
    BY <2>1, <2>2 DEF Unique
<1>11. Truthful'
  BY <1>6, <1>8, <1>9 DEF VInv, Truthful
<1>12. \A i \in Ids \cup {0} : i # f.id /\ Fresh(i) => Fresh(i)'
  BY <1>6, <1>8 DEF Fresh
<1>13. Numbered'
  <2>1. ASSUME NEW m \in Nodes, NEW u \in Threads PROVE NumberInv(m, u)'
    <3>1. NumberInv(m, u) /\ call[m][u].id \in Ids \cup {0}
      BY <1>1 DEF VInv, Numbered, Call
    <3>2. ASSUME call'[m][u].pc = "send"
          PROVE  Fresh(call[m][u].id)'
      <4>1. call[m][u].pc = "send" /\ <<m, u>> # <<n, t>>
        BY <1>4, <3>2
      <4>2. call[m][u].id # f.id
        BY <1>5, <4>1 DEF VInv, Numbered
      <4>3. PICK i \in Ids \cup {0} : i = call[m][u].id
        BY <3>1
      <4>4. Fresh(i)' /\ call'[m][u].id = i
        BY <1>4, <1>12, <3>1, <4>1, <4>2, <4>3 DEF NumberInv
      <4> QED
        BY <4>4
    <3> QED
      BY <1>4, <1>6, <3>1, <3>2 DEF NumberInv
  <2>2. ASSUME NEW i \in Ids, i > count' PROVE Fresh(i)'
    <3>1. i > count /\ i # f.id
      BY <1>5, <1>6, <2>2 DEF TypeOK, Ids
    <3> QED
      BY <1>12, <3>1 DEF VInv, Numbered
  <2>3. ASSUME NEW m \in Nodes, NEW k \in Nodes, NEW u \in Threads, NEW v \in Threads,
               call'[m][u].id = call'[k][v].id, call'[m][u].id # 0
        PROVE  m = k /\ u = v
    <3>1. call[m][u].id = call[k][v].id /\ call[m][u].id # 0
      BY <1>4, <2>3
    <3> QED
      BY <3>1 DEF VInv, Numbered
  <2> QED
    BY <2>1, <2>2, <2>3 DEF Numbered
<1>14. \A m, k \in Nodes, g \in Frame : Accounted(m, k, g) => Accounted(m, k, g)'
  BY <1>4, <1>6 DEF Accounted, GivenUp, Awaits
<1>15. ASSUME NEW m \in Nodes, f.to \in {m, Everyone}
       PROVE  Accounted(n, m, f)'
  <2> DEFINE p == pending[n][c.kind]
  <2>1. CASE ~p.done
    <3>1. call'[n][t].pc = "wait" /\ ~pending'[n][f.kind].done
      BY <1>1, <1>3, <1>5, <1>6, <2>1 DEF Call
    <3>2. Awaits(n, t, m, f)'
      BY <1>4, <1>5, <1>15, <3>1 DEF Awaits
    <3> QED
      BY <3>2 DEF Accounted
  <2>2. CASE p.done
    <3>1. Busy(n, t) /\ c.pc # "wait"
      BY DEF Send, Busy
    <3>2. ~Unmistakable(n, t)
      BY <2>2, <3>1 DEF VInv, Verdicts, OnAnswer
    <3>3. c.to \in Nodes
      BY <2>2, <3>1 DEF IInv, OwnerInv
    <3>4. c.to = m
      BY <1>5, <1>15, <3>3, ProtocolAssumption
    <3> QED
      BY <1>5, <1>6, <3>2, <3>4 DEF Unmistakable, Accounted, GivenUp
  <2> QED
    BY <2>1, <2>2
<1>16. AccountInv'
  <2>1. ASSUME NEW m \in Nodes, NEW g \in Open(m)'
        PROVE  Accounted(g.from, m, g)'
    <3>1. CASE g \in Open(m)
      <4>1. g \in Frame /\ g.from \in Nodes
        BY <3>1, ComingType DEF Frame
      <4> DEFINE k == g.from
      <4>2. k \in Nodes /\ Accounted(k, m, g)
        BY <3>1, <4>1 DEF VInv, AccountInv
      <4> HIDE DEF k
      <4>3. Accounted(k, m, g)'
        BY <1>14, <4>1, <4>2
      <4> QED
        BY <4>3 DEF k
    <3>2. CASE g = f /\ g \notin Open(m)
      <4>1. g \in Reqs(m)' \/ g \in Served(m)'
        BY <2>1 DEF Open
      <4>2. f.to \in {m, Everyone}
        BY <1>8, <3>2, <4>1 DEF Open
      <4> QED
        BY <1>5, <1>15, <3>2, <4>2
    <3> QED
      BY <1>8, <3>1, <3>2
  <2>2. ASSUME NEW m \in Nodes, NEW g \in Ans(m)
        PROVE  Accounted(m, g.from, g)'
    <3>1. g \in Frame /\ g.from \in Nodes
      BY ComingType DEF Frame
    <3> QED
      BY <1>14, <3>1 DEF VInv, AccountInv
  <2> QED
    BY <1>8, <2>1, <2>2 DEF AccountInv
<1>17. ASSUME NEW m \in Nodes, NEW u \in Threads
       PROVE  ChannelInv(m, u)' /\ Verdicts(m, u)'
  <2>1. Unmistakable(m, u)' => Unmistakable(m, u)
    BY <1>4, <1>6 DEF Unmistakable
  <2>2. ChannelInv(m, u)'
    BY <1>4, <1>6 DEF VInv, ChannelInv
  <2>3. CASE <<m, u>> = <<n, t>>
    <3>1. Busy(m, u) /\ call[m][u].pc # "wait" /\ call[m][u].outcome = "none"
      BY <2>3 DEF VInv, Numbered, NumberInv, Send, Busy
    <3>2. OnReturn(m, u)'
      BY <1>4, <3>1 DEF OnReturn
    <3>3. OnAnswer(m, u) => OnAnswer(m, u)'
      BY <1>4, <1>6, <3>1 DEF OnAnswer
    <3> QED
      BY <2>1, <2>2, <3>2, <3>3 DEF VInv, Verdicts
  <2>4. CASE <<m, u>> # <<n, t>>
    <3>1. call'[m][u] = call[m][u] /\ call[m][u].id # f.id
      BY <1>3, <1>5, <2>4 DEF VInv, Numbered
    <3>2. OnReturn(m, u) => OnReturn(m, u)'
      BY <1>6, <1>8, <3>1 DEF OnReturn, Decided
    <3>3. OnAnswer(m, u) => OnAnswer(m, u)'
      BY <1>6, <1>8, <3>1 DEF OnAnswer, Decided, Busy
    <3> QED
      BY <2>1, <2>2, <3>2, <3>3 DEF VInv, Verdicts
  <2> QED
    BY <2>3, <2>4
<1> QED
  BY <1>10, <1>11, <1>13, <1>16, <1>17 DEF VInv

(* A frame for a handler: a request goes from the inbox to the handler.    *)
LEMMA VerdictHandle ==
  ASSUME TypeOK, TypeOK', VInv, NEW n \in Nodes, TakeForHandler(n)
  PROVE  VInv'
<1> DEFINE f == First(n)
<1>1. f \in Frame /\ f.what \in {"req", "cast"} /\ f.to \in {n, Everyone} /\ rx[n].frame = NoFrame
  BY FirstType DEF TakeForHandler, Take, ForMe
<1>2. ASSUME NEW m \in Nodes
      PROVE  /\ Coming(m)' \subseteq Coming(m) /\ Once(m)'
             /\ f \in Coming(n)
             /\ m = n => \A g \in Coming(m)' : ~Same(m, f, g)
  BY TailComing DEF TakeForHandler, Take, VInv, Unique
<1>3. ASSUME NEW m \in Nodes
      PROVE  Reqs(m)' \subseteq Reqs(m) /\ Ans(m)' \subseteq Ans(m)
  BY <1>2 DEF Reqs, Ans, ReqFor, AnsTo
<1>4. rx' = rx \/ rx' = [rx EXCEPT ![n] = [handler |-> f.kind \in handlers[n], frame |-> f]]
  BY DEF TakeForHandler
<1> HIDE DEF f
<1>5. ASSUME NEW m \in Nodes
      PROVE  rx'[m].frame = rx[m].frame \/ (m = n /\ rx'[m].frame = f)
  BY <1>4 DEF TypeOK
<1>6. Served(n) = {}
  BY <1>1 DEF Served
<1>7. ASSUME NEW m \in Nodes
      PROVE  \/ Served(m)' = Served(m) /\ (m = n => Served(m)' = {})
             \/ m = n /\ Served(m)' \subseteq {f} /\ (Served(m)' # {} => f.what = "req")
  BY <1>5, <1>6 DEF Served
<1>8. f.what = "req" => f \in Reqs(n)
  BY <1>1, <1>2 DEF Reqs, ReqFor
<1>9. ASSUME NEW m \in Nodes
      PROVE  Open(m)' \subseteq Open(m) /\ ServedOnce(m)'
  <2>1. CASE Served(m)' = Served(m)
    BY <1>3, <2>1 DEF Open, ServedOnce, VInv, Unique
  <2>2. CASE Served(m)' # Served(m)
    <3>1. m = n /\ Served(m)' \subseteq {f} /\ f.what = "req"
      BY <1>6, <1>7, <2>2
    <3>2. ASSUME NEW g \in Reqs(m)' PROVE g.id # f.id
      <4>1. ReqFor(m, g) /\ g \in Coming(m)' /\ ReqFor(m, f)
        BY <1>1, <3>1 DEF Reqs, ReqFor
      <4> QED
        BY <1>2, <3>1, <4>1 DEF Same
    <3> QED
      BY <1>3, <1>8, <3>1, <3>2 DEF Open, ServedOnce
  <2> QED
    BY <2>1, <2>2
<1>10. UNCHANGED <<pending, lastTm, call, accepted, overdue, asked, count>>
  BY DEF TakeForHandler, historyVars
<1>11. count' >= count
  BY <1>10 DEF TypeOK
<1> QED
  BY <1>2, <1>3, <1>9, <1>10, <1>11, QuietStep

(* An answer: if it matches, it is about the request of the call, unless   *)
(* it is overdue.                                                          *)
LEMMA VerdictAnswer ==
  ASSUME TypeOK, TypeOK', IInv, VInv, NEW n \in Nodes, TakeAnswer(n)
  PROVE  VInv'
<1>1. \A m \in Nodes, u \in Threads : call[m][u] \in Call
  BY DEF TypeOK
<1>2. PICK f \in Frame : f = First(n)
  BY FirstType DEF TakeAnswer, Take
<1> DEFINE q == pending[n][f.kind]
<1>3. f.what \in {"ack", "nack"} /\ f.to \in {n, Everyone} /\ f.kind \in Awaited /\ f.from \in Nodes
  <2>1. f.what \in {"ack", "nack"} /\ f.to \in {n, Everyone}
    BY <1>2 DEF TakeAnswer, ForMe
  <2> QED
    BY <2>1 DEF Frame, Kinds
<1>4. ASSUME NEW m \in Nodes
      PROVE  /\ Coming(m)' \subseteq Coming(m) /\ Once(m)'
             /\ f \in Coming(n)
             /\ m = n => \A g \in Coming(m)' : ~Same(m, f, g)
  BY <1>2, TailComing DEF TakeAnswer, Take, VInv, Unique
<1>5. UNCHANGED <<call, rx, count, accepted, overdue, asked>>
  BY DEF TakeAnswer, threadVars, historyVars
<1>6. ASSUME NEW m \in Nodes
      PROVE  /\ Reqs(m)' \subseteq Reqs(m) /\ Served(m)' = Served(m)
             /\ Open(m)' \subseteq Open(m) /\ Ans(m)' \subseteq Ans(m)
  BY <1>4, <1>5 DEF Reqs, Served, Open, Ans, ReqFor, AnsTo
<1>7. ASSUME NEW m \in Nodes PROVE ServedOnce(m)'
  BY <1>6 DEF VInv, Unique, ServedOnce
<1>8. f \in Ans(n)
  BY <1>3, <1>4 DEF Ans, AnsTo
<1>9. CASE ~Matches(q, f)
  <2>1. UNCHANGED <<pending, lastTm>>
    BY <1>2, <1>9 DEF TakeAnswer
  <2>2. count' >= count
    BY <1>5 DEF TypeOK
  <2> QED
    BY <1>4, <1>5, <1>6, <1>7, <2>1, <2>2, QuietStep
<1>10. CASE Matches(q, f)
  <2> DEFINE p == [q EXCEPT !.done = TRUE, !.ok = (f.what = "ack")]
  <2>1. q \in PendingTcTm
    BY <1>3 DEF TypeOK
  <2>2. p.done /\ p.ok = (f.what = "ack") /\ p.channel = q.channel
    BY <2>1 DEF PendingTcTm
  <2>3. /\ pending'[n][f.kind] = p
        /\ \A m \in Nodes, l \in Awaited :
              <<m, l>> # <<n, f.kind>> => pending'[m][l] = pending[m][l]
    BY <1>2, <1>3, <1>10 DEF TakeAnswer, TypeOK
  <2>4. \A m \in Nodes : m # n \/ f.kind # "tm" => lastTm'[m] = lastTm[m]
    BY <1>2, <1>3, <1>10 DEF TakeAnswer, TypeOK, Awaited
  <2>5. f.kind = "tm" /\ f.what = "ack" => lastTm'[n] = f.id
    BY <1>2, <1>10 DEF TakeAnswer, TypeOK
  <2> HIDE DEF p
  <2>6. PICK t \in Threads : Owns(n, t, f.kind)
    BY <1>3, <1>10 DEF Matches, IInv, OneOwner
  <2> DEFINE c == call[n][t]
  <2>7. c.to = f.from /\ c.channel = f.channel /\ c.kind = f.kind /\ Busy(n, t)
    BY <1>10, <2>6 DEF Matches, Owns, IInv, OwnerInv, VInv, ChannelInv
  <2>8. \A u \in Threads : Owns(n, u, f.kind) => u = t
    BY <1>3, <2>6 DEF IInv, OneOwner
  <2>9. GivenUp(n, f.from, f) \/ (Awaits(n, t, f.from, f) /\ c.id = f.id /\ c.pc = "wait")
    <3>1. Accounted(n, f.from, f)
      BY <1>8 DEF VInv, AccountInv
    <3>2. ASSUME NEW u \in Threads, Awaits(n, u, f.from, f)
          PROVE  u = t /\ c.id = f.id /\ c.pc = "wait"
      <4>1. Owns(n, u, f.kind)
        BY <3>2 DEF Awaits, Owns, Busy
      <4> QED
        BY <2>8, <3>2, <4>1 DEF Awaits
    <3> QED
      BY <3>1, <3>2 DEF Accounted
  <2>10. /\ \A g \in Open(f.from) : g.id # f.id
         /\ \A g \in Ans(n)' : g.from = f.from => g.id # f.id
    <3>1. \A g \in Open(f.from) : g.id # f.id
      BY <1>3, <1>8 DEF VInv, Unique
    <3>2. ASSUME NEW g \in Ans(n)', g.from = f.from PROVE g.id # f.id
      <4>1. g \in Coming(n)' /\ AnsTo(n, g) /\ AnsTo(n, f)
        BY <1>3 DEF Ans, AnsTo
      <4> QED
        BY <1>4, <3>2, <4>1 DEF Same
    <3> QED
      BY <3>1, <3>2
  <2>11. Unique' /\ Truthful' /\ \A i \in Ids \cup {0} : Fresh(i) => Fresh(i)'
    BY <1>4, <1>5, <1>6, <1>7, FewerFrames DEF VInv
  <2>12. Numbered'
    <3>1. ASSUME NEW m \in Nodes, NEW u \in Threads PROVE NumberInv(m, u)'
      <4>1. NumberInv(m, u) /\ call[m][u].id \in Ids \cup {0}
        BY <1>1 DEF VInv, Numbered, Call
      <4> QED
        BY <1>5, <2>11, <4>1 DEF NumberInv, Busy
    <3> QED
      BY <1>5, <2>11, <3>1 DEF VInv, Numbered
  <2>13. ASSUME NEW m \in Nodes, NEW k \in Nodes, NEW g \in Frame, Accounted(m, k, g),
                m # n \/ k # f.from \/ g.id # f.id
         PROVE  Accounted(m, k, g)'
    <3>1. CASE GivenUp(m, k, g)
      BY <1>5, <3>1 DEF Accounted, GivenUp
    <3>2. ASSUME NEW u \in Threads, Awaits(m, u, k, g), <<m, g.kind>> # <<n, f.kind>>
          PROVE  Awaits(m, u, k, g)'
      <4>1. g.kind \in Awaited
        BY <1>1, <3>2 DEF Awaits, Call
      <4> QED
        BY <1>5, <2>3, <3>2, <4>1 DEF Awaits
    <3>3. ASSUME NEW u \in Threads, Awaits(m, u, k, g), m = n, g.kind = f.kind
          PROVE  GivenUp(m, k, g)'
      <4>1. Owns(n, u, f.kind)
        BY <3>3 DEF Awaits, Owns, Busy
      <4>2. u = t
        BY <2>8, <4>1
      <4>3. k = f.from /\ g.channel = f.channel /\ g.id = c.id
        BY <1>3, <2>7, <3>3, <4>2, ProtocolAssumption DEF Awaits
      <4>4. GivenUp(n, f.from, f)
        BY <2>9, <2>13, <3>3, <4>3
      <4> QED
        BY <1>5, <3>3, <4>3, <4>4 DEF GivenUp
    <3> QED
      BY <2>13, <3>1, <3>2, <3>3 DEF Accounted
  <2>14. AccountInv'
    <3>1. ASSUME NEW m \in Nodes, NEW g \in Open(m)'
          PROVE  Accounted(g.from, m, g)'
      <4>1. g \in Open(m) /\ g \in Frame /\ g.from \in Nodes
        BY <1>6, ComingType DEF Frame
      <4> DEFINE k == g.from
      <4>2. k \in Nodes /\ Accounted(k, m, g)
        BY <4>1 DEF VInv, AccountInv
      <4>3. m # f.from \/ g.id # f.id
        BY <2>10, <4>1
      <4> HIDE DEF k
      <4>4. Accounted(k, m, g)'
        BY <2>13, <4>1, <4>2, <4>3
      <4> QED
        BY <4>4 DEF k
    <3>2. ASSUME NEW m \in Nodes, NEW g \in Ans(m)'
          PROVE  Accounted(m, g.from, g)'
      <4>1. g \in Ans(m) /\ g \in Frame /\ g.from \in Nodes
        BY <1>6, ComingType DEF Frame
      <4>2. m # n \/ g.from # f.from \/ g.id # f.id
        BY <2>10
      <4>3. Accounted(m, g.from, g)
        BY <4>1 DEF VInv, AccountInv
      <4> QED
        BY <2>13, <4>1, <4>2, <4>3
    <3> QED
      BY <3>1, <3>2 DEF AccountInv
  <2>15. ASSUME NEW m \in Nodes, NEW u \in Threads
         PROVE  ChannelInv(m, u)'
    <3>1. call[m][u].kind \in Awaited /\ ChannelInv(m, u)
      BY <1>1 DEF VInv, Call
    <3>2. pending'[m][call[m][u].kind].channel = pending[m][call[m][u].kind].channel
      BY <1>3, <2>2, <2>3, <3>1
    <3> QED
      BY <1>5, <3>1, <3>2 DEF ChannelInv, Busy
  <2>16. Unmistakable(n, t) => /\ c.id = f.id /\ c.pc = "wait"
                               /\ Decided(c, f.what = "ack")
    <3>1. ASSUME Unmistakable(n, t) PROVE c.id = f.id /\ c.pc = "wait"
      BY <2>7, <2>9, <3>1 DEF Unmistakable, GivenUp
    <3>2. f.what = "ack" <=> f.id \in accepted[f.from]
      BY <1>8 DEF VInv, Truthful
    <3> QED
      BY <1>3, <2>7, <2>10, <3>1, <3>2 DEF Decided
  <2>17. ASSUME NEW m \in Nodes, NEW u \in Threads
         PROVE  Verdicts(m, u)'
    <3>1. /\ call[m][u].kind \in Awaited /\ call'[m][u] = call[m][u]
          /\ Unmistakable(m, u)' => Unmistakable(m, u)
      BY <1>1, <1>5 DEF Unmistakable, Call
    <3>2. CASE <<m, u>> = <<n, t>>
      <4>1. OnReturn(m, u)'
        BY <1>5, <2>7, <3>2 DEF OnReturn, VInv, Numbered, NumberInv
      <4>2. pending'[m][call'[m][u].kind] = p
        BY <2>3, <2>7, <3>1, <3>2
      <4>3. Unmistakable(m, u) => OnAnswer(m, u)'
        <5> SUFFICES ASSUME Unmistakable(m, u) PROVE OnAnswer(m, u)'
          OBVIOUS
        <5>1. c.id = f.id /\ c.pc = "wait" /\ Decided(c, f.what = "ack")
          BY <2>16, <3>2
        <5>2. (f.what = "ack") /\ c.kind = "tm" => lastTm'[n] = c.id
          BY <2>5, <2>7, <5>1
        <5>3. pending'[n][call'[n][t].kind].ok <=> f.what = "ack"
          BY <2>2, <3>2, <4>2
        <5>4. Decided(call[n][t], pending[n][call[n][t].kind].ok)'
          BY <1>5, <1>6, <5>1, <5>3 DEF Decided
        <5>5. call'[n][t] = c
          BY <1>5
        <5> QED
          BY <3>2, <5>1, <5>2, <5>3, <5>4, <5>5 DEF OnAnswer
      <4> QED
        BY <3>1, <4>1, <4>3 DEF Verdicts
    <3>3. CASE <<m, u>> # <<n, t>>
      <4>1. ASSUME Busy(m, u)
            PROVE  /\ <<m, call[m][u].kind>> # <<n, f.kind>>
                   /\ pending'[m][call[m][u].kind] = pending[m][call[m][u].kind]
        BY <2>3, <2>8, <3>1, <3>3, <4>1 DEF Owns
      <4>2. OnAnswer(m, u) => OnAnswer(m, u)'
        BY <1>5, <1>6, <2>4, <3>1, <4>1 DEF OnAnswer, Decided, Busy
      <4>3. call[m][u].kind = "tm" /\ call[m][u].outcome = "ok" /\ call[m][u].id = asked[m]
               /\ m = n => f.kind # "tm"
        <5> SUFFICES ASSUME call[m][u].id = asked[m], m = n, f.kind = "tm"
                     PROVE  FALSE
          OBVIOUS
        <5>1. c.id = asked[n] /\ c.id # 0
          BY <2>7 DEF VInv, Numbered, NumberInv
        <5> QED
          BY <3>3, <5>1 DEF VInv, Numbered
      <4>4. OnReturn(m, u) => OnReturn(m, u)'
        BY <1>5, <1>6, <2>4, <3>1, <4>3 DEF OnReturn, Decided
      <4> QED
        BY <3>1, <4>2, <4>4 DEF VInv, Verdicts
    <3> QED
      BY <3>2, <3>3
  <2> QED
    BY <2>11, <2>12, <2>14, <2>15, <2>17 DEF VInv
<1> QED
  BY <1>9, <1>10

(* A request is answered, and its answer is the first and only one.        *)
LEMMA VerdictServe ==
  ASSUME TypeOK, TypeOK', VInv, NEW n \in Nodes, NEW result \in BOOLEAN, Serve(n, result)
  PROVE  VInv'
<1>1. \A m \in Nodes, u \in Threads : call[m][u] \in Call
  BY DEF TypeOK
<1>2. PICK f \in Frame : f = rx[n].frame /\ f.what = "req" /\ f.kind \in Awaited /\ f.from \in Nodes
  <2>1. rx[n].frame \in Frame /\ rx[n].frame.what = "req"
    BY DEF Serve, TypeOK
  <2> QED
    BY <2>1 DEF Frame, Kinds
<1>3. PICK ok \in BOOLEAN : ok <=> rx[n].handler /\ result
  OBVIOUS
<1> DEFINE r == [f EXCEPT !.what = IF ok THEN "ack" ELSE "nack", !.from = n, !.to = f.from]
<1>4. PICK a \in Frame : a = r
  BY <1>2 DEF Frame, Address
<1>5. /\ a.what = (IF ok THEN "ack" ELSE "nack") /\ a.from = n /\ a.to = f.from
      /\ a.kind = f.kind /\ a.channel = f.channel /\ a.id = f.id
  <2>1. f \in [kind : Kinds, what : {"req", "ack", "nack", "cast"}, from : Nodes,
               to : Address, channel : Channels, id : Ids \cup {0}]
    BY DEF Frame
  <2> QED
    BY <1>4, <2>1
<1>6. /\ Transmit(a)
      /\ accepted' = IF ok THEN [accepted EXCEPT ![n] = @ \cup {f.id}] ELSE accepted
      /\ rx' = [rx EXCEPT ![n] = Idle]
      /\ UNCHANGED <<pending, lastTm, call, count, overdue, asked>>
  BY <1>2, <1>3, <1>4 DEF Serve, nodeVars
<1> HIDE DEF r
<1>7. \A m \in Nodes : accepted'[m] = IF m = n /\ ok THEN accepted[m] \cup {f.id} ELSE accepted[m]
  BY <1>6 DEF TypeOK
<1>8. ASSUME NEW m \in Nodes
      PROVE  /\ Coming(m)' = IF m = n THEN Coming(m) ELSE Coming(m) \cup {a}
             /\ Once(m) /\ (\A g \in Coming(m) : ~Same(m, g, a)) => Once(m)'
  BY <1>5, <1>6, TransmitComing
<1>9. ASSUME NEW m \in Nodes
      PROVE  /\ Reqs(m)' = Reqs(m)
             /\ Served(m)' = IF m = n THEN {} ELSE Served(m)
             /\ Open(m)' \subseteq Open(m)
             /\ Ans(m)' \subseteq Ans(m) \cup {a}
             /\ a \in Ans(m)' => m = f.from \/ a \in Ans(m)
  <2>1. Reqs(m)' = Reqs(m)
    BY <1>5, <1>8 DEF Reqs, ReqFor
  <2>2. Served(m)' = IF m = n THEN {} ELSE Served(m)
    BY <1>6 DEF Served, Idle, TypeOK
  <2>3. Ans(m)' \subseteq Ans(m) \cup {a}
    BY <1>8 DEF Ans, AnsTo
  <2>4. a \in Ans(m)' => m = f.from \/ a \in Ans(m)
    BY <1>2, <1>5, <1>8, ProtocolAssumption DEF Ans, AnsTo
  <2> QED
    BY <2>1, <2>2, <2>3, <2>4 DEF Open
<1>10. f \in Served(n) /\ f \in Open(n)
  BY <1>2, NoFrameIsNone DEF Served, Open
<1>11. \A g \in Open(n)' : g.id # f.id
  BY <1>9, <1>10 DEF Open, VInv, Unique, ServedOnce
<1>12. \A m \in Nodes : \A g \in Ans(m) : g.from = n => g.id # f.id
  BY <1>10 DEF VInv, Unique
<1>13. f.id \notin accepted[n]
  BY <1>10 DEF VInv, Truthful
<1>14. Unique'
  <2>1. ASSUME NEW m \in Nodes PROVE Once(m)' /\ ServedOnce(m)'
    <3>1. \A g \in Coming(m) : ~Same(m, g, a)
      BY <1>5, <1>12 DEF Same, Ans, ReqFor
    <3>2. Once(m)'
      BY <1>8, <3>1 DEF VInv, Unique
    <3>3. ServedOnce(m)'
      BY <1>9 DEF VInv, Unique, ServedOnce
    <3> QED
      BY <3>2, <3>3
  <2>2. ASSUME NEW m \in Nodes, NEW k \in Nodes, NEW g \in Open(m)', NEW h \in Ans(k)',
               h.from = m
        PROVE  g.id # h.id
    <3>1. CASE h \in Ans(k)
      BY <1>9, <2>2, <3>1 DEF VInv, Unique
    <3>2. CASE h = a
      BY <1>5, <1>11, <2>2, <3>2
    <3> QED
      BY <1>9, <3>1, <3>2
  <2> QED
    BY <2>1, <2>2 DEF Unique
<1>15. Truthful'
  <2>1. ASSUME NEW m \in Nodes, NEW g \in Open(m)'
        PROVE  g.id \notin accepted'[m]
    <3>1. g \in Open(m) /\ g.id \notin accepted[m]
      BY <1>9 DEF VInv, Truthful
    <3>2. m = n => g.id # f.id
      BY <1>11
    <3> QED
      BY <1>7, <3>1, <3>2
  <2>2. ASSUME NEW m \in Nodes, NEW g \in Ans(m)'
        PROVE  g.what = "ack" <=> g.id \in accepted'[g.from]
    <3>1. CASE g \in Ans(m)
      <4>1. g.from \in Nodes
        BY <3>1, ComingType DEF Frame
      <4>2. g.id \in accepted'[g.from] <=> g.id \in accepted[g.from]
        BY <1>7, <1>12, <3>1, <4>1
      <4> QED
        BY <3>1, <4>2 DEF VInv, Truthful
    <3>2. CASE g = a
      BY <1>5, <1>7, <1>13, <3>2
    <3> QED
      BY <1>9, <3>1, <3>2
  <2> QED
    BY <2>1, <2>2 DEF Truthful
<1>16. ASSUME NEW i \in Ids \cup {0}, Fresh(i)
       PROVE  Fresh(i)'
  <2>1. i # f.id
    BY <1>10, <1>16 DEF Fresh
  <2>2. ASSUME NEW m \in Nodes, NEW g \in Open(m)' \cup Ans(m)'
        PROVE  g.id # i
    <3>1. g \in Open(m) \cup Ans(m) \/ g.id = f.id
      BY <1>5, <1>9
    <3> QED
      BY <1>16, <2>1, <3>1 DEF Fresh
  <2>3. \A m \in Nodes : i \notin accepted'[m]
    BY <1>7, <1>16, <2>1 DEF Fresh
  <2> QED
    BY <2>2, <2>3 DEF Fresh
<1>17. Numbered'
  <2>1. ASSUME NEW m \in Nodes, NEW u \in Threads PROVE NumberInv(m, u)'
    <3>1. NumberInv(m, u) /\ call[m][u].id \in Ids \cup {0}
      BY <1>1 DEF VInv, Numbered, Call
    <3> QED
      BY <1>6, <1>16, <3>1 DEF NumberInv, Busy
  <2> QED
    BY <1>6, <1>16, <2>1 DEF VInv, Numbered
<1>18. \A m, k \in Nodes, g \in Frame : Accounted(m, k, g) => Accounted(m, k, g)'
  BY <1>6 DEF Accounted, GivenUp, Awaits
<1>19. AccountInv'
  <2>1. ASSUME NEW m \in Nodes, NEW g \in Open(m)'
        PROVE  Accounted(g.from, m, g)'
    <3>1. g \in Open(m) /\ g \in Frame /\ g.from \in Nodes
      BY <1>9, ComingType DEF Frame
    <3> DEFINE k == g.from
    <3>2. k \in Nodes /\ Accounted(k, m, g)
      BY <3>1 DEF VInv, AccountInv
    <3> HIDE DEF k
    <3>3. Accounted(k, m, g)'
      BY <1>18, <3>1, <3>2
    <3> QED
      BY <3>3 DEF k
  <2>2. ASSUME NEW m \in Nodes, NEW g \in Ans(m)'
        PROVE  Accounted(m, g.from, g)'
    <3>1. CASE g \in Ans(m)
      <4>1. g \in Frame /\ g.from \in Nodes
        BY <3>1, ComingType DEF Frame
      <4> QED
        BY <1>18, <3>1, <4>1 DEF VInv, AccountInv
    <3>2. CASE g = a /\ g \notin Ans(m)
      <4>1. m = f.from
        BY <1>9, <2>2, <3>2
      <4>2. Accounted(m, n, f)
        BY <1>10, <4>1 DEF VInv, AccountInv
      <4>3. Accounted(m, n, f)'
        BY <1>18, <4>2
      <4>4. Accounted(m, n, g)'
        BY <1>5, <3>2, <4>3 DEF Accounted, GivenUp, Awaits
      <4> QED
        BY <1>5, <3>2, <4>4
    <3> QED
      BY <1>9, <3>1, <3>2
  <2> QED
    BY <2>1, <2>2 DEF AccountInv
<1>20. \A m \in Nodes, i \in Ids \cup {0} :
          (\A g \in Open(m) : g.id # i) => (i \in accepted'[m] <=> i \in accepted[m])
  BY <1>7, <1>10
<1>21. ASSUME NEW m \in Nodes, NEW u \in Threads
       PROVE  ChannelInv(m, u)' /\ Verdicts(m, u)'
  <2>1. ChannelInv(m, u)' /\ (Unmistakable(m, u)' => Unmistakable(m, u))
    BY <1>6 DEF VInv, ChannelInv, Busy, Unmistakable
  <2>2. call[m][u].id \in Ids \cup {0}
    BY <1>1 DEF Call
  <2>3. OnReturn(m, u) => OnReturn(m, u)'
    BY <1>6, <1>9, <1>20, <2>2 DEF OnReturn, Decided
  <2>4. OnAnswer(m, u) => OnAnswer(m, u)'
    BY <1>6, <1>9, <1>20, <2>2 DEF OnAnswer, Decided, Busy
  <2> QED
    BY <2>1, <2>3, <2>4 DEF VInv, Verdicts
<1> QED
  BY <1>14, <1>15, <1>17, <1>19, <1>21 DEF VInv

LEMMA VerdictStep ==
  ASSUME TypeOK, TypeOK', IInv, VInv, [Next]_vars
  PROVE  VInv'
<1> USE ProtocolAssumption
<1>1. ASSUME UNCHANGED <<pending, lastTm, call, accepted, overdue, asked, rx, count>>,
             NEW m \in Nodes, inbox[m] # <<>>, inbox' = [inbox EXCEPT ![m] = Tail(@)]
      PROVE  VInv'
  <2>1. \A n \in Nodes : Coming(n)' \subseteq Coming(n) /\ Once(n)'
    BY <1>1, TailComing DEF VInv, Unique
  <2>2. \A n \in Nodes : /\ Reqs(n)' \subseteq Reqs(n) /\ Served(n)' = Served(n)
                         /\ Open(n)' \subseteq Open(n) /\ Ans(n)' \subseteq Ans(n)
    BY <1>1, <2>1 DEF Reqs, Served, Open, Ans, ReqFor, AnsTo
  <2>3. \A n \in Nodes : ServedOnce(n)'
    BY <2>2 DEF VInv, Unique, ServedOnce
  <2>4. count' >= count
    BY <1>1 DEF TypeOK
  <2> QED
    BY <1>1, <2>1, <2>2, <2>3, <2>4, QuietStep
<1>2. ASSUME UNCHANGED <<pending, lastTm, call, accepted, overdue, asked, inbox, count>>,
             \A n \in Nodes : rx'[n].frame \in {rx[n].frame, NoFrame}
      PROVE  VInv'
  <2>1. \A n \in Nodes : /\ Reqs(n)' = Reqs(n) /\ Served(n)' \subseteq Served(n)
                         /\ Open(n)' \subseteq Open(n) /\ Ans(n)' = Ans(n) /\ Once(n)' = Once(n)
    BY <1>2 DEF Coming, Reqs, Served, Open, Ans, Once, Same, ReqFor, AnsTo
  <2>2. \A n \in Nodes : ServedOnce(n)' /\ Once(n)'
    BY <2>1 DEF VInv, Unique, ServedOnce
  <2>3. count' >= count
    BY <1>2 DEF TypeOK
  <2> QED
    BY <1>2, <2>1, <2>2, <2>3, QuietStep
<1>3. ASSUME NEW n \in Nodes, NEW t \in Threads, NEW kind \in Casts, NEW to \in Address,
             Cast(n, t, kind, to)
      PROVE  VInv'
  <2> DEFINE r == [kind |-> kind, what |-> "cast", from |-> n, to |-> to,
                   channel |-> NoChannel, id |-> 0]
  <2>1. PICK f \in Frame : f = r /\ f.what = "cast"
    <3>1. r \in Frame
      BY NoChannelType DEF Frame, Kinds
    <3> QED
      BY <3>1
  <2>2. /\ Transmit(f) /\ count' = count + 1
        /\ UNCHANGED <<pending, lastTm, call, rx, accepted, overdue, asked>>
    BY <1>3, <2>1 DEF Cast, nodeVars, threadVars
  <2>3. ASSUME NEW m \in Nodes
        PROVE  Coming(m)' \subseteq Coming(m) \cup {f} /\ Once(m)'
    <3>1. \A g \in Coming(m) : ~Same(m, g, f)
      BY <2>1 DEF Same, ReqFor, AnsTo
    <3> QED
      BY <2>2, <3>1, TransmitComing DEF VInv, Unique
  <2>4. \A m \in Nodes : /\ Reqs(m)' \subseteq Reqs(m) /\ Served(m)' = Served(m)
                         /\ Open(m)' \subseteq Open(m) /\ Ans(m)' \subseteq Ans(m)
    BY <2>1, <2>2, <2>3 DEF Reqs, Served, Open, Ans, ReqFor, AnsTo
  <2>5. \A m \in Nodes : ServedOnce(m)'
    BY <2>4 DEF VInv, Unique, ServedOnce
  <2>6. count' >= count
    BY <2>2 DEF TypeOK
  <2> QED
    BY <2>2, <2>3, <2>4, <2>5, <2>6, QuietStep
<1>4. ASSUME NEW n \in Nodes, NEW t \in Threads, NEW kind \in Awaited, TurnAway(n, t, kind)
      PROVE  VInv'
  <2>1. ~Busy(n, t) /\ NoCall.pc = "idle" /\ NoCall.id = 0 /\ NoCall.outcome = "none"
    BY <1>4 DEF TurnAway, MayCall, NoCall
  <2>2. \A m \in Nodes, f \in Frame : ~Awaits(n, t, m, f)
    BY <2>1 DEF Awaits, Busy
  <2> QED
    BY <1>4, <2>1, <2>2, BlankTypes, VerdictEnd DEF TurnAway, Fail, busVars, historyVars
<1>5. ASSUME NEW n \in Nodes, NEW t \in Threads, SendFails(n, t)
      PROVE  VInv'
  <2>1. Busy(n, t) /\ NoCall.pc = "idle" /\ NoCall.id = 0 /\ NoCall.outcome = "none"
    BY <1>5 DEF SendFails, Busy, NoCall
  <2>2. \A m \in Nodes, f \in Frame : ~Awaits(n, t, m, f)
    BY <1>5 DEF SendFails, Awaits
  <2> QED
    BY <1>5, <2>1, <2>2, BlankTypes, VerdictEnd DEF SendFails, Fail, historyVars
<1>6. ASSUME NEW n \in Nodes, NEW t \in Threads, Wake(n, t)
      PROVE  VInv'
  <2> DEFINE p == pending[n][call[n][t].kind]
             o == IF p.ok THEN "ok" ELSE "refused"
             c == [call[n][t] EXCEPT !.pc = "idle", !.outcome = o]
  <2>1. call[n][t] \in Call
    BY DEF TypeOK
  <2>2. /\ c \in Call /\ c.pc = "idle" /\ c.outcome = o
        /\ c.id = call[n][t].id /\ c.to = call[n][t].to
        /\ c.kind = call[n][t].kind /\ c.channel = call[n][t].channel
    BY <2>1 DEF Call, Outcomes
  <2>3. call' = [call EXCEPT ![n][t] = c] /\ call'[n][t] = c
    BY <1>6 DEF Wake, Return, TypeOK
  <2>4. Busy(n, t) /\ p.done /\ UNCHANGED overdue
    BY <1>6 DEF Wake, Busy, historyVars
  <2>5. (c.outcome = "ok") <=> p.ok
    BY <2>2
  <2> HIDE DEF c, o
  <2>6. Unmistakable(n, t)' => Unmistakable(n, t)
    BY <2>2, <2>3, <2>4 DEF Unmistakable
  <2>7. Unmistakable(n, t) => /\ Decided(c, c.outcome = "ok")
                              /\ c.outcome = "ok" /\ c.kind = "tm" => lastTm[n] = c.id
    BY <2>2, <2>4, <2>5 DEF VInv, Verdicts, OnAnswer, Decided
  <2>8. \A m \in Nodes, f \in Frame : ~Awaits(n, t, m, f)
    BY <2>4 DEF Awaits
  <2>9. Clear(n, call[n][t].kind) /\ UNCHANGED <<lastTm, rx, inbox, count, accepted, asked>>
    BY <1>6 DEF Wake, busVars, historyVars
  <2> QED
    BY <2>2, <2>3, <2>4, <2>6, <2>7, <2>8, <2>9, VerdictEnd
<1>7. ASSUME NEW n \in Nodes, NEW t \in Threads, TimeOut(n, t)
      PROVE  VInv'
  <2>1. Busy(n, t) /\ NoCall.pc = "idle" /\ NoCall.id = 0 /\ NoCall.outcome = "none"
    BY <1>7 DEF TimeOut, Busy, NoCall
  <2> DEFINE late == {a \in Topic : /\ a.kind = call[n][t].kind
                                    /\ a.channel = call[n][t].channel
                                    /\ call[n][t].to \in {a.peer, Everyone}}
  <2>2. overdue'[n] = overdue[n] \cup late /\ \A m \in Nodes : overdue[m] \subseteq overdue'[m]
    BY <1>7 DEF TimeOut, TypeOK
  <2>3. ASSUME NEW m \in Nodes, NEW f \in Frame, f.kind \in Awaited, Awaits(n, t, m, f)
        PROVE  GivenUp(n, m, f)'
    <3>1. [kind |-> f.kind, channel |-> f.channel, peer |-> m] \in late
      BY <2>3 DEF Awaits, Topic, Frame
    <3> QED
      BY <2>2, <3>1 DEF GivenUp
  <2>4. UNCHANGED <<lastTm, rx, inbox, count, accepted, asked>>
    BY <1>7 DEF TimeOut, busVars
  <2> QED
    BY <1>7, <2>1, <2>2, <2>3, <2>4, BlankTypes, VerdictEnd DEF TimeOut, Fail
<1>8. ASSUME NEW n \in Nodes, NEW t \in Threads, Calls(n, t)
      PROVE  VInv'
  <2>1. CASE CallProceeds(n, t)
    BY <2>1, <1>5, <1>6, <1>7, VerdictSend DEF CallProceeds
  <2>2. CASE \E kind \in Casts, to \in Address : Cast(n, t, kind, to)
    BY <2>2, <1>3
  <2>3. CASE \E kind \in Awaited, to \in Address, channel \in Channels :
                Begin(n, t, kind, to, channel)
    BY <2>3, VerdictBegin
  <2>4. CASE \E kind \in Awaited : TurnAway(n, t, kind)
    BY <2>4, <1>4
  <2>5. \A target \in Targets[n] : target[1] \in Address /\ target[2] \in Channels
    OBVIOUS
  <2> QED
    BY <1>8, <2>1, <2>2, <2>3, <2>4, <2>5 DEF Calls, Address
<1>9. ASSUME NEW n \in Nodes, Receives(n)
      PROVE  VInv'
  <2>1. CASE Reject(n)
    BY <2>1, <1>1 DEF Reject, Take, threadVars, historyVars
  <2>2. CASE ServeCast(n)
    BY <2>2, <1>2 DEF ServeCast, nodeVars, busVars, historyVars, TypeOK, Idle
  <2> QED
    BY <1>9, <2>1, <2>2, VerdictHandle, VerdictAnswer, VerdictServe DEF Receives
<1>10. ASSUME NEW n \in Nodes, NEW kind \in Kinds, SetHandler(n, kind)
       PROVE  VInv'
  BY <1>10, <1>2 DEF SetHandler, threadVars, busVars, historyVars
<1>11. ASSUME NEW n \in Nodes, Lose(n)
       PROVE  VInv'
  BY <1>11, <1>1 DEF Lose, nodeVars, threadVars, historyVars
<1>12. CASE UNCHANGED vars
  BY <1>12, <1>2 DEF vars, nodeVars, threadVars, busVars, historyVars
<1> QED
  BY <1>8, <1>9, <1>10, <1>11, <1>12 DEF Next

LEMMA InitVerdicts == Init => VInv
<1> SUFFICES ASSUME Init PROVE VInv
  OBVIOUS
<1>1. \A n \in Nodes, t \in Threads : call[n][t] = NoCall /\ ~Busy(n, t)
  BY DEF Init, Busy, NoCall
<1>2. \A n \in Nodes : DOMAIN inbox[n] = {}
  <2>1. DOMAIN <<>> = {}
    OBVIOUS
  <2> QED
    BY <2>1 DEF Init
<1>3. \A n \in Nodes : Reqs(n) = {} /\ Served(n) = {} /\ Open(n) = {} /\ Ans(n) = {}
  BY <1>2 DEF Init, Idle, Coming, Reqs, Served, Open, Ans
<1>4. \A i \in Ids \cup {0} : Fresh(i)
  BY <1>3 DEF Init, Fresh
<1>5. Unique /\ Truthful /\ AccountInv
  BY <1>2, <1>3 DEF Unique, Once, ServedOnce, Truthful, AccountInv
<1>6. Numbered
  BY <1>1, <1>4 DEF Init, Numbered, NumberInv, NoCall
<1>7. \A n \in Nodes, t \in Threads : ChannelInv(n, t) /\ Verdicts(n, t)
  BY <1>1 DEF ChannelInv, Verdicts, OnAnswer, OnReturn, NoCall
<1> QED
  BY <1>5, <1>6, <1>7 DEF VInv

LEMMA VerdictsHold == Spec => []VInv
<1> QED
  BY InitVerdicts, VerdictStep, TypeCorrect, Owners, PTL DEF Spec

(* sendTelecommand() and requestTelemetry() return what the peer's handler *)
(* said to this very request, unless the answer to an earlier request that *)
(* has timed out is taken for theirs.                                      *)
THEOREM VerdictIsTrue == Spec => []VerdictIsPeers
<1>1. VInv => VerdictIsPeers
  BY DEF VInv, Verdicts, OnReturn, Decided, VerdictIsPeers
<1> QED
  BY VerdictsHold, <1>1, PTL

(* With the same proviso, the telemetry that is cached after a successful  *)
(* request is the telemetry that answered it, until another one is made.   *)
THEOREM TelemetryOfCall == Spec => []TelemetryIsOwn
<1>1. VInv => TelemetryIsOwn
  BY DEF VInv, Verdicts, OnReturn, TelemetryIsOwn, getLastTelemetry
<1> QED
  BY VerdictsHold, <1>1, PTL
=============================================================================
