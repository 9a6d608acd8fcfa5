---------------------- MODULE SetBlockResponderProofs ----------------------
(***************************************************************************)
(* Proofs about SetBlockResponder, for any number of peers, receive        *)
(* threads and blocks.  The safety properties need the frames of one peer  *)
(* to be handled one at a time: the code unlocks the mutex around the      *)
(* handler and identifies the session by the peer alone when it comes      *)
(* back.  A peer that is heard on one interface only is such a peer.       *)
(***************************************************************************)
EXTENDS SetBlockResponder, TLAPS

(* No two threads are inside onFrame() for the same peer.                  *)
TakesTurns ==
    \A t, u \in Threads :
        rx[t].pc # "idle" /\ rx[u].pc # "idle" /\ rx[t].peer = rx[u].peer => t = u

SingleHomed ==
    \A p \in Clients : \A t, u \in Threads : p \in Hears[t] /\ p \in Hears[u] => t = u

(* What a thread inside onFrame() may rely on when it takes the lock again.*)
ThreadInv(t) ==
    LET p == rx[t].peer
    IN  /\ rx[t].pc \in Inside => sessions[p].exists /\ t \notin stale
        /\ rx[t].pc = "handler" => taken[p] = 0 /\ ~sessions[p].done
        /\ rx[t].pc = "record" =>
              ~sessions[p].done /\ taken[p] = IF rx[t].done THEN 1 ELSE 0
        /\ rx[t].pc = "reply" /\ rx[t].out.done => taken[p] = 1

(* A payload that was disposed of is one whose session is done, or about   *)
(* to be marked so by the thread that ran the handler.                     *)
PeerInv(p) ==
    /\ taken[p] \in {0, 1}
    /\ sessions[p].accepted => sessions[p].exists
    /\ sessions[p].done => taken[p] = 1
    /\ taken[p] = 1 /\ ~sessions[p].done
          => \E t \in Threads : rx[t].pc = "record" /\ rx[t].peer = p

IInv ==
    /\ ServeTypeOK
    /\ \A t \in Threads : ThreadInv(t)
    /\ \A p \in Clients : PeerInv(p)

----------------------------------------------------------------------------
(* Type correctness, whatever the topology of the buses.                   *)

Frames == [type : {"ack", "nack", "report"}, done : BOOLEAN, bitmap : SUBSET BlockIndex]

LEMMA NoSessionType == NoSession \in Session
  BY ResponderAssumption DEF NoSession, Session, BlockIndex

LEMMA RestingType == ASSUME NEW p \in Clients PROVE Resting(p) \in Thread
  BY DEF Resting, Thread, ServePC, Inside, Ack

LEMMA ReceivedType ==
  ASSUME NEW s \in Session PROVE Received(s) \in SUBSET BlockIndex
  BY ResponderAssumption DEF Received, Session, BlockIndex

LEMMA StepType ==
  ASSUME NEW r \in Thread, NEW pc \in ServePC, NEW d \in BOOLEAN
  PROVE  [r EXCEPT !.pc = pc, !.done = d] \in Thread
  BY DEF Thread

LEMMA DoneType ==
  ASSUME NEW s \in Session, NEW d \in BOOLEAN
  PROVE  [s EXCEPT !.done = d] \in Session
  BY DEF Session

LEMMA FramesType ==
  /\ Ack \in Frames /\ Nack \in Frames
  /\ \A d \in BOOLEAN, b \in SUBSET BlockIndex : Report(d, b) \in Frames
  BY DEF Ack, Nack, Report, Frames

LEMMA AnswerType ==
  ASSUME ServeTypeOK, NEW t \in Threads, NEW p \in Clients, NEW f \in Frames,
         Respond(t, p, f)
  PROVE  rx' \in [Threads -> Thread]
<1>1. [Resting(p) EXCEPT !.pc = "reply", !.out = f] \in Thread
  BY RestingType DEF Resting, Thread, ServePC, Inside, Frames
<1> QED
  BY <1>1 DEF Respond, ServeTypeOK

LEMMA ReplaceType ==
  ASSUME ServeTypeOK, NEW t \in Threads, NEW p \in Clients, NEW s \in Session,
         Replace(t, p, s)
  PROVE  /\ sessions' \in [Clients -> Session]
         /\ taken' \in [Clients -> 0 .. 2]
         /\ stale' \in SUBSET Threads
  BY DEF Replace, ServeTypeOK

LEMMA TakenType ==
  ASSUME ServeTypeOK, NEW p \in Clients, Taken(p)
  PROVE  taken' \in [Clients -> 0 .. 2]
  BY DEF Taken, ServeTypeOK

(* What the first critical section of STATUS_REQUEST leaves in t's locals  *)
(* when p's session was accepted.                                          *)
Applies(p) == Complete(sessions[p]) /\ ~sessions[p].done

Looked(p, pc, d, b) ==
    [Resting(p) EXCEPT !.pc = pc, !.done = d, !.bitmap = Received(sessions[p]),
                       !.blocks = b]

Stored == [BlockIndex -> Contents \cup {Empty}]

LEMMA StatusLocals ==
  ASSUME ServeTypeOK, NEW t \in Threads, NEW p \in Clients, OnStatusRequest(t, p),
         sessions[p].accepted
  PROVE  /\ ~Applies(p) => \E d \in BOOLEAN, b \in Stored :
                               rx' = [rx EXCEPT ![t] = Looked(p, "report", d, b)]
         /\ Applies(p) /\ handler => \E d \in BOOLEAN, b \in Stored :
                               rx' = [rx EXCEPT ![t] = Looked(p, "handler", d, b)]
         /\ Applies(p) /\ ~handler => \E b \in Stored :
                               rx' = [rx EXCEPT ![t] = Looked(p, "record", TRUE, b)]
<1> USE DEF ServeTypeOK, OnStatusRequest, Session, Inside, Resting, Applies, Looked, Stored
<1>1. CASE ~Applies(p)
  BY <1>1
<1>2. CASE Applies(p) /\ handler
  BY <1>2
<1>3. CASE Applies(p) /\ ~handler
  BY <1>3
<1> HIDE DEF Applies
<1> QED
  BY <1>1, <1>2, <1>3, Zenon

LEMMA StatusLooked ==
  ASSUME ServeTypeOK, NEW t \in Threads, NEW p \in Clients, OnStatusRequest(t, p),
         sessions[p].accepted
  PROVE  \E pc \in Inside, d \in BOOLEAN, b \in Stored :
            rx' = [rx EXCEPT ![t] = Looked(p, pc, d, b)]
<1> USE DEF Inside
<1>1. CASE ~Applies(p)
  BY <1>1, StatusLocals
<1>2. CASE Applies(p) /\ handler
  BY <1>2, StatusLocals
<1>3. CASE Applies(p) /\ ~handler
  <2>1. PICK b \in Stored : rx' = [rx EXCEPT ![t] = Looked(p, "record", TRUE, b)]
    BY <1>3, StatusLocals
  <2> WITNESS "record" \in Inside, TRUE \in BOOLEAN, b \in Stored
  <2> QED
    BY <2>1
<1> QED
  BY <1>1, <1>2, <1>3

LEMMA LookedFacts ==
  ASSUME NEW p \in Clients, NEW pc, NEW d, NEW b
  PROVE  /\ Looked(p, pc, d, b).pc = pc
         /\ Looked(p, pc, d, b).peer = p
         /\ Looked(p, pc, d, b).done = d
  BY DEF Looked, Resting

LEMMA LookedType ==
  ASSUME ServeTypeOK, NEW p \in Clients, NEW pc \in Inside, NEW d \in BOOLEAN, NEW b \in Stored
  PROVE  Looked(p, pc, d, b) \in Thread
  BY RestingType, ReceivedType DEF ServeTypeOK, Looked, Resting, Thread, ServePC, Inside, Stored

LEMMA TypeInit == ServeInit => ServeTypeOK
<1> SUFFICES ASSUME ServeInit PROVE ServeTypeOK
  OBVIOUS
<1>1. PICK p \in Clients : rx = [t \in Threads |-> Resting(p)]
  BY DEF ServeInit
<1>2. rx \in [Threads -> Thread]
  BY <1>1, RestingType
<1>3. sessions \in [Clients -> Session]
  BY NoSessionType DEF ServeInit
<1>4. handler \in BOOLEAN /\ stale \in SUBSET Threads
  BY DEF ServeInit
<1>5. taken \in [Clients -> 0 .. 2]
  BY DEF ServeInit
<1> QED
  BY <1>2, <1>3, <1>4, <1>5 DEF ServeTypeOK

LEMMA TypeNext == ServeTypeOK /\ [ServeNext]_serveVars => ServeTypeOK'
<1> SUFFICES ASSUME ServeTypeOK, [ServeNext]_serveVars PROVE ServeTypeOK'
  OBVIOUS
<1> USE DEF ServeTypeOK
<1>1. ASSUME NEW h \in BOOLEAN, SetHandler(h) PROVE ServeTypeOK'
  BY <1>1 DEF SetHandler
<1>2. ASSUME NEW t \in Threads, NEW p \in Clients, Frame(t, p) PROVE ServeTypeOK'
  <2>1. ASSUME NEW low6 \in BlockIndex, NEW e \in BOOLEAN, OnRequest(t, p, low6, e)
        PROVE  ServeTypeOK'
    <3>1. [NoSession EXCEPT !.exists = TRUE, !.numBlocks = low6 + 1,
                            !.accepted = e] \in Session
      <4>1. low6 + 1 \in 1 .. Capacity
        BY ResponderAssumption DEF BlockIndex
      <4>2. ASSUME NEW a \in BOOLEAN, NEW n \in 1 .. Capacity
            PROVE  [NoSession EXCEPT !.exists = TRUE, !.numBlocks = n, !.accepted = a]
                     \in Session
        BY NoSessionType DEF NoSession, Session
      <4> QED
        BY <4>1, <4>2
    <3>2. (IF e THEN Ack ELSE Nack) \in Frames
      BY FramesType
    <3> QED
      BY <2>1, <3>1, <3>2, AnswerType, ReplaceType DEF OnRequest
  <2>2. ASSUME NEW q \in BlockIndex, NEW d \in Contents \cup {Empty}, OnTransfer(t, p, q, d)
        PROVE  ServeTypeOK'
    <3>1. rx' \in [Threads -> Thread]
      BY <2>2, FramesType, AnswerType DEF OnTransfer
    <3>2. sessions' \in [Clients -> Session]
      <4>1. [sessions[p] EXCEPT !.blocks = [@ EXCEPT ![q] = d]] \in Session
        BY DEF Session
      <4>2. \/ sessions' = sessions
            \/ sessions' = [sessions EXCEPT ![p] =
                              [sessions[p] EXCEPT !.blocks = [@ EXCEPT ![q] = d]]]
        BY <2>2 DEF OnTransfer
      <4> QED
        BY <4>1, <4>2
    <3> QED
      BY <2>2, <3>1, <3>2 DEF OnTransfer
  <2>3. CASE OnStatusRequest(t, p)
    <3> DEFINE s == sessions[p]
               apply == Complete(s) /\ ~s.done
    <3>1. rx' \in [Threads -> Thread]
      <4>1. CASE ~s.accepted
        BY <2>3, <4>1, FramesType, AnswerType DEF OnStatusRequest
      <4>2. CASE s.accepted
        <5>1. PICK pc \in Inside, d \in BOOLEAN, b \in Stored :
                rx' = [rx EXCEPT ![t] = Looked(p, pc, d, b)]
          BY <2>3, <4>2, StatusLooked
        <5> QED
          BY <5>1, LookedType
      <4> QED
        BY <4>1, <4>2
    <3>2. taken' \in [Clients -> 0 .. 2]
      BY <2>3, TakenType DEF OnStatusRequest
    <3> QED
      BY <2>3, <3>1, <3>2 DEF OnStatusRequest
  <2>4. CASE OnAbort(t, p)
    BY <2>4, FramesType, AnswerType, ReplaceType, NoSessionType DEF OnAbort
  <2> QED
    BY <1>2, <2>1, <2>2, <2>3, <2>4 DEF Frame
<1>3. ASSUME NEW t \in Threads, ThreadStep(t) PROVE ServeTypeOK'
  <2>1. ASSUME NEW r \in BOOLEAN, RunHandler(t, r) PROVE ServeTypeOK'
    <3>1. rx' \in [Threads -> Thread]
      <4>1. rx' = [rx EXCEPT ![t] = [rx[t] EXCEPT !.pc = "record", !.done = r]]
        BY <2>1 DEF RunHandler
      <4> QED
        BY <4>1, StepType DEF ServePC, Inside
    <3>2. rx[t].peer \in Clients
      BY DEF Thread
    <3>3. taken' \in [Clients -> 0 .. 2]
      BY <2>1, <3>2, TakenType DEF RunHandler
    <3> QED
      BY <2>1, <3>1, <3>3 DEF RunHandler
  <2>2. CASE RecordDone(t)
    <3>1. rx' \in [Threads -> Thread]
      <4>1. rx' = [rx EXCEPT ![t] = [rx[t] EXCEPT !.pc = "report", !.done = rx[t].done]]
        BY <2>2 DEF RecordDone, Thread
      <4> QED
        <5>1. rx[t].done \in BOOLEAN /\ "report" \in ServePC
          BY DEF ServePC, Inside, Thread
        <5> QED
          BY <4>1, <5>1, StepType
    <3>2. sessions' \in [Clients -> Session]
      <4>1. PICK d \in BOOLEAN :
              sessions' = [sessions EXCEPT ![rx[t].peer] = [sessions[rx[t].peer] EXCEPT !.done = d]]
        <5>1. rx[t].done \in BOOLEAN /\ sessions[rx[t].peer].done \in BOOLEAN
          BY DEF Thread, Session
        <5>2. CASE sessions[rx[t].peer].exists
          BY <2>2, <5>1, <5>2 DEF RecordDone
        <5>3. CASE ~sessions[rx[t].peer].exists
          BY <2>2, <5>1, <5>3 DEF RecordDone
        <5> QED
          BY <5>2, <5>3
      <4> QED
        BY <4>1, DoneType DEF Thread
    <3> QED
      BY <2>2, <3>1, <3>2 DEF RecordDone
  <2>3. CASE BuildReport(t)
    <3> DEFINE s == sessions[rx[t].peer]
    <3>1. rx[t].peer \in Clients /\ rx[t].done \in BOOLEAN /\ rx[t].bitmap \in SUBSET BlockIndex
      BY DEF Thread
    <3>2. s.done \in BOOLEAN /\ Received(s) \in SUBSET BlockIndex
      BY <3>1, ReceivedType DEF Session
    <3>3. (IF s.exists THEN Report(s.done, Received(s))
                       ELSE Report(rx[t].done, rx[t].bitmap)) \in Frames
      BY <3>1, <3>2, FramesType
    <3> QED
      BY <2>3, <3>1, <3>3, AnswerType DEF BuildReport
  <2>4. CASE Reply(t)
    BY <2>4, RestingType DEF Reply, Thread
  <2> QED
    BY <1>3, <2>1, <2>2, <2>3, <2>4 DEF ThreadStep
<1>4. CASE UNCHANGED serveVars
  BY <1>4 DEF serveVars
<1> QED
  BY <1>1, <1>2, <1>3, <1>4 DEF ServeNext

(* Sessions, and the locals of every receive thread, keep their types on   *)
(* every topology; in particular no session expects more than Capacity     *)
(* blocks.                                                                 *)
THEOREM TypeCorrect == ServeSpec => []ServeTypeOK
  BY TypeInit, TypeNext, PTL DEF ServeSpec

----------------------------------------------------------------------------
(* Safety, when the frames of a peer are handled one at a time.            *)

LEMMA SafeInit ==
  ASSUME ServeInit
  PROVE  (\A t \in Threads : ThreadInv(t)) /\ (\A p \in Clients : PeerInv(p))
<1>1. \A t \in Threads : rx[t].pc = "idle"
  BY DEF ServeInit, Resting
<1>2. \A t \in Threads : ThreadInv(t)
  BY <1>1 DEF ThreadInv, Inside
<1>3. \A p \in Clients : PeerInv(p)
  <2>1. ASSUME NEW p \in Clients 
        PROVE ~sessions[p].done /\ ~sessions[p].accepted /\ taken[p] = 0
    BY <2>1 DEF ServeInit, NoSession
  <2> SUFFICES ASSUME NEW p \in Clients PROVE PeerInv(p)
    OBVIOUS
  <2>2. taken[p] = 0 /\ ~sessions[p].done /\ ~sessions[p].accepted
    BY <2>1
  <2>3. ~(taken[p] = 1)
    BY <2>2
  <2> QED
    BY <2>2, <2>3 DEF PeerInv
<1> QED
  BY <1>2, <1>3

(* A step of thread t for peer p: it touches nothing that belongs to other *)
(* threads or peers, but for the staleness of threads inside p's session.  *)
Local(t, p) ==
    /\ \/ rx[t].pc # "idle" /\ rx[t].peer = p
       \/ rx[t].pc = "idle" /\ rx'[t].pc # "idle" /\ rx'[t].peer = p
    /\ \A u \in Threads \ {t} :
          /\ rx'[u] = rx[u]
          /\ u \in stale' => u \in stale \/ (rx[u].peer = p /\ rx[u].pc \in Inside)
    /\ \A q \in Clients \ {p} : sessions'[q] = sessions[q] /\ taken'[q] = taken[q]

(* Such a step leaves the invariants of the others alone.                  *)
LEMMA OthersKept ==
  ASSUME TakesTurns, TakesTurns', IInv, NEW t \in Threads, NEW p \in Clients,
         Local(t, p)
  PROVE  /\ \A u \in Threads \ {t} : ThreadInv(u)'
         /\ \A q \in Clients \ {p} : PeerInv(q)'
<1> USE DEF Local
<1>1. ASSUME NEW u \in Threads \ {t}, rx[u].pc # "idle"
      PROVE  rx[u].peer \in Clients \ {p}
  <2>1. rx[u].peer \in Clients /\ rx'[u] = rx[u]
    BY DEF IInv, ServeTypeOK, Thread
  <2>2. CASE rx[t].pc # "idle" /\ rx[t].peer = p
    BY <1>1, <2>1, <2>2 DEF TakesTurns
  <2>3. CASE rx'[t].pc # "idle" /\ rx'[t].peer = p
    BY <1>1, <2>1, <2>3 DEF TakesTurns
  <2> QED
    BY <2>2, <2>3
<1>2. ASSUME NEW u \in Threads \ {t} PROVE ThreadInv(u)'
  <2>1. CASE rx[u].pc = "idle"
    BY <2>1 DEF ThreadInv, Inside
  <2>2. CASE rx[u].pc # "idle"
    <3>1. rx[u].peer \in Clients \ {p} /\ ThreadInv(u)
      BY <1>1, <2>2 DEF IInv
    <3>2. rx[u].pc \in Inside => u \notin stale'
      BY <3>1 DEF ThreadInv
    <3>3. /\ sessions'[rx[u].peer] = sessions[rx[u].peer]
          /\ taken'[rx[u].peer] = taken[rx[u].peer]
          /\ rx'[u] = rx[u]
      BY <3>1
    <3> QED
      BY <3>1, <3>2, <3>3 DEF ThreadInv
  <2> QED
    BY <2>1, <2>2
<1>3. ASSUME NEW q \in Clients \ {p} PROVE PeerInv(q)'
  <2>1. PeerInv(q) /\ sessions'[q] = sessions[q] /\ taken'[q] = taken[q]
    BY DEF IInv
  <2>2. ASSUME NEW u \in Threads, rx[u].pc = "record", rx[u].peer = q
        PROVE  rx'[u].pc = "record" /\ rx'[u].peer = q
    BY <2>2
  <2> QED
    BY <2>1, <2>2 DEF PeerInv
<1> QED
  BY <1>2, <1>3

(* What Respond leaves in t's locals.                                      *)
LEMMA AnswerFacts ==
  ASSUME ServeTypeOK, NEW t \in Threads, NEW p \in Clients, NEW f, Respond(t, p, f)
  PROVE  rx'[t].pc = "reply" /\ rx'[t].peer = p /\ rx'[t].out = f
  BY DEF Respond, Resting, ServeTypeOK

(* A frame of p brings t into onFrame() for p and no other thread anywhere.*)
LEMMA FrameEnters ==
  ASSUME ServeTypeOK, NEW t \in Threads, NEW p \in Clients, Frame(t, p)
  PROVE  /\ Handles(t, p)
         /\ rx'[t].pc # "idle" /\ rx'[t].peer = p
         /\ \A u \in Threads \ {t} : rx'[u] = rx[u]
<1>1. Handles(t, p)
  BY DEF Frame, OnRequest, OnTransfer, OnStatusRequest, OnAbort
<1>2. CASE \E f \in Frames : Respond(t, p, f)
  BY <1>1, <1>2, AnswerFacts DEF Respond, ServeTypeOK
<1>3. CASE OnStatusRequest(t, p) /\ sessions[p].accepted
  <2>1. PICK pc \in Inside, d \in BOOLEAN, b \in Stored :
          rx' = [rx EXCEPT ![t] = Looked(p, pc, d, b)]
    BY <1>3, StatusLooked
  <2>2. rx'[t].pc = pc /\ rx'[t].peer = p
    BY <2>1, LookedFacts DEF ServeTypeOK
  <2>3. \A u \in Threads \ {t} : rx'[u] = rx[u]
    BY <2>1 DEF ServeTypeOK
  <2> QED
    BY <1>1, <2>2, <2>3 DEF Inside
<1>4. CASE OnStatusRequest(t, p) /\ ~sessions[p].accepted
  BY <1>2, <1>4, FramesType DEF OnStatusRequest
<1>5. ASSUME NEW low6 \in BlockIndex, NEW e \in BOOLEAN, OnRequest(t, p, low6, e)
      PROVE  \E f \in Frames : Respond(t, p, f)
  BY <1>5, FramesType DEF OnRequest
<1>6. ASSUME NEW q \in BlockIndex, NEW d \in Contents \cup {Empty}, OnTransfer(t, p, q, d)
      PROVE  \E f \in Frames : Respond(t, p, f)
  BY <1>6, FramesType DEF OnTransfer
<1>7. CASE OnAbort(t, p)
  BY <1>2, <1>7, FramesType DEF OnAbort
<1> QED
  BY <1>2, <1>3, <1>4, <1>5, <1>6, <1>7 DEF Frame

(* An idle thread that takes p's frame finds p's payload disposed of       *)
(* exactly when p's session is done: nobody is about to record it.         *)
LEMMA Settled ==
  ASSUME TakesTurns', IInv, NEW t \in Threads, NEW p \in Clients, Handles(t, p),
         rx'[t].pc # "idle", rx'[t].peer = p,
         \A u \in Threads \ {t} : rx'[u] = rx[u]
  PROVE  /\ sessions[p].done => taken[p] = 1
         /\ ~sessions[p].done => taken[p] = 0
<1>1. ASSUME NEW u \in Threads, rx[u].pc = "record" PROVE rx[u].peer # p
  <2>1. u # t
    BY <1>1 DEF Handles
  <2> QED
    BY <1>1, <2>1 DEF TakesTurns
<1> QED
  BY <1>1 DEF IInv, PeerInv

LEMMA AcksNotDone == ~Ack.done /\ ~Nack.done
  BY DEF Ack, Nack

LEMMA FrameSafe ==
  ASSUME TakesTurns', IInv, NEW t \in Threads, NEW p \in Clients, Frame(t, p)
  PROVE  Local(t, p) /\ ThreadInv(t)' /\ PeerInv(p)'
<1> USE DEF Handles
<1>1. /\ rx[t].pc = "idle" /\ rx'[t].pc # "idle" /\ rx'[t].peer = p
      /\ \A u \in Threads \ {t} : rx'[u] = rx[u]
  BY FrameEnters DEF IInv
<1>2. ServeTypeOK /\ (sessions[p].done => taken[p] = 1) /\ (~sessions[p].done => taken[p] = 0)
      /\ (sessions[p].accepted => sessions[p].exists)
  BY <1>1, FrameEnters, Settled DEF IInv, PeerInv
<1>3. ASSUME NEW low6 \in BlockIndex, NEW e \in BOOLEAN, OnRequest(t, p, low6, e)
      PROVE  Local(t, p) /\ ThreadInv(t)' /\ PeerInv(p)'
  <2>1. Local(t, p)
    BY <1>1, <1>2, <1>3 DEF OnRequest, Local, Replace, Respond, ServeTypeOK
  <2>2. /\ rx'[t].pc = "reply" /\ rx'[t].peer = p /\ ~rx'[t].out.done
    BY <1>2, <1>3, AnswerFacts, AcksNotDone DEF OnRequest
  <2>3. taken'[p] = 0 /\ ~sessions'[p].done /\ sessions'[p].exists
    BY <1>2, <1>3 DEF OnRequest, Replace, NoSession, ServeTypeOK
  <2> QED
    BY <1>1, <2>1, <2>2, <2>3 DEF ThreadInv, PeerInv, Inside
<1>4. ASSUME NEW q \in BlockIndex, NEW d \in Contents \cup {Empty}, OnTransfer(t, p, q, d)
      PROVE  Local(t, p) /\ ThreadInv(t)' /\ PeerInv(p)'
  <2>1. Local(t, p)
    <3>1. \A r \in Clients \ {p} : sessions'[r] = sessions[r] /\ taken'[r] = taken[r]
      BY <1>2, <1>4 DEF OnTransfer, ServeTypeOK
    <3>2. \A u \in Threads \ {t} : rx'[u] = rx[u]
      BY <1>2, <1>4 DEF OnTransfer, Respond, ServeTypeOK
    <3>3. stale' \subseteq stale
      BY <1>4 DEF OnTransfer
    <3> QED
      BY <1>1, <3>1, <3>2, <3>3 DEF Local
  <2>2. /\ rx'[t].pc = "reply" /\ rx'[t].peer = p /\ ~rx'[t].out.done
    BY <1>2, <1>4, AnswerFacts, AcksNotDone DEF OnTransfer
  <2>3. /\ taken'[p] = taken[p]
        /\ \A f \in {"exists", "accepted", "done"} : sessions'[p][f] = sessions[p][f]
    BY <1>2, <1>4 DEF OnTransfer, ServeTypeOK, Session
  <2> QED
    BY <1>1, <1>2, <2>1, <2>2, <2>3 DEF ThreadInv, PeerInv, Inside
<1>5. ASSUME OnStatusRequest(t, p)
      PROVE  Local(t, p) /\ ThreadInv(t)' /\ PeerInv(p)'
  <2> DEFINE s == sessions[p]
             apply == Applies(p)
  <2>1. Local(t, p)
    <3>1. \A r \in Clients \ {p} : sessions'[r] = sessions[r] /\ taken'[r] = taken[r]
      BY <1>2, <1>5 DEF OnStatusRequest, Taken, ServeTypeOK
    <3>2. \A u \in Threads \ {t} : rx'[u] = rx[u]
      BY <1>2, <1>5 DEF OnStatusRequest, Respond, ServeTypeOK
    <3>3. stale' \subseteq stale
      BY <1>5 DEF OnStatusRequest
    <3> QED
      BY <1>1, <3>1, <3>2, <3>3 DEF Local
  <2>2. CASE ~s.accepted
    <3>1. /\ rx'[t].pc = "reply" /\ rx'[t].peer = p /\ ~rx'[t].out.done
      BY <1>2, <1>5, <2>2, AnswerFacts, AcksNotDone DEF OnStatusRequest
    <3>2. taken' = taken /\ sessions' = sessions
      BY <1>5, <2>2 DEF OnStatusRequest, Applies
    <3> QED
      BY <1>1, <1>2, <2>1, <3>1, <3>2 DEF ThreadInv, PeerInv, Inside
  <2>3. CASE s.accepted /\ ~apply
    <3>1. rx'[t].pc = "report" /\ rx'[t].peer = p
      <4>1. PICK d \in BOOLEAN, b \in Stored : rx' = [rx EXCEPT ![t] = Looked(p, "report", d, b)]
        BY <1>2, <1>5, <2>3, StatusLocals
      <4> QED
        BY <1>2, <4>1, LookedFacts DEF ServeTypeOK
    <3>2. taken' = taken /\ sessions' = sessions /\ t \notin stale'
      BY <1>5, <2>3 DEF OnStatusRequest, Applies
    <3>3. s.exists
      BY <1>2, <2>3 DEF IInv
    <3> QED
      BY <1>1, <1>2, <2>1, <3>1, <3>2, <3>3 DEF ThreadInv, PeerInv, Inside
  <2>4. CASE s.accepted /\ apply /\ handler
    <3>1. rx'[t].pc = "handler" /\ rx'[t].peer = p
      <4>1. PICK d \in BOOLEAN, b \in Stored : rx' = [rx EXCEPT ![t] = Looked(p, "handler", d, b)]
        BY <1>2, <1>5, <2>4, StatusLocals
      <4> QED
        BY <1>2, <4>1, LookedFacts DEF ServeTypeOK
    <3>2. taken' = taken /\ sessions' = sessions /\ t \notin stale'
      BY <1>5, <2>4 DEF OnStatusRequest, Applies
    <3>3. s.exists
      BY <1>2, <2>4 DEF IInv
    <3> QED
      BY <1>1, <1>2, <2>1, <2>4, <3>1, <3>2, <3>3 DEF ThreadInv, PeerInv, Inside, Applies
  <2>5. CASE s.accepted /\ apply /\ ~handler
    <3>1. rx'[t].pc = "record" /\ rx'[t].peer = p /\ rx'[t].done
      <4>1. PICK b \in Stored : rx' = [rx EXCEPT ![t] = Looked(p, "record", TRUE, b)]
        BY <1>2, <1>5, <2>5, StatusLocals
      <4> QED
        BY <1>2, <4>1 DEF Looked, Resting, ServeTypeOK
    <3>2. taken'[p] = 1 /\ sessions' = sessions /\ t \notin stale'
      BY <1>2, <1>5, <2>5 DEF OnStatusRequest, Applies, Taken, ServeTypeOK
    <3>3. s.exists
      BY <1>2, <2>5 DEF IInv
    <3> QED
      BY <1>1, <1>2, <2>1, <2>5, <3>1, <3>2, <3>3 DEF ThreadInv, PeerInv, Inside, Applies
  <2> QED
    BY <2>2, <2>3, <2>4, <2>5
<1>6. ASSUME OnAbort(t, p)
      PROVE  Local(t, p) /\ ThreadInv(t)' /\ PeerInv(p)'
  <2>1. Local(t, p)
    BY <1>1, <1>2, <1>6 DEF OnAbort, Local, Replace, Respond, ServeTypeOK
  <2>2. /\ rx'[t].pc = "reply" /\ rx'[t].peer = p /\ ~rx'[t].out.done
    BY <1>2, <1>6, AnswerFacts, AcksNotDone DEF OnAbort
  <2>3. taken'[p] = 0 /\ ~sessions'[p].done /\ ~sessions'[p].accepted
    BY <1>2, <1>6 DEF OnAbort, Replace, NoSession, ServeTypeOK
  <2> QED
    BY <1>1, <2>1, <2>2, <2>3 DEF ThreadInv, PeerInv, Inside
<1> QED
  BY <1>3, <1>4, <1>5, <1>6 DEF Frame

LEMMA StepSafe ==
  ASSUME TakesTurns, IInv, NEW t \in Threads, ThreadStep(t),
         NEW p \in Clients, p = rx[t].peer
  PROVE  Local(t, p) /\ ThreadInv(t)' /\ PeerInv(p)'
<1>1. ServeTypeOK /\ ThreadInv(t) /\ PeerInv(p) /\ rx[t].pc # "idle"
  BY DEF IInv, ServeTypeOK, Thread, ThreadStep, RunHandler, RecordDone, BuildReport, Reply
<1>3. ASSUME NEW u \in Threads, u # t, rx[u].pc = "record"
      PROVE  rx[u].peer # p
  BY <1>1, <1>3 DEF TakesTurns
<1> USE <1>1 DEF PeerInv
<1>4. ASSUME NEW r \in BOOLEAN, RunHandler(t, r)
      PROVE  Local(t, p) /\ ThreadInv(t)' /\ PeerInv(p)'
  <2>1. Local(t, p)
    BY <1>4 DEF RunHandler, Local, Taken, ServeTypeOK
  <2>2. /\ rx'[t].pc = "record" /\ rx'[t].peer = p /\ rx'[t].done = r
    BY <1>4 DEF RunHandler, ServeTypeOK, Thread
  <2>3. /\ t \notin stale /\ taken[p] = 0 /\ ~sessions[p].done /\ sessions[p].exists
    BY <1>4 DEF RunHandler, ThreadInv, Inside
  <2>4. /\ sessions' = sessions /\ stale' = stale
        /\ taken'[p] = IF r THEN 1 ELSE 0
    BY <1>4, <2>3 DEF RunHandler, Taken, ServeTypeOK
  <2>5. ThreadInv(t)'
    BY <2>2, <2>3, <2>4 DEF ThreadInv, Inside
  <2>6. PeerInv(p)'
    BY <2>2, <2>3, <2>4
  <2> QED
    BY <2>1, <2>5, <2>6
<1>5. CASE RecordDone(t)
  <2>1. Local(t, p)
    BY <1>5 DEF RecordDone, Local, ServeTypeOK
  <2>2. /\ rx'[t].pc = "report" /\ rx'[t].peer = p
    BY <1>5 DEF RecordDone, ServeTypeOK, Thread
  <2>3. /\ t \notin stale /\ sessions[p].exists
        /\ taken[p] = IF rx[t].done THEN 1 ELSE 0
    BY <1>5 DEF RecordDone, ThreadInv, Inside
  <2>4. /\ stale' = stale /\ taken' = taken
        /\ sessions'[p].done = rx[t].done /\ sessions'[p].exists
    BY <1>5, <2>3 DEF RecordDone, ServeTypeOK, Session
  <2>5. ThreadInv(t)'
    BY <2>2, <2>3, <2>4 DEF ThreadInv, Inside
  <2>6. PeerInv(p)'
    BY <2>2, <2>3, <2>4
  <2> QED
    BY <2>1, <2>5, <2>6
<1>6. CASE BuildReport(t)
  <2>1. Local(t, p)
    BY <1>6 DEF BuildReport, Local, Respond, ServeTypeOK
  <2>2. sessions[p].exists
    BY <1>6 DEF BuildReport, ThreadInv, Inside
  <2>3. /\ rx'[t].pc = "reply" /\ rx'[t].peer = p
        /\ rx'[t].out = Report(sessions[p].done, Received(sessions[p]))
    BY <1>6, <2>2, AnswerFacts DEF BuildReport
  <2>4. rx'[t].out.done => sessions[p].done
    BY <2>3 DEF Report
  <2>5. taken' = taken /\ sessions' = sessions
    BY <1>6 DEF BuildReport
  <2>6. \A u \in Threads : rx[u].pc = "record" => rx[u].peer # p
    BY <1>3, <1>6 DEF BuildReport
  <2>7. ThreadInv(t)'
    BY <2>3, <2>4, <2>5 DEF ThreadInv, Inside
  <2>8. PeerInv(p)'
    BY <2>3, <2>5, <2>6
  <2> QED
    BY <2>1, <2>7, <2>8
<1>7. CASE Reply(t)
  <2>1. Local(t, p)
    BY <1>7 DEF Reply, Local, ServeTypeOK
  <2>2. rx'[t].pc = "idle"
    BY <1>7 DEF Reply, Resting, ServeTypeOK
  <2>3. taken' = taken /\ sessions' = sessions
    BY <1>7 DEF Reply
  <2>4. \A u \in Threads : rx[u].pc = "record" => rx[u].peer # p
    BY <1>3, <1>7 DEF Reply
  <2>5. ThreadInv(t)'
    BY <2>2, <2>3, <2>4 DEF ThreadInv, Inside
  <2>6. PeerInv(p)'
    BY <2>2, <2>3, <2>4
  <2> QED
    BY <2>1, <2>5, <2>6
<1> QED
  BY <1>4, <1>5, <1>6, <1>7 DEF ThreadStep

(* The invariant holds wherever the frames of a peer take turns.           *)
LEMMA TurnsInvariance == ServeSpec /\ []TakesTurns => []IInv
<1>1. ServeInit => IInv
  BY TypeInit, SafeInit DEF IInv
<1>2. IInv /\ TakesTurns /\ TakesTurns' /\ [ServeNext]_serveVars => IInv'
  <2> SUFFICES ASSUME IInv, TakesTurns, TakesTurns', [ServeNext]_serveVars PROVE IInv'
    OBVIOUS
  <2>1. ServeTypeOK'
    BY TypeNext DEF IInv
  <2>2. ASSUME NEW t \in Threads, NEW p \in Clients,
               Local(t, p), ThreadInv(t)', PeerInv(p)'
        PROVE  IInv'
    BY <2>1, <2>2, OthersKept DEF IInv
  <2>3. ASSUME NEW t \in Threads, NEW p \in Clients, Frame(t, p) PROVE IInv'
    BY <2>2, <2>3, FrameSafe
  <2>4. ASSUME NEW t \in Threads, ThreadStep(t) PROVE IInv'
    <3>1. rx[t].peer \in Clients
      BY DEF IInv, ServeTypeOK, Thread
    <3> QED
      BY <2>2, <2>4, <3>1, StepSafe
  <2>5. CASE UNCHANGED <<sessions, rx, taken, stale>>
    BY <2>1, <2>5 DEF IInv, ThreadInv, PeerInv
  <2> QED
    BY <2>3, <2>4, <2>5 DEF ServeNext, SetHandler, serveVars
<1> QED
  BY <1>1, <1>2, PTL DEF ServeSpec

(* A thread inside onFrame() handles a frame of its own interface.         *)
Heard == \A t \in Threads : rx[t].pc # "idle" => rx[t].peer \in Hears[t]

(* Peers that are heard on one interface only have their frames handled    *)
(* one at a time: there is one receive thread per interface.               *)
THEOREM SingleHomedTakesTurns == ASSUME SingleHomed PROVE ServeSpec => []TakesTurns
<1>1. ServeInit => Heard
  BY DEF ServeInit, Resting, Heard
<1>2. ServeTypeOK /\ Heard /\ [ServeNext]_serveVars => Heard'
  <2> SUFFICES ASSUME ServeTypeOK, Heard, [ServeNext]_serveVars PROVE Heard'
    OBVIOUS
  <2> USE DEF Heard
  <2>1. ASSUME NEW t \in Threads, NEW p \in Clients, Frame(t, p) PROVE Heard'
    BY <2>1, FrameEnters DEF Handles
  <2>2. ASSUME NEW t \in Threads, ThreadStep(t) PROVE Heard'
    <3>1. rx[t].pc # "idle" /\ rx[t] \in Thread
      BY <2>2 DEF ThreadStep, RunHandler, RecordDone, BuildReport, Reply, ServeTypeOK
    <3>2. rx'[t].peer = rx[t].peer /\ \A u \in Threads \ {t} : rx'[u] = rx[u]
      <4>1. CASE BuildReport(t)
        BY <4>1 DEF BuildReport, Respond, Resting, ServeTypeOK
      <4>2. CASE Reply(t)
        BY <4>2 DEF Reply, Resting, ServeTypeOK
      <4>3. CASE RecordDone(t)
        BY <3>1, <4>3 DEF RecordDone, ServeTypeOK, Thread
      <4>4. CASE \E result \in BOOLEAN : RunHandler(t, result)
        BY <3>1, <4>4 DEF RunHandler, ServeTypeOK, Thread
      <4> QED
        BY <2>2, <4>1, <4>2, <4>3, <4>4 DEF ThreadStep
    <3> QED
      BY <3>1, <3>2
  <2>3. CASE UNCHANGED rx
    BY <2>3
  <2> QED
    BY <2>1, <2>2, <2>3 DEF ServeNext, SetHandler, serveVars
<1>3. ServeTypeOK /\ Heard => TakesTurns
  BY DEF Heard, TakesTurns, SingleHomed, ServeTypeOK, Thread
<1> QED
  BY <1>1, <1>2, <1>3, TypeCorrect, PTL DEF ServeSpec

LEMMA Invariance == ASSUME SingleHomed PROVE ServeSpec => []IInv
  BY SingleHomedTakesTurns, TurnsInvariance, PTL

(* While the frames of a peer are handled one at a time: the handler       *)
(* accepts the payload of a transaction at most once, for any number of    *)
(* peers and receive threads.                                              *)
THEOREM AtMostOnce == ServeSpec /\ []TakesTurns => []TakenOnce
<1>1. IInv => TakenOnce
  BY DEF IInv, PeerInv, TakenOnce
<1> QED
  BY <1>1, TurnsInvariance, PTL

(* Then, too, a session is marked done only when its payload was accepted, *)
(* or dropped for want of a handler.                                       *)
THEOREM DoneIsTaken == ServeSpec /\ []TakesTurns => []DoneMeansTaken
<1>1. IInv => DoneMeansTaken
  BY DEF IInv, PeerInv, DoneMeansTaken
<1> QED
  BY <1>1, TurnsInvariance, PTL

(* And so is a transaction that is reported as done.                       *)
THEOREM ReportIsTaken == ServeSpec /\ []TakesTurns => []ReportMeansTaken
<1>1. IInv => ReportMeansTaken
  BY DEF IInv, ThreadInv, ReportMeansTaken
<1> QED
  BY <1>1, TurnsInvariance, PTL
============================================================================
