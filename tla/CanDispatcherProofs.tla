------------------------ MODULE CanDispatcherProofs ------------------------
(***************************************************************************)
(* Proofs about CanDispatcher, for any application threads, interfaces and *)
(* numbers of receivers and filters, and whatever the application does.    *)
(***************************************************************************)
EXTENDS CanDispatcher, SequenceTheorems, TLAPS

(* An open interface has a thread, or its last close() failed; a thread has*)
(* an object to join, and all of them have an entry.                       *)
ServedInv ==
    \A i \in Interfaces :
        /\ isOpen[i] => i \in unclosed \/ (running /\ Alive(i))
        /\ isOpen[i] => i \in Range(entries)
        /\ Alive(i) => joinable[i]
        /\ joinable[i] => i \in Range(entries)

(* Unless something was called in the middle of a stop(), one stop() at a  *)
(* time joins, after which nothing is left to join, and nobody refers to   *)
(* an entry that has moved.                                                *)
JoinInv ==
    "midStop" \notin misuse =>
        /\ stale = {}
        /\ running => ~MidStop
        /\ \A a, b \in Actors : joining[a] # 0 /\ joining[b] # 0 => a = b
        /\ \A a \in Actors, k \in DOMAIN entries :
               k < joining[a] => ~joinable[entries[k]]
        /\ ~running /\ ~MidStop => \A i \in Interfaces : ~joinable[i]

(* Only a receiver that calls stop() makes a thread of the dispatcher join.*)
HandlerInv == \A i \in Interfaces : joining[i] # 0 => "otherStop" \in misuse

(* After a stop() that no other one has met, none is under way.            *)
StopInv == misuse \subseteq {"liveAdd"} /\ stopped => ~running /\ ~MidStop

IInv == ServedInv /\ JoinInv /\ HandlerInv /\ StopInv /\ NoFault

----------------------------------------------------------------------------
(* Type correctness                                                        *)

(* The list of entries, and the list after one is added.                   *)
LEMMA EntriesIndex ==
  ASSUME NEW q \in Seq(Interfaces)
  PROVE  /\ DOMAIN q = 1 .. Len(q) /\ Len(q) \in Nat
         /\ \A k \in DOMAIN q : q[k] \in Interfaces
  BY LenProperties, ElementOfSeq

LEMMA EntriesAppend ==
  ASSUME NEW q \in Seq(Interfaces), NEW i \in Interfaces
  PROVE  /\ Append(q, i) \in Seq(Interfaces)
         /\ Len(Append(q, i)) = Len(q) + 1
         /\ Range(Append(q, i)) = Range(q) \cup {i}
         /\ IsInjective(q) /\ i \notin Range(q) => IsInjective(Append(q, i))
<1>1. /\ DOMAIN q = 1 .. Len(q) /\ Len(q) \in Nat
      /\ Append(q, i) \in Seq(Interfaces)
      /\ Len(Append(q, i)) = Len(q) + 1
      /\ DOMAIN Append(q, i) = 1 .. Len(q) + 1
      /\ \A k \in 1 .. Len(q) : Append(q, i)[k] = q[k]
      /\ Append(q, i)[Len(q) + 1] = i
  BY AppendProperties, LenProperties
<1>2. DOMAIN Append(q, i) = DOMAIN q \cup {Len(q) + 1}
  BY <1>1
<1> QED
  BY <1>1, <1>2 DEF Range, IsInjective

LEMMA TypeInit == Init => TypeOK
<1> SUFFICES ASSUME Init PROVE TypeOK
  OBVIOUS
<1>1. Ended \in Threads
  BY DispatcherAssumption DEF Ended, Threads
<1>2. entries \in Seq(Interfaces) /\ IsInjective(entries) /\ Len(entries) = 0
  BY EmptySeq DEF Init, IsInjective
<1>3. \A i \in Interfaces : ~Alive(i)
  BY DEF Init, Alive, Ended
<1>4. thread \in [Interfaces -> Threads] /\ joining \in [Actors -> 0 .. Len(entries) + 1]
  BY <1>1, <1>2 DEF Init
<1>5. /\ filters \in [Interfaces -> 0 .. MaxAdded] /\ receivers \in [Interfaces -> 0 .. MaxAdded]
      /\ isOpen \in [Interfaces -> BOOLEAN] /\ joinable \in [Interfaces -> BOOLEAN]
  BY DispatcherAssumption DEF Init
<1> QED
  BY <1>2, <1>3, <1>4, <1>5 DEF Init, TypeOK

(* The locked part of stop().                                              *)
LEMMA StopLockedType ==
  ASSUME TypeOK, NEW a \in Actors, NEW fails \in SUBSET Interfaces, StopLocked(a, fails)
  PROVE  /\ running' \in BOOLEAN
         /\ unclosed' \in SUBSET Interfaces
         /\ isOpen' \in [Interfaces -> BOOLEAN]
         /\ joining' \in [Actors -> 0 .. Len(entries) + 1]
         /\ stopped' \in BOOLEAN
<1>1. 1 \in 0 .. Len(entries) + 1
  BY EntriesIndex DEF TypeOK
<1> QED
  BY <1>1 DEF StopLocked, CloseAll, TypeOK

(* A thread goes on, in the same frame or elsewhere.                       *)
LEMMA ThreadType ==
  ASSUME TypeOK, NEW i \in Interfaces, Alive(i), NEW t \in Threads,
         thread' = [thread EXCEPT ![i] = t], ThreadUnchanged,
         fault' \in {fault, "dangling"}
  PROVE  TypeOK'
<1>1. thread' \in [Interfaces -> Threads]
  BY DEF TypeOK
<1>2. \A j \in Interfaces : Alive(j)' => Alive(j)
  BY DEF TypeOK, Alive
<1> QED
  BY <1>1, <1>2 DEF TypeOK, ThreadUnchanged, appVars, stopVars

LEMMA RunsType ==
  ASSUME TypeOK, NEW i \in Interfaces, Runs(i)
  PROVE  TypeOK'
<1> DEFINE t == thread[i]
<1>1. t \in Threads /\ MaxAdded \in Nat
  BY DispatcherAssumption DEF TypeOK
<1>2. \A pc \in {"ended", "check", "receive", "filter", "deliver"} :
          [pc |-> pc, at |-> 1] \in Threads
  BY <1>1 DEF Threads
<1>3. ASSUME t.at <= MaxAdded
      PROVE  /\ [t EXCEPT !.at = @ + 1] \in Threads
             /\ [thread EXCEPT ![i].at = @ + 1]
                    = [thread EXCEPT ![i] = [t EXCEPT !.at = @ + 1]]
  BY <1>1, <1>3 DEF Threads
<1>4. filters[i] \in 0 .. MaxAdded /\ receivers[i] \in 0 .. MaxAdded
  BY DEF TypeOK
<1>5. Alive(i) /\ ThreadUnchanged /\ fault' \in {fault, "dangling"}
  BY DEF Runs, CheckRunning, ReceiveFails, ReceiveFrame, Filter, Accepted, Deliver, At,
         Alive, Dereference
<1>6. \E u \in Threads : thread' = [thread EXCEPT ![i] = u]
  <2>1. CASE CheckRunning(i) \/ ReceiveFails(i) \/ ReceiveFrame(i) \/ Accepted(i)
    BY <2>1, <1>2 DEF CheckRunning, ReceiveFails, ReceiveFrame, Accepted, Goto
  <2>2. ASSUME NEW accepts \in BOOLEAN, Filter(i, accepts)
        PROVE  \E u \in Threads : thread' = [thread EXCEPT ![i] = u]
    <3>1. t.at <= MaxAdded
      BY <1>1, <1>4, <2>2 DEF Filter, Threads
    <3> QED
      BY <2>2, <3>1, <1>2, <1>3 DEF Filter, Goto
  <2>3. CASE Deliver(i)
    <3>1. t.at <= receivers[i] => t.at <= MaxAdded
      BY <1>1, <1>4 DEF Threads
    <3> QED
      BY <2>3, <3>1, <1>2, <1>3 DEF Deliver, Goto
  <2> QED
    BY <2>1, <2>2, <2>3 DEF Runs
<1> QED
  BY <1>5, <1>6, ThreadType

LEMMA TypeStep ==
  ASSUME TypeOK, [Next]_vars
  PROVE  TypeOK'
<1> USE DispatcherAssumption DEF Misuses
<1>1. ASSUME NEW c \in Controls, NEW i \in Interfaces, NEW moves \in BOOLEAN,
             AddInterface(c, i, moves)
      PROVE  TypeOK'
  <2>1. /\ entries' \in Seq(Interfaces) /\ IsInjective(entries')
        /\ Len(entries') \in Nat /\ Len(entries) \in Nat /\ Len(entries) <= Len(entries')
        /\ Range(entries) \subseteq Range(entries')
    <3>1. entries \in Seq(Interfaces) /\ IsInjective(entries) /\ Len(entries) \in Nat
      BY EntriesIndex DEF TypeOK
    <3>2. UNCHANGED entries \/ (i \notin Range(entries) /\ entries' = Append(entries, i))
      BY <1>1 DEF AddInterface
    <3>3. CASE UNCHANGED entries
      BY <3>1, <3>3
    <3>4. CASE i \notin Range(entries) /\ entries' = Append(entries, i)
      BY <3>1, <3>4, EntriesAppend
    <3> QED
      BY <3>2, <3>3, <3>4
  <2>2. joining' \in [Actors -> 0 .. Len(entries') + 1]
    <3>1. 0 .. Len(entries) + 1 \subseteq 0 .. Len(entries') + 1
      BY <2>1
    <3>2. joining \in [Actors -> 0 .. Len(entries) + 1]
      BY DEF TypeOK
    <3> QED
      BY <1>1, <3>1, <3>2 DEF AddInterface
  <2>3. stale' \in SUBSET Actors /\ misuse' \in SUBSET Misuses
    BY <1>1 DEF AddInterface, TypeOK, Referring, Actors, Note
  <2> QED
    BY <1>1, <2>1, <2>2, <2>3 DEF AddInterface, TypeOK, threadVars, Alive
<1>2. ASSUME NEW c \in Controls, NEW i \in Interfaces, AddReceiver(c, i)
      PROVE  TypeOK'
  <2>1. receivers' \in [Interfaces -> 0 .. MaxAdded]
    BY <1>2 DEF AddReceiver, TypeOK
  <2>2. misuse' \in SUBSET Misuses
    BY <1>2 DEF AddReceiver, NoteAdd, TypeOK
  <2> QED
    BY <1>2, <2>1, <2>2 DEF AddReceiver, TypeOK, threadVars, stopVars, Alive
<1>3. ASSUME NEW c \in Controls, NEW i \in Interfaces, AddFilter(c, i)
      PROVE  TypeOK'
  <2>1. filters' \in [Interfaces -> 0 .. MaxAdded]
    BY <1>3 DEF AddFilter, TypeOK
  <2>2. misuse' \in SUBSET Misuses
    BY <1>3 DEF AddFilter, NoteAdd, TypeOK
  <2> QED
    BY <1>3, <2>1, <2>2 DEF AddFilter, TypeOK, threadVars, stopVars, Alive
<1>4. ASSUME NEW c \in Controls, NEW fails \in SUBSET Interfaces, Stop(c, fails)
      PROVE  TypeOK'
  <2>1. misuse' \in SUBSET Misuses
    BY <1>4 DEF Stop, Note, TypeOK
  <2> QED
    BY <1>4, <2>1, StopLockedType DEF Stop, TypeOK, Alive, Actors
<1>5. ASSUME NEW c \in Controls, NEW opens \in SUBSET Interfaces, Start(c, opens)
      PROVE  TypeOK'
  <2>1. CASE running
    BY <1>5, <2>1 DEF Start, vars, appVars, threadVars, stopVars, TypeOK, Alive
  <2>2. CASE ~running
    <3>1. [Ended EXCEPT !.pc = "check"] \in Threads
      BY DEF Ended, Threads
    <3>2. /\ thread' \in [Interfaces -> Threads]
          /\ \A i \in Interfaces : Alive(i)' => i \in Range(entries)
      BY <1>5, <2>2, <3>1 DEF Start, TypeOK, Alive
    <3>3. misuse' \in SUBSET Misuses /\ fault' \in {"none", "terminate"} \cup {fault}
      BY <1>5, <2>2 DEF Start, Note, TypeOK
    <3>4. /\ isOpen' \in [Interfaces -> BOOLEAN] /\ joinable' \in [Interfaces -> BOOLEAN]
          /\ running' \in BOOLEAN
      BY <1>5, <2>2 DEF Start, TypeOK
    <3>5. stale' \in SUBSET Actors /\ stopped' \in BOOLEAN
      BY <1>5, <2>2 DEF Start, TypeOK
    <3> QED
      BY <1>5, <2>2, <3>2, <3>3, <3>4, <3>5 DEF Start, TypeOK
  <2> QED
    BY <2>1, <2>2
<1>6. ASSUME NEW a \in Actors, Join(a)
      PROVE  TypeOK'
  <2>1. joining' \in [Actors -> 0 .. Len(entries) + 1]
    <3>1. joining[a] \in 1 .. Len(entries) /\ Len(entries) \in Nat
      BY <1>6, EntriesIndex DEF Join, TypeOK
    <3> QED
      BY <1>6, <3>1 DEF Join, TypeOK
  <2>2. joinable' \in [Interfaces -> BOOLEAN]
    BY <1>6 DEF Join, TypeOK
  <2> QED
    BY <1>6, <2>1, <2>2 DEF Join, Dereference, TypeOK, appVars, Alive
<1>7. ASSUME NEW a \in Actors, StopReturns(a)
      PROVE  TypeOK'
  <2>1. joining' \in [Actors -> 0 .. Len(entries) + 1]
    BY <1>7, EntriesIndex DEF StopReturns, TypeOK
  <2> QED
    BY <1>7, <2>1 DEF StopReturns, TypeOK, appVars, threadVars, Alive
<1>8. ASSUME NEW i \in Interfaces, Runs(i)
      PROVE  TypeOK'
  BY <1>8, RunsType
<1>9. ASSUME NEW i \in Interfaces, NEW fails \in SUBSET Interfaces, HandlerStops(i, fails)
      PROVE  TypeOK'
  <2>1. misuse' \in SUBSET Misuses
    BY <1>9 DEF HandlerStops, Note, TypeOK
  <2> QED
    BY <1>9, <2>1, StopLockedType DEF HandlerStops, TypeOK, Alive, Actors
<1>10. ASSUME NEW i \in Interfaces, JoinSelf(i)
       PROVE  TypeOK'
  BY <1>10 DEF JoinSelf, TypeOK, appVars, threadVars, stopVars, Alive
<1>11. CASE UNCHANGED vars
  BY <1>11 DEF vars, appVars, threadVars, stopVars, TypeOK, Alive
<1> QED
  BY <1>1, <1>2, <1>3, <1>4, <1>5, <1>6, <1>7, <1>8, <1>9, <1>10, <1>11
     DEF Next, Leaves

(* Whatever is called when, no entry is listed twice, a thread that runs   *)
(* belongs to an entry, and stop() stays within the list.                  *)
THEOREM TypeCorrect == Spec => []TypeOK
<1> QED
  BY TypeInit, TypeStep, PTL DEF Spec

----------------------------------------------------------------------------
(* The safety properties.  One lemma for each kind of step: ...            *)

LEMMA SafeInit == Init => IInv
<1> SUFFICES ASSUME Init PROVE IInv
  OBVIOUS
<1>1. \A i \in Interfaces : ~isOpen[i] /\ ~Alive(i) /\ ~joinable[i]
  BY DEF Init, Alive, Ended
<1>2. \A a \in Actors : joining[a] = 0
  BY DEF Init
<1>3. ~MidStop /\ ~running /\ stale = {} /\ stopped = FALSE /\ fault = "none"
  BY <1>2 DEF Init, MidStop
<1>4. DOMAIN entries = {}
  BY DEF Init
<1> QED
  BY <1>1, <1>2, <1>3, <1>4, DispatcherAssumption
     DEF IInv, ServedInv, JoinInv, HandlerInv, StopInv, NoFault, Actors

(* ... a thread of the dispatcher makes one, ...                           *)
LEMMA SafeRuns ==
  ASSUME TypeOK, IInv, NEW i \in Interfaces, Runs(i)
  PROVE  IInv'
<1>1. ThreadUnchanged /\ fault = "none" /\ fault' \in {fault, "dangling"}
      /\ (fault' = "dangling" => i \in stale)
  BY DEF Runs, CheckRunning, ReceiveFails, ReceiveFrame, Filter, Accepted, Deliver, At,
         Dereference, Sound
<1>2. /\ \A j \in Interfaces : Alive(j)' => Alive(j)
      /\ running => \A j \in Interfaces : Alive(j) => Alive(j)'
  <2>1. thread \in [Interfaces -> Threads]
    BY DEF TypeOK
  <2>2. thread'[i].pc # "ended" \/ ~running
    BY <2>1 DEF Runs, CheckRunning, ReceiveFails, ReceiveFrame, Filter, Accepted, Deliver,
                At, Goto, Threads
  <2>3. Alive(i)
    BY DEF Runs, CheckRunning, ReceiveFails, ReceiveFrame, Filter, Accepted, Deliver, At,
           Alive
  <2>4. \A j \in Interfaces : j # i => thread'[j] = thread[j]
    BY <2>1 DEF Runs, CheckRunning, ReceiveFails, ReceiveFrame, Filter, Accepted, Deliver,
                Goto
  <2> QED
    BY <2>2, <2>3, <2>4 DEF Alive
<1>3. /\ UNCHANGED <<running, entries, isOpen, unclosed, joinable, joining, stale, stopped,
                    misuse>>
      /\ MidStop' = MidStop
  BY <1>1 DEF ThreadUnchanged, appVars, stopVars, MidStop
<1>4. ServedInv'
  BY <1>2, <1>3 DEF IInv, ServedInv
<1>5. JoinInv' /\ HandlerInv' /\ StopInv'
  BY <1>3 DEF IInv, JoinInv, HandlerInv, StopInv
<1>6. NoFault'
  BY <1>1, <1>3 DEF IInv, JoinInv, NoFault
<1> QED
  BY <1>4, <1>5, <1>6 DEF IInv

(* ... actor a calls stop(), on a thread of the dispatcher or not, ...     *)
LEMMA SafeStop ==
  ASSUME TypeOK, IInv, NEW a \in Actors, NEW fails \in SUBSET Interfaces,
         StopLocked(a, fails), joining[a] = 0,
         UNCHANGED <<entries, thread, joinable, stale, fault>>,
         misuse \subseteq misuse', MidStop => "otherStop" \in misuse',
         "midStop" \in misuse' => "midStop" \in misuse,
         a \in Interfaces => "otherStop" \in misuse'
  PROVE  IInv'
<1>1. \A i \in Interfaces : Alive(i)' = Alive(i)
  BY DEF Alive
<1>2. NoFault'
  BY DEF IInv, NoFault
<1>3. CASE ~running
  <2>1. /\ UNCHANGED <<running, isOpen, unclosed, joining>> /\ MidStop' = MidStop
        /\ stopped' = TRUE
    BY <1>3 DEF StopLocked, MidStop
  <2>2. ServedInv'
    BY <1>1, <2>1 DEF IInv, ServedInv
  <2>3. JoinInv' /\ HandlerInv'
    BY <2>1 DEF IInv, JoinInv, HandlerInv
  <2>4. StopInv'
    BY <1>3, <2>1 DEF IInv, StopInv
  <2> QED
    BY <1>2, <2>2, <2>3, <2>4 DEF IInv
<1>4. CASE running
  <2>1. /\ ~running' /\ stopped' = stopped
        /\ joining' = [joining EXCEPT ![a] = 1]
        /\ isOpen' = [i \in Interfaces |->
                         isOpen[i] /\ (i \in Range(entries) => i \in fails)]
        /\ unclosed' = fails
    BY <1>4 DEF StopLocked, CloseAll
  <2>2. joining'[a] = 1 /\ \A b \in Actors : b # a => joining'[b] = joining[b]
    BY <2>1 DEF TypeOK
  <2>3. ServedInv'
    BY <1>1, <2>1 DEF IInv, ServedInv
  <2>4. HandlerInv'
    BY <2>2, DispatcherAssumption DEF IInv, HandlerInv, Actors
  <2>5. MidStop'
    BY <2>2 DEF MidStop
  <2>6. JoinInv'
    <3> SUFFICES ASSUME "midStop" \notin misuse'
                 PROVE  /\ stale = {}
                        /\ \A b, d \in Actors : joining'[b] # 0 /\ joining'[d] # 0 => b = d
                        /\ \A b \in Actors, k \in DOMAIN entries :
                               k < joining'[b] => ~joinable[entries[k]]
      BY <2>1, <2>5 DEF JoinInv
    <3>1. stale = {} /\ \A b \in Actors : joining[b] = 0
      BY <1>4 DEF IInv, JoinInv, MidStop
    <3>2. \A b \in Actors, k \in DOMAIN entries : ~(k < joining'[b])
      <4>1. \A b \in Actors : joining'[b] \in {0, 1}
        BY <2>2, <3>1
      <4>2. \A k \in DOMAIN entries : k \in Nat /\ k >= 1
        BY EntriesIndex DEF TypeOK
      <4> QED
        BY <4>1, <4>2
    <3> QED
      BY <2>2, <3>1, <3>2
  <2>7. StopInv'
    <3>1. misuse' \subseteq {"liveAdd"} => misuse \subseteq {"liveAdd"}
      OBVIOUS
    <3> QED
      BY <1>4, <2>1, <3>1 DEF IInv, StopInv
  <2> QED
    BY <1>2, <2>3, <2>4, <2>6, <2>7 DEF IInv
<1> QED
  BY <1>3, <1>4 DEF TypeOK

(* ... stop() joins one thread after the other, ...                        *)
LEMMA SafeJoin ==
  ASSUME TypeOK, IInv, NEW a \in Actors, Join(a)
  PROVE  IInv'
<1> DEFINE i == entries[joining[a]]
<1>1. /\ i \in Interfaces
      /\ joining[a] \in Nat \ {0} /\ joining \in [Actors -> Nat]
      /\ DOMAIN entries \subseteq Nat
      /\ joinable \in [Interfaces -> BOOLEAN]
  BY EntriesIndex DEF Join, TypeOK
<1>2. /\ joinable[i] => ~Alive(i)
      /\ joinable' = [joinable EXCEPT ![i] = FALSE]
      /\ joining' = [joining EXCEPT ![a] = @ + 1]
      /\ UNCHANGED <<running, entries, isOpen, unclosed, thread, stale, stopped, misuse>>
      /\ fault = "none" /\ fault' \in {fault, "dangling"}
      /\ fault' = "dangling" => a \in stale
  BY DEF Join, Dereference, Sound, appVars
<1> HIDE DEF i
<1>3. \A b \in Actors : joining'[b] # 0 <=> joining[b] # 0
  BY <1>1, <1>2
<1>4. MidStop' = MidStop
  BY <1>3 DEF MidStop
<1>5. ServedInv'
  BY <1>1, <1>2 DEF IInv, ServedInv, Alive
<1>6. HandlerInv' /\ StopInv'
  BY <1>2, <1>3, <1>4 DEF IInv, HandlerInv, StopInv, Actors
<1>7. JoinInv'
  <2> SUFFICES ASSUME "midStop" \notin misuse,
                      NEW b \in Actors, NEW k \in DOMAIN entries, k < joining'[b]
               PROVE  ~joinable'[entries[k]]
    BY <1>1, <1>2, <1>3, <1>4 DEF IInv, JoinInv
  <2>1. entries[k] \in Interfaces
    BY EntriesIndex DEF TypeOK
  <2>2. CASE k < joining[b]
    BY <1>1, <1>2, <2>1, <2>2 DEF IInv, JoinInv
  <2>3. CASE ~(k < joining[b])
    <3>1. b = a /\ k = joining[a]
      BY <1>1, <1>2, <2>3
    <3> QED
      BY <1>1, <1>2, <3>1 DEF i
  <2> QED
    BY <2>2, <2>3
<1>8. NoFault'
  BY <1>2 DEF IInv, JoinInv, NoFault
<1> QED
  BY <1>5, <1>6, <1>7, <1>8 DEF IInv

(* ... and returns, having joined all of them, ...                         *)
LEMMA SafeReturn ==
  ASSUME TypeOK, IInv, NEW a \in Actors, StopReturns(a)
  PROVE  IInv'
<1>1. /\ joining' = [joining EXCEPT ![a] = 0]
      /\ joining[a] = Len(entries) + 1 /\ Len(entries) \in Nat
      /\ stale' \subseteq stale /\ stopped' = TRUE
      /\ UNCHANGED <<running, entries, isOpen, unclosed, thread, joinable, misuse, fault>>
  BY EntriesIndex DEF StopReturns, appVars, threadVars, TypeOK
<1>2. joining'[a] = 0 /\ \A b \in Actors : b # a => joining'[b] = joining[b]
  BY <1>1 DEF TypeOK
<1>3. MidStop
  BY <1>1 DEF MidStop
<1>4. ServedInv' /\ NoFault'
  BY <1>1 DEF IInv, ServedInv, NoFault, Alive
<1>5. HandlerInv'
  BY <1>1, <1>2 DEF IInv, HandlerInv, Actors
<1>6. "midStop" \notin misuse => ~running /\ ~MidStop'
  BY <1>1, <1>2, <1>3 DEF IInv, JoinInv, MidStop
<1>7. StopInv'
  BY <1>1, <1>6 DEF StopInv
<1>8. JoinInv'
  <2> SUFFICES ASSUME "midStop" \notin misuse
               PROVE  /\ \A i \in Interfaces : ~joinable[i]
                      /\ stale' = {}
                      /\ \A b \in Actors : joining'[b] = 0
    <3>1. \A b \in Actors, k \in DOMAIN entries : joining'[b] = 0 => ~(k < joining'[b])
      BY EntriesIndex DEF TypeOK
    <3>2. \A k \in DOMAIN entries : entries[k] \in Interfaces
      BY EntriesIndex DEF TypeOK
    <3> QED
      BY <1>1, <1>6, <3>1, <3>2 DEF JoinInv
  <2>1. \A k \in DOMAIN entries : k < joining[a]
    BY <1>1, EntriesIndex DEF TypeOK
  <2>2. \A i \in Interfaces : ~joinable[i]
    BY <2>1 DEF IInv, JoinInv, ServedInv, Range
  <2> QED
    BY <1>1, <1>6, <2>2 DEF IInv, JoinInv, MidStop
<1> QED
  BY <1>4, <1>5, <1>7, <1>8 DEF IInv

(* ... the application adds something, ...                                 *)
LEMMA SafeAdd ==
  ASSUME TypeOK, IInv, NEW c \in Controls, NEW i \in Interfaces,
         \/ \E moves \in BOOLEAN : AddInterface(c, i, moves)
         \/ AddReceiver(c, i)
         \/ AddFilter(c, i)
  PROVE  IInv'
<1>1. /\ UNCHANGED <<running, isOpen, unclosed, thread, joinable, joining, stopped>>
      /\ misuse \subseteq misuse' /\ misuse' \subseteq misuse \cup {"liveAdd", "midStop"}
      /\ MidStop => "midStop" \in misuse'
      /\ fault = "none"
  BY DEF AddInterface, AddReceiver, AddFilter, Note, NoteAdd, Free, Sound, threadVars,
         stopVars
<1>2. MidStop' = MidStop /\ \A j \in Interfaces : Alive(j)' = Alive(j)
  BY <1>1 DEF MidStop, Alive
<1>3. /\ Range(entries) \subseteq Range(entries')
      /\ \/ UNCHANGED <<entries, stale>>
         \/ ~running /\ stale' \subseteq stale \cup Referring
  <2>1. ASSUME NEW moves \in BOOLEAN, AddInterface(c, i, moves), ~UNCHANGED <<entries, stale>>
        PROVE  /\ ~running /\ stale' \subseteq stale \cup Referring
               /\ entries' = Append(entries, i)
    BY <2>1 DEF AddInterface
  <2>2. CASE AddReceiver(c, i) \/ AddFilter(c, i)
    BY <2>2 DEF AddReceiver, AddFilter, stopVars
  <2> QED
    BY <2>1, <2>2, EntriesAppend DEF TypeOK
<1>4. ServedInv'
  BY <1>1, <1>2, <1>3 DEF IInv, ServedInv
<1>5. HandlerInv' /\ StopInv'
  BY <1>1, <1>2 DEF IInv, HandlerInv, StopInv
<1>6. JoinInv'
  <2> SUFFICES ASSUME "midStop" \notin misuse'
               PROVE  JoinInv'
    BY DEF JoinInv
  <2>1. "midStop" \notin misuse /\ ~MidStop /\ \A a \in Actors : joining[a] = 0
    BY <1>1 DEF MidStop
  <2>2. stale = {} /\ (~running => \A j \in Interfaces : ~joinable[j])
    BY <2>1 DEF IInv, JoinInv
  <2>3. ~running => Referring = {}
    <3>1. \A a \in Actors : joining[a] \notin DOMAIN entries
      BY <2>1, EntriesIndex DEF TypeOK
    <3> QED
      BY <2>2, <3>1 DEF Referring, IInv, ServedInv
  <2>4. stale' = {}
    BY <1>3, <2>2, <2>3
  <2>5. \A k \in DOMAIN entries' : ~(k < 0)
    <3>1. entries' \in Seq(Interfaces)
      BY EntriesAppend DEF AddInterface, AddReceiver, AddFilter, TypeOK
    <3> QED
      BY <3>1, EntriesIndex
  <2> QED
    BY <1>1, <1>2, <2>1, <2>2, <2>4, <2>5 DEF JoinInv
<1>7. NoFault'
  <2>1. fault' \in {"none", "race"}
    BY <1>1 DEF AddInterface, AddReceiver, AddFilter
  <2>2. ASSUME fault' = "race"
        PROVE  misuse' # {}
    <3>1. Alive(i) /\ misuse' = misuse \cup (IF running THEN {"liveAdd"} ELSE {})
                                       \cup (IF MidStop THEN {"midStop"} ELSE {})
      BY <1>1, <2>2 DEF AddInterface, AddReceiver, AddFilter, NoteAdd, Alive
    <3>2. joinable[i]
      BY <3>1 DEF IInv, ServedInv
    <3> QED
      BY <3>1, <3>2 DEF IInv, JoinInv
  <2> QED
    BY <2>1, <2>2 DEF NoFault
<1> QED
  BY <1>4, <1>5, <1>6, <1>7 DEF IInv

(* ... or it calls start().                                                *)
LEMMA SafeStart ==
  ASSUME TypeOK, IInv, NEW c \in Controls, NEW opens \in SUBSET Interfaces,
         Start(c, opens), ~running
  PROVE  IInv'
<1>1. /\ running' /\ stopped' = FALSE /\ stale' \subseteq stale
      /\ opens \subseteq Range(entries)
      /\ isOpen' = [i \in Interfaces |-> isOpen[i] \/ i \in opens]
      /\ thread' = [i \in Interfaces |-> IF i \in opens THEN [Ended EXCEPT !.pc = "check"]
                                         ELSE thread[i]]
      /\ joinable' = [i \in Interfaces |-> joinable[i] \/ i \in opens]
      /\ misuse' = IF MidStop THEN misuse \cup {"midStop"} ELSE misuse
      /\ UNCHANGED <<entries, unclosed, joining>>
  BY DEF Start, Note
<1>2. fault = "none" /\ fault' = IF \E i \in opens : joinable[i] THEN "terminate" ELSE fault
  BY DEF Start, Free, Sound
<1>3. MidStop' = MidStop
  BY <1>1 DEF MidStop
<1>4. \A i \in Interfaces : Alive(i)' <=> Alive(i) \/ i \in opens
  BY <1>1 DEF Alive, Ended
<1>5. ServedInv'
  BY <1>1, <1>4 DEF IInv, ServedInv
<1>6. HandlerInv' /\ StopInv'
  BY <1>1 DEF IInv, HandlerInv, StopInv
<1>7. JoinInv'
  <2> SUFFICES ASSUME "midStop" \notin misuse'
               PROVE  JoinInv'
    BY DEF JoinInv
  <2>1. "midStop" \notin misuse /\ ~MidStop /\ \A a \in Actors : joining[a] = 0
    BY <1>1 DEF MidStop
  <2>2. \A k \in DOMAIN entries : ~(k < 0)
    BY EntriesIndex DEF TypeOK
  <2> QED
    BY <1>1, <1>3, <2>1, <2>2 DEF IInv, JoinInv
<1>8. NoFault'
  BY <1>1, <1>2 DEF IInv, JoinInv, NoFault
<1> QED
  BY <1>5, <1>6, <1>7, <1>8 DEF IInv

LEMMA SafeStep ==
  ASSUME TypeOK, IInv, [Next]_vars
  PROVE  IInv'
<1>1. CASE UNCHANGED vars
  BY <1>1
     DEF vars, appVars, threadVars, stopVars, IInv, ServedInv, JoinInv, HandlerInv, StopInv,
         NoFault, MidStop, Alive
<1>2. ASSUME NEW c \in Controls, NEW fails \in SUBSET Interfaces, Stop(c, fails)
      PROVE  IInv'
  BY <1>2, SafeStop, DispatcherAssumption DEF Stop, Note, Free, Actors, TypeOK
<1>3. ASSUME NEW i \in Interfaces, NEW fails \in SUBSET Interfaces, HandlerStops(i, fails)
      PROVE  IInv'
  BY <1>3, SafeStop DEF HandlerStops, Note, Free, Actors
<1>4. ASSUME NEW c \in Controls, NEW opens \in SUBSET Interfaces, Start(c, opens)
      PROVE  IInv'
  BY <1>1, <1>4, SafeStart DEF Start
<1>5. ASSUME NEW i \in Interfaces, JoinSelf(i)
      PROVE  IInv'
  <2>1. UNCHANGED <<running, entries, isOpen, unclosed, thread, joinable, joining, stale,
                    stopped, misuse>>
    BY <1>5 DEF JoinSelf, appVars, threadVars, stopVars
  <2>2. "otherStop" \in misuse /\ fault' = "terminate"
    <3>1. joining[i] # 0
      BY <1>5, EntriesIndex DEF JoinSelf, TypeOK
    <3> QED
      BY <1>5, <3>1 DEF JoinSelf, IInv, HandlerInv
  <2> QED
    BY <2>1, <2>2
       DEF IInv, ServedInv, JoinInv, HandlerInv, StopInv, NoFault, MidStop, Alive
<1> QED
  BY <1>1, <1>2, <1>3, <1>4, <1>5, SafeAdd, SafeRuns, SafeJoin, SafeReturn DEF Next, Leaves

LEMMA Safe == Spec => []IInv
<1> QED
  BY SafeInit, SafeStep, TypeCorrect, PTL DEF Spec

(* While the dispatcher runs, every open interface is read by a thread     *)
(* that the next stop() joins, however often it was restarted, unless the  *)
(* last close() of that interface failed, which stop() does not look at.   *)
THEOREM OpenIsServed == Spec => []OpenMeansServed
<1>1. IInv => OpenMeansServed
  BY DEF IInv, ServedInv, OpenMeansServed
<1> QED
  BY Safe, <1>1, PTL

(* Only the three misuses can lead to undefined behaviour or an abort.     *)
THEOREM FaultsAreMisuses == Spec => []NoFault
<1>1. IInv => NoFault
  BY DEF IInv
<1> QED
  BY Safe, <1>1, PTL

(* After a stop() that met no other operation every thread has ended.      *)
THEOREM StopJoins == Spec => []StopMeansJoined
<1>1. IInv => StopMeansJoined
  <2> SUFFICES ASSUME IInv, stopped, misuse \subseteq {"liveAdd"},
                      NEW i \in Interfaces
               PROVE  ~Alive(i)
    BY DEF StopMeansJoined
  <2>1. ~running /\ ~MidStop /\ "midStop" \notin misuse
    BY DEF IInv, StopInv
  <2> QED
    BY <2>1 DEF IInv, JoinInv, ServedInv
<1> QED
  BY Safe, <1>1, PTL
============================================================================
