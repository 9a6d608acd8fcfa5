---------------------------- MODULE CanDispatcher ----------------------------
(***************************************************************************)
(* CanDispatcher: application threads that add interfaces, receivers and   *)
(* filters and start and stop the dispatcher, and one thread for each      *)
(* opened interface that runs runInterface().  The mutex `entriesMutex' is *)
(* held by every operation of the application, but neither by              *)
(* runInterface() nor while stop() joins the threads.                      *)
(*                                                                         *)
(* What C++ leaves undefined, or ends the process over, is recorded in     *)
(* `fault' and is the end of the behaviour.  The interfaces are only known *)
(* by their contract, in which every call may fail: an interface that does *)
(* not open stays closed, one that does not close stays open and opens not *)
(* a second time.  A receive() may end at any time, with a frame or without*)
(* one; that close() ends it the contract does not say.                    *)
(***************************************************************************)
EXTENDS Naturals, Sequences, Functions

CONSTANTS
    Controls,      \* application threads
    Interfaces,    \* the interfaces that there are, each with its own thread
    MaxAdded       \* bound: receivers, and filters, of one interface

ASSUME DispatcherAssumption ==
    /\ Controls \cap Interfaces = {}
    /\ MaxAdded \in Nat

Actors == Controls \cup Interfaces

VARIABLES
    running,    \* CanDispatcher::running, not atomic
    entries,    \* dispatcherEntries, by the names of their interfaces
    filters,    \* number of filters of each entry
    receivers,  \* number of receivers of each entry
    isOpen,     \* state of each interface
    unclosed,   \* history: interfaces whose last close() failed
    thread,     \* thread of each entry: where it is, which element it is at
    joinable,   \* whether entry.ifaceThread holds a thread not yet joined
    joining,    \* the entry that stop() of each actor is about to join, or 0
    stale,      \* actors that refer to the entries where they used to be
    stopped,    \* history: whether a stop() returned since the last start()
    misuse,     \* history: what the application did that nothing prevents
    fault       \* what undefined or fatal event has happened

appVars    == <<running, entries, filters, receivers>>
threadVars == <<isOpen, unclosed, thread, joinable>>
stopVars   == <<joining, stale, stopped>>
vars       == <<appVars, threadVars, stopVars, misuse, fault>>

Alive(i)  == thread[i].pc # "ended"

(* In a join, an actor is inside stop(); a thread there serves a receiver. *)
Threads == [pc : {"ended", "check", "receive", "filter", "deliver"},
            at : 1 .. MaxAdded + 1]

(* A receiver or a filter is added while `running' is set; something is    *)
(* added or start() is called while a stop() joins; stop() is called while *)
(* another one joins, or by a receiver.                                    *)
Misuses == {"liveAdd", "midStop", "otherStop"}

(* No entry twice; a live thread belongs to an entry; the rest is typing.  *)
TypeOK ==
    /\ running \in BOOLEAN
    /\ entries \in Seq(Interfaces)
    /\ IsInjective(entries)
    /\ filters \in [Interfaces -> 0 .. MaxAdded]
    /\ receivers \in [Interfaces -> 0 .. MaxAdded]
    /\ isOpen \in [Interfaces -> BOOLEAN]
    /\ unclosed \in SUBSET Interfaces
    /\ thread \in [Interfaces -> Threads]
    /\ \A i \in Interfaces : Alive(i) => i \in Range(entries)
    /\ joinable \in [Interfaces -> BOOLEAN]
    /\ joining \in [Actors -> 0 .. Len(entries) + 1]
    /\ stale \in SUBSET Actors
    /\ stopped \in BOOLEAN
    /\ misuse \in SUBSET Misuses
    /\ fault \in {"none", "terminate", "dangling", "race"}

Ended == [pc |-> "ended", at |-> 1]

Init ==
    /\ running = FALSE
    /\ entries = <<>>
    /\ filters = [i \in Interfaces |-> 0]
    /\ receivers = [i \in Interfaces |-> 0]
    /\ isOpen = [i \in Interfaces |-> FALSE]
    /\ unclosed = {}
    /\ thread = [i \in Interfaces |-> Ended]
    /\ joinable = [i \in Interfaces |-> FALSE]
    /\ joining = [a \in Actors |-> 0]
    /\ stale = {}
    /\ stopped = FALSE
    /\ misuse = {}
    /\ fault = "none"

Sound   == fault = "none"
Free(c) == Sound /\ joining[c] = 0

(* Live threads, and a stop() that joins, hold references into the vector. *)
Referring == {i \in Interfaces : Alive(i)}
             \cup {a \in Actors : joining[a] \in DOMAIN entries}

Note(m, happens) == misuse' = IF happens THEN misuse \cup {m} ELSE misuse
MidStop          == \E a \in Actors : joining[a] # 0

NoteAdd ==
    misuse' = misuse \cup (IF running THEN {"liveAdd"} ELSE {})
                     \cup (IF MidStop THEN {"midStop"} ELSE {})

(* Actor a uses its reference to an entry.                                 *)
Dereference(a) == fault' = IF a \in stale THEN "dangling" ELSE fault

----------------------------------------------------------------------------
(* The application                                                         *)

(* Mutant: the check of `running' is left out.                             *)
AddInterfaceRunning(c, i, moves) ==
    /\ Free(c)
    /\ i \notin Range(entries)
    /\ entries' = Append(entries, i)
    /\ stale' = IF moves THEN stale \cup Referring ELSE stale
    /\ Note("midStop", MidStop)
    /\ UNCHANGED <<running, filters, receivers, threadVars, joining, stopped, fault>>

(* Mutant: the check for an entry of that name is left out.                *)
AddInterfaceTwice(c, i, moves) ==
    /\ Free(c)
    /\ ~running /\ ~moves /\ Len(entries) < 3
    /\ entries' = Append(entries, i)
    /\ UNCHANGED <<running, filters, receivers, threadVars, stopVars, misuse, fault>>

(* An interface that is in the list is refused, and so is every interface  *)
(* while `running' is set.  The vector may move its entries to make room.  *)
AddInterface(c, i, moves) ==
    /\ Free(c)
    /\ IF running \/ i \in Range(entries)
       THEN UNCHANGED <<entries, stale>>
       ELSE /\ entries' = Append(entries, i)
            /\ stale' = IF moves THEN stale \cup Referring ELSE stale
    /\ Note("midStop", MidStop)
    /\ UNCHANGED <<running, filters, receivers, threadVars, joining, stopped, fault>>

(* Neither addReceiver() nor addFilter() looks at `running'.               *)
AddReceiver(c, i) ==
    /\ Free(c)
    /\ i \in Range(entries)
    /\ receivers[i] < MaxAdded
    /\ receivers' = [receivers EXCEPT ![i] = @ + 1]
    /\ NoteAdd
    /\ fault' = IF thread[i].pc = "deliver" THEN "race" ELSE fault
    /\ UNCHANGED <<running, entries, filters, threadVars, stopVars>>

AddFilter(c, i) ==
    /\ Free(c)
    /\ i \in Range(entries)
    /\ filters[i] < MaxAdded
    /\ filters' = [filters EXCEPT ![i] = @ + 1]
    /\ NoteAdd
    /\ fault' = IF thread[i].pc = "filter" THEN "race" ELSE fault
    /\ UNCHANGED <<running, entries, receivers, threadVars, stopVars>>

(* Mutant: an interface that opens gets no thread if it had one before.    *)
StartOnce(c, opens) ==
    /\ Free(c)
    /\ ~running
    /\ running' = TRUE
    /\ isOpen' = [i \in Interfaces |-> isOpen[i] \/ i \in opens]
    /\ opens \subseteq {i \in Range(entries) : ~isOpen[i]}
    /\ thread' = [i \in Interfaces |->
                    IF i \in opens /\ ~stopped
                    THEN [Ended EXCEPT !.pc = "check"] ELSE thread[i]]
    /\ joinable' = [i \in Interfaces |-> joinable[i] \/ thread'[i].pc # "ended"]
    /\ stopped' = FALSE
    /\ UNCHANGED <<entries, filters, receivers, unclosed, joining, stale, misuse, fault>>

(* start() opens the interfaces and gives each that opens a new thread; an *)
(* interface that is still open fails to open, and so gets none.           *)
(* Destroying a thread object that is still joinable ends the process.     *)
Start(c, opens) ==
    /\ Free(c)
    /\ opens \subseteq {i \in Range(entries) : ~isOpen[i]}
    /\ IF running
       THEN opens = {} /\ UNCHANGED vars
       ELSE /\ running' = TRUE
            /\ isOpen' = [i \in Interfaces |-> isOpen[i] \/ i \in opens]
            /\ thread' = [i \in Interfaces |->
                            IF i \in opens THEN [Ended EXCEPT !.pc = "check"]
                            ELSE thread[i]]
            /\ joinable' = [i \in Interfaces |-> joinable[i] \/ i \in opens]
            /\ fault' = IF \E i \in opens : joinable[i] THEN "terminate" ELSE fault
            /\ stale' = stale \ opens
            /\ stopped' = FALSE
            /\ Note("midStop", MidStop)
            /\ UNCHANGED <<entries, filters, receivers, unclosed, joining>>

(* Every interface is closed; what close() returns is not looked at, and   *)
(* the interfaces in `fails' stay open.                                    *)
CloseAll(fails) ==
    /\ fails \subseteq {i \in Range(entries) : isOpen[i]}
    /\ isOpen' = [i \in Interfaces |->
                     isOpen[i] /\ (i \in Range(entries) => i \in fails)]
    /\ unclosed' = fails

(* Mutant: `running' stays set.                                            *)
StopLockedRunning(a, fails) ==
    /\ running
    /\ CloseAll(fails)
    /\ joining' = [joining EXCEPT ![a] = 1]
    /\ UNCHANGED <<running, stopped>>

(* The locked part of stop(), on thread a.                                 *)
StopLocked(a, fails) ==
    IF running
    THEN /\ running' = FALSE
         /\ CloseAll(fails)
         /\ joining' = [joining EXCEPT ![a] = 1]
         /\ UNCHANGED stopped
    ELSE /\ fails = {}
         /\ stopped' = TRUE
         /\ UNCHANGED <<running, isOpen, unclosed, joining>>

Stop(c, fails) ==
    /\ Free(c)
    /\ StopLocked(c, fails)
    /\ Note("otherStop", MidStop)
    /\ UNCHANGED <<entries, filters, receivers, thread, joinable, stale, fault>>

(* Mutant: the threads are not waited for.                                 *)
JoinNot(a) ==
    /\ Sound /\ joining[a] \in DOMAIN entries
    /\ joining' = [joining EXCEPT ![a] = @ + 1]
    /\ UNCHANGED <<appVars, threadVars, stale, stopped, misuse, fault>>

(* The unlocked part, one entry after the other.                           *)
Join(a) ==
    /\ Sound /\ joining[a] \in DOMAIN entries
    /\ LET i == entries[joining[a]] IN
          /\ a # i
          /\ joinable[i] => ~Alive(i)
          /\ joinable' = [joinable EXCEPT ![i] = FALSE]
    /\ Dereference(a)
    /\ joining' = [joining EXCEPT ![a] = @ + 1]
    /\ UNCHANGED <<appVars, isOpen, unclosed, thread, stale, stopped, misuse>>

(* A thread that joins itself gets an exception that nobody catches.       *)
JoinSelf(i) ==
    /\ Sound /\ joining[i] \in DOMAIN entries
    /\ entries[joining[i]] = i
    /\ fault' = "terminate"
    /\ UNCHANGED <<appVars, threadVars, stopVars, misuse>>

StopReturns(a) ==
    /\ Sound /\ joining[a] = Len(entries) + 1
    /\ joining' = [joining EXCEPT ![a] = 0]
    /\ stale' = stale \ (Controls \cap {a})
    /\ stopped' = TRUE
    /\ UNCHANGED <<appVars, threadVars, misuse, fault>>

----------------------------------------------------------------------------
(* runInterface()                                                          *)

Goto(i, pc) == thread' = [thread EXCEPT ![i] = [pc |-> pc, at |-> 1]]

ThreadUnchanged == UNCHANGED <<appVars, isOpen, unclosed, joinable, stopVars, misuse>>

At(i, pc) == Sound /\ thread[i].pc = pc

CheckRunning(i) ==
    /\ At(i, "check")
    /\ Goto(i, IF running THEN "receive" ELSE "ended")
    /\ IF running THEN Dereference(i) ELSE UNCHANGED fault
    /\ ThreadUnchanged

(* receive() fails, on an error or because the interface is closed: the    *)
(* thread looks at the flag again.                                         *)
ReceiveFails(i) ==
    /\ At(i, "receive")
    /\ Goto(i, "check")
    /\ ThreadUnchanged /\ UNCHANGED fault

(* receive() returns SUCCESS, be it for a frame that came in before the    *)
(* interface was closed.                                                   *)
ReceiveFrame(i) ==
    /\ At(i, "receive")
    /\ Goto(i, "filter")
    /\ Dereference(i)
    /\ ThreadUnchanged

(* The frame is shown to one filter after the other, until one rejects it. *)
Filter(i, accepts) ==
    /\ At(i, "filter")
    /\ thread[i].at <= filters[i]
    /\ IF accepts THEN thread' = [thread EXCEPT ![i].at = @ + 1] ELSE Goto(i, "check")
    /\ ThreadUnchanged /\ UNCHANGED fault

Accepted(i) ==
    /\ At(i, "filter")
    /\ thread[i].at = filters[i] + 1
    /\ Goto(i, "deliver")
    /\ Dereference(i)
    /\ ThreadUnchanged

Deliver(i) ==
    /\ At(i, "deliver")
    /\ Free(i)
    /\ IF thread[i].at <= receivers[i]
       THEN thread' = [thread EXCEPT ![i].at = @ + 1]
       ELSE Goto(i, "check")
    /\ ThreadUnchanged /\ UNCHANGED fault

(* A receiver calls stop() while it handles the frame.                     *)
HandlerStops(i, fails) ==
    /\ At(i, "deliver") /\ thread[i].at <= receivers[i]
    /\ Free(i)
    /\ StopLocked(i, fails)
    /\ Note("otherStop", TRUE)
    /\ UNCHANGED <<entries, filters, receivers, thread, joinable, stale, fault>>

----------------------------------------------------------------------------
Leaves(a) == Join(a) \/ StopReturns(a)

Runs(i) ==
    \/ CheckRunning(i) \/ ReceiveFails(i) \/ ReceiveFrame(i)
    \/ \E accepts \in BOOLEAN : Filter(i, accepts)
    \/ Accepted(i) \/ Deliver(i)

Next ==
    \/ \E c \in Controls, i \in Interfaces :
          \/ \E moves \in BOOLEAN : AddInterface(c, i, moves)
          \/ AddReceiver(c, i)
          \/ AddFilter(c, i)
    \/ \E c \in Controls, these \in SUBSET Interfaces : Start(c, these) \/ Stop(c, these)
    \/ \E a \in Actors : Leaves(a)
    \/ \E i \in Interfaces, these \in SUBSET Interfaces : HandlerStops(i, these)
    \/ \E i \in Interfaces : Runs(i) \/ JoinSelf(i)

Spec == Init /\ [][Next]_vars

(* Threads run, and filters and receivers return.  Nothing is assumed of   *)
(* receive(): it may wait for ever, on an interface that is closed too.    *)
FairSpec ==
    /\ Spec
    /\ \A c \in Controls : WF_vars(Leaves(c))
    /\ \A i \in Interfaces :
          WF_vars(Leaves(i) \/ (Runs(i) /\ thread[i].pc # "receive"))

----------------------------------------------------------------------------
(* While the dispatcher is running, every interface that is open, after a  *)
(* restart too, is read by a thread that the next stop() joins, unless the *)
(* last close() of that interface failed: start() then finds it open.      *)
OpenMeansServed ==
    fault = "none" /\ running
        => \A i \in Interfaces \ unclosed : isOpen[i] => Alive(i) /\ joinable[i]

(* What it takes to break the dispatcher: no thread object is overwritten  *)
(* while it is joinable, no thread joins itself, no list changes under a   *)
(* thread that walks through it, and no entry is used after it has moved,  *)
(* except by a receiver or filter that is added while it runs, an operation*)
(* in the middle of a stop(), where the lock is free, or a receiver that   *)
(* calls stop().  Its documentation rules none of these out.               *)
NoFault ==
    /\ fault = "terminate" => misuse \cap {"midStop", "otherStop"} # {}
    /\ fault = "race"      => misuse # {}
    /\ fault = "dangling"  => "midStop" \in misuse

(* When a stop() returns the threads have been joined, unless another      *)
(* operation came in the middle of it, or a receiver called stop().        *)
StopMeansJoined ==
    stopped /\ misuse \subseteq {"liveAdd"} => \A i \in Interfaces : ~Alive(i)

(* A stop() that does not return waits for a receive() that never returns: *)
(* if none hangs, each thread sees the flag, and no two threads wait for   *)
(* each other, although receivers may call stop() too; unless the process  *)
(* ends over it, or a start() in the middle of it sets the flag again.     *)
EveryStopReturns ==
    \/ \A c \in Controls :
          joining[c] # 0 ~> joining[c] = 0 \/ fault # "none" \/ "midStop" \in misuse
    \/ \E i \in Interfaces : <>[](thread[i].pc = "receive")
=============================================================================
