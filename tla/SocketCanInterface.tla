------------------------- MODULE SocketCanInterface -------------------------
(***************************************************************************)
(* SocketCanInterface: one thread of the dispatcher that calls receive()   *)
(* again and again, and one thread that opens and closes the interface.    *)
(* The two share isOpen, fd and pipeFds without a lock, so in close() and  *)
(* receive() every access to one of them is an action of its own; open(),  *)
(* during which nobody else looks, goes from one system call to the next.  *)
(* send(), which changes nothing here, is left out.                        *)
(*                                                                         *)
(* The kernel is not code of the repository.  It keeps the frames that     *)
(* arrive on an open socket in their order; select() and read() hold on to *)
(* what they wait for when it is closed; and pipe(), called after          *)
(* socket(), returns the larger descriptors.                               *)
(***************************************************************************)
EXTENDS Naturals, Sequences, FiniteSets

CONSTANTS
    MaxFrames,   \* bound: frames that arrive
    MaxSignals,  \* bound: signals handled on the receiving thread
    CloseFails   \* whether ::close(fd) may report an error

ASSUME InterfaceAssumption ==
    MaxFrames \in Nat /\ MaxSignals \in Nat /\ CloseFails \in BOOLEAN

None        == "none"
Descriptors == {"socket", "pipe"}

VARIABLES
    isOpen, fd, pipeFds,  \* of SocketCanInterface; descriptors or None (-1)
    kernel,               \* the descriptors that exist
    woken,                \* whether close() has written to the pipe
    queue,                \* frames that wait in the socket, numbered
    control,              \* where the thread is that opens and closes
    rx,                   \* where receive() is, and its fd_set
    got,                  \* history: frames that receive() returned, 0 for none
    arrived, signals      \* how many frames and signals there were

members == <<isOpen, fd, pipeFds>>
history == <<arrived, signals>>
vars    == <<members, kernel, woken, queue, control, rx, got, history>>

(* The next access of each thread; "select" and "read" are inside the call.*)
ControlPC == {"idle", "bind", "pipe", "abandon", "markOpen",
              "write", "closePipe", "forgetPipe", "closeFd", "forgetFd", "markClosed"}
ReceivePC == {"idle", "setFd", "setPipe", "bound", "enter", "select", "isWoken",
              "isOpen", "fd", "read"}

(* At rest the interface has a socket just when it calls itself open.      *)
TypeOK ==
    /\ isOpen \in BOOLEAN
    /\ fd \in {"socket", None}
    /\ pipeFds \in {"pipe", None}
    /\ control = "idle" => (isOpen <=> fd # None)
    /\ kernel \in SUBSET Descriptors
    /\ woken \in BOOLEAN
    /\ queue \in Seq(1 .. MaxFrames)
    /\ control \in ControlPC
    /\ rx \in [pc : ReceivePC, watched : SUBSET Descriptors]
    /\ got \in Seq(0 .. MaxFrames)
    /\ arrived \in 0 .. MaxFrames
    /\ signals \in 0 .. MaxSignals

Init ==
    /\ isOpen = FALSE /\ fd = None /\ pipeFds = None
    /\ kernel = {} /\ woken = FALSE /\ queue = <<>>
    /\ control = "idle"
    /\ rx = [pc |-> "idle", watched |-> {}]
    /\ got = <<>> /\ arrived = 0 /\ signals = 0

----------------------------------------------------------------------------
(* open(); the dispatcher calls it while no thread receives                *)

OpenSocket(ok) ==
    /\ control = "idle" /\ rx.pc = "idle"
    /\ ~isOpen
    /\ IF ok
       THEN /\ fd' = "socket"
            /\ kernel' = kernel \cup {"socket"}
            /\ queue' = <<>>
            /\ control' = "bind"
       ELSE fd' = None /\ UNCHANGED <<kernel, queue, control>>
    /\ UNCHANGED <<isOpen, pipeFds, woken, rx, got, history>>

(* The name of the interface is looked up, and the socket bound to it.     *)
Bind(ok) ==
    /\ control = "bind"
    /\ control' = IF ok THEN "pipe" ELSE "abandon"
    /\ UNCHANGED <<members, kernel, woken, queue, rx, got, history>>

MakePipe(ok) ==
    /\ control = "pipe"
    /\ IF ok
       THEN /\ pipeFds' = "pipe"
            /\ kernel' = kernel \cup {"pipe"}
            /\ woken' = FALSE
            /\ control' = "markOpen"
       ELSE control' = "abandon" /\ UNCHANGED <<pipeFds, kernel, woken>>
    /\ UNCHANGED <<isOpen, fd, queue, rx, got, history>>

(* Mutant: the socket is forgotten, but not closed.                        *)
AbandonOpen ==
    /\ control = "abandon"
    /\ fd' = None
    /\ control' = "idle"
    /\ UNCHANGED <<isOpen, pipeFds, kernel, woken, queue, rx, got, history>>

(* After a failure the socket is closed again.                             *)
Abandon ==
    /\ control = "abandon"
    /\ kernel' = kernel \ {"socket"}
    /\ fd' = None
    /\ control' = "idle"
    /\ UNCHANGED <<isOpen, pipeFds, woken, queue, rx, got, history>>

MarkOpen ==
    /\ control = "markOpen"
    /\ isOpen' = TRUE
    /\ control' = "idle"
    /\ UNCHANGED <<fd, pipeFds, kernel, woken, queue, rx, got, history>>

----------------------------------------------------------------------------
(* close()                                                                 *)

Close ==
    /\ control = "idle" /\ isOpen
    /\ control' = IF pipeFds # None THEN "write" ELSE "closeFd"
    /\ UNCHANGED <<members, kernel, woken, queue, rx, got, history>>

Write ==
    /\ control = "write"
    /\ woken' = TRUE
    /\ control' = "closePipe"
    /\ UNCHANGED <<members, kernel, queue, rx, got, history>>

ClosePipe ==
    /\ control = "closePipe"
    /\ kernel' = kernel \ {"pipe"}
    /\ control' = "forgetPipe"
    /\ UNCHANGED <<members, woken, queue, rx, got, history>>

ForgetPipe ==
    /\ control = "forgetPipe"
    /\ pipeFds' = None
    /\ control' = "closeFd"
    /\ UNCHANGED <<isOpen, fd, kernel, woken, queue, rx, got, history>>

(* The descriptor is gone even if ::close() reports an error; but then the *)
(* interface stays marked as open.                                         *)
CloseFd(ok) ==
    /\ control = "closeFd"
    /\ ~ok => CloseFails
    /\ kernel' = kernel \ {"socket"}
    /\ control' = IF ok THEN "forgetFd" ELSE "idle"
    /\ UNCHANGED <<members, woken, queue, rx, got, history>>

(* Mutant: the descriptor is not forgotten.                                *)
ForgetFdNot ==
    /\ control = "forgetFd"
    /\ control' = "markClosed"
    /\ UNCHANGED <<members, kernel, woken, queue, rx, got, history>>

ForgetFd ==
    /\ control = "forgetFd"
    /\ fd' = None
    /\ control' = "markClosed"
    /\ UNCHANGED <<isOpen, pipeFds, kernel, woken, queue, rx, got, history>>

MarkClosed ==
    /\ control = "markClosed"
    /\ isOpen' = FALSE
    /\ control' = "idle"
    /\ UNCHANGED <<fd, pipeFds, kernel, woken, queue, rx, got, history>>

----------------------------------------------------------------------------
(* receive()                                                               *)

Goto(pc) == rx' = [rx EXCEPT !.pc = pc]
Leave    == rx' = [pc |-> "idle", watched |-> {}]
RestUnchanged == UNCHANGED <<members, kernel, woken, queue, control, got, history>>

Call ==
    /\ rx.pc = "idle" /\ isOpen
    /\ Goto("setFd")
    /\ RestUnchanged

(* FD_SET() of a descriptor that is -1 by now sets no bit that counts.     *)
SetFd ==
    /\ rx.pc = "setFd"
    /\ rx' = [pc |-> "setPipe", watched |-> {fd} \ {None}]
    /\ RestUnchanged

(* Mutant: the socket is left out of the set.                              *)
SetPipeOnly ==
    /\ rx.pc = "setPipe"
    /\ rx' = [pc |-> "bound", watched |-> {pipeFds} \ {None}]
    /\ RestUnchanged

SetPipe ==
    /\ rx.pc = "setPipe"
    /\ rx' = [pc |-> "bound", watched |-> rx.watched \cup ({pipeFds} \ {None})]
    /\ RestUnchanged

(* select() looks at no descriptor above max(fd, pipeFds[0]).              *)
Bound ==
    /\ rx.pc = "bound"
    /\ rx' = [pc |-> "enter",
              watched |-> rx.watched \cap (IF pipeFds # None THEN Descriptors
                                           ELSE {fd})]
    /\ RestUnchanged

(* select() refuses a set with a descriptor that does not exist.           *)
Enter ==
    /\ rx.pc = "enter"
    /\ IF rx.watched \subseteq kernel THEN Goto("select") ELSE Leave
    /\ RestUnchanged

Readable == (IF queue # <<>> THEN {"socket"} ELSE {})
            \cup (IF woken THEN {"pipe"} ELSE {})

SelectReturns ==
    /\ rx.pc = "select"
    /\ rx.watched \cap Readable # {}
    /\ rx' = [pc |-> "isWoken", watched |-> rx.watched \cap Readable]
    /\ RestUnchanged

(* A signal handler has run on this thread: select() fails with EINTR, for *)
(* which receive() returns SUCCESS.                                        *)
Interrupted ==
    /\ rx.pc = "select"
    /\ signals < MaxSignals /\ signals' = signals + 1
    /\ got' = Append(got, 0)
    /\ Leave
    /\ UNCHANGED <<members, kernel, woken, queue, control, arrived>>

(* FD_ISSET(pipeFds[0]); of -1, it may return anything.                    *)
IsWoken(answer) ==
    /\ rx.pc = "isWoken"
    /\ pipeFds # None => answer = ("pipe" \in rx.watched)
    /\ IF answer THEN Leave ELSE Goto("isOpen")
    /\ RestUnchanged

IsOpen ==
    /\ rx.pc = "isOpen"
    /\ IF isOpen THEN Goto("fd") ELSE Leave
    /\ RestUnchanged

(* Mutant: an error of read() is not noticed.                              *)
EnterReadUnchecked ==
    /\ rx.pc = "fd"
    /\ IF fd \in kernel
       THEN Goto("read") /\ UNCHANGED got
       ELSE Leave /\ got' = Append(got, 0)
    /\ UNCHANGED <<members, kernel, woken, queue, control, history>>

EnterRead ==
    /\ rx.pc = "fd"
    /\ IF fd \in kernel THEN Goto("read") ELSE Leave
    /\ RestUnchanged

(* read() waits for a frame if there is none.                              *)
Read ==
    /\ rx.pc = "read"
    /\ queue # <<>>
    /\ queue' = Tail(queue)
    /\ got' = Append(got, Head(queue))
    /\ Leave
    /\ UNCHANGED <<members, kernel, woken, control, history>>

----------------------------------------------------------------------------
(* The bus.  A socket gets frames once it is bound; those that come while  *)
(* open() gives it up are lost with it.                                    *)
Arrive ==
    /\ "socket" \in kernel /\ control \notin {"bind", "abandon"}
    /\ arrived < MaxFrames
    /\ arrived' = arrived + 1
    /\ queue' = Append(queue, arrived')
    /\ UNCHANGED <<members, kernel, woken, control, rx, got, signals>>

Opening ==
    \/ \E ok \in BOOLEAN : Bind(ok) \/ MakePipe(ok)
    \/ Abandon \/ MarkOpen

Closing ==
    \/ Write \/ ClosePipe \/ ForgetPipe
    \/ \E ok \in BOOLEAN : CloseFd(ok)
    \/ ForgetFd \/ MarkClosed

Receive ==
    \/ Call \/ SetFd \/ SetPipe \/ Bound \/ Enter \/ SelectReturns
    \/ \E answer \in BOOLEAN : IsWoken(answer)
    \/ IsOpen \/ EnterRead \/ Read

Next ==
    \/ \E ok \in BOOLEAN : OpenSocket(ok)
    \/ Opening \/ Close \/ Closing \/ Receive \/ Interrupted \/ Arrive

Spec == Init /\ [][Next]_vars

(* open() and close() run to their ends, and the dispatcher calls receive()*)
(* until the interface is closed; frames need not arrive, nor signals.     *)
FairSpec == Spec /\ WF_vars(Opening) /\ WF_vars(Closing) /\ WF_vars(Receive)

----------------------------------------------------------------------------
(* receive() returns SUCCESS with a frame that came in, no frame twice and *)
(* no frame before an earlier one.  A signal may make it return SUCCESS    *)
(* without a frame, which SuccessMeansFrame forbids; nothing else may.     *)
FramesInOrder ==
    /\ Cardinality({i \in DOMAIN got : got[i] = 0}) <= signals
    /\ \A i, j \in DOMAIN got : i < j /\ got[i] # 0 /\ got[j] # 0 => got[i] < got[j]

(* receive() returns SUCCESS when a frame is received, otherwise an error  *)
(* code (its documentation).                                               *)
SuccessMeansFrame == \A i \in DOMAIN got : got[i] # 0

(* However opening and closing went, also in the middle of a receive(), a  *)
(* closed interface has left no descriptor behind.                         *)
NothingLeaks == control = "idle" /\ ~isOpen => kernel = {}

(* A frame that came in is returned, unless the socket is closed first:    *)
(* no wake-up is missed, and a signal loses no frame.                      *)
EveryFrameReturned ==
    \A n \in 1 .. MaxFrames :
        (\E i \in DOMAIN queue : queue[i] = n)
            ~> "socket" \notin kernel \/ \E i \in DOMAIN got : got[i] = n

(* close() interrupts a receive() that is under way (its documentation),   *)
(* whether or not another frame arrives.                                   *)
CloseInterrupts == ~isOpen ~> isOpen \/ rx.pc = "idle"
=============================================================================
