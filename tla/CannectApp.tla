----------------------------- MODULE CannectApp -----------------------------
(***************************************************************************)
(* Cannect: the main thread, which starts and stops the dispatcher and     *)
(* waits for a signal in waitSignal(), and the signal handler, which runs  *)
(* whenever a signal comes and does not take gMutex.  The dispatcher is    *)
(* only known by whether it runs; CanDispatcher has the rest.              *)
(***************************************************************************)

CONSTANT Signals  \* SIGINT and SIGTERM: each runs its handler on its own

ASSUME SignalsAssumption == Signals # {}

VARIABLES
    alive,        \* whether the object has not been destroyed yet
    running,      \* Cannect::running
    dispatching,  \* whether the dispatcher runs
    gRunning,
    installed,    \* the signals that have signalHandler for a handler
    main,         \* the next statement of the main thread
    handler,      \* the next statement of each signal's handler
    signalled     \* history: a handler ran after waitSignal() had set the flag

appVars == <<alive, running, dispatching, gRunning, installed, main, handler, signalled>>

MainPC == {"idle", "started", "install", "check", "sleep", "asleep", "stop", "stopped"}

(* waitSignal() looks at the flag only once it handles both signals.       *)
(* Outside of the operations `running' says whether the dispatcher runs:   *)
(* start() and stop() are not refused while they have work to do.  The     *)
(* rest is typing.                                                         *)
AppTypeOK ==
    /\ alive \in BOOLEAN /\ running \in BOOLEAN /\ dispatching \in BOOLEAN
    /\ gRunning \in BOOLEAN /\ signalled \in BOOLEAN
    /\ installed \in SUBSET Signals
    /\ main \in [pc : MainPC, waits : BOOLEAN]
    /\ main.pc \in {"check", "sleep", "asleep"} => installed = Signals
    /\ main.pc = "idle" => (running <=> dispatching)
    /\ handler \in [Signals -> {"idle", "notify"}]

AppInit ==
    /\ alive = TRUE
    /\ running = FALSE /\ dispatching = FALSE
    /\ gRunning = FALSE
    /\ installed = {}
    /\ main = [pc |-> "idle", waits |-> FALSE]
    /\ handler = [s \in Signals |-> "idle"]
    /\ signalled = FALSE

MainGoto(pc) == main' = [pc |-> pc, waits |-> main.waits /\ pc # "idle"]

(* The main thread is outside of all operations and may call one.          *)
Ready == main.pc = "idle" /\ alive

----------------------------------------------------------------------------
(* start() and stop()                                                      *)

Start ==
    /\ Ready
    /\ IF running THEN UNCHANGED <<main, dispatching>>
                  ELSE dispatching' = TRUE /\ MainGoto("started")
    /\ UNCHANGED <<alive, running, gRunning, installed, handler, signalled>>

Started ==
    /\ main.pc = "started"
    /\ running' = TRUE
    /\ MainGoto("idle")
    /\ UNCHANGED <<alive, dispatching, gRunning, installed, handler, signalled>>

(* Mutant: stop() takes down its flag only.                                *)
StopFlagOnly(next) ==
    /\ MainGoto(IF running THEN "stopped" ELSE next)
    /\ UNCHANGED dispatching

(* stop() up to its return to `next', or up to `running = false'.          *)
StopOr(next) ==
    /\ dispatching' = (dispatching /\ ~running)
    /\ MainGoto(IF running THEN "stopped" ELSE next)

Stop ==
    /\ Ready
    /\ StopOr("idle")
    /\ UNCHANGED <<alive, running, gRunning, installed, handler, signalled>>

Stopped ==
    /\ main.pc = "stopped"
    /\ running' = FALSE
    /\ MainGoto("idle")
    /\ UNCHANGED <<alive, dispatching, gRunning, installed, handler, signalled>>

(* Mutant: no destructor stops anything.                                   *)
DestroyOnly ==
    /\ Ready
    /\ alive' = FALSE
    /\ UNCHANGED <<running, dispatching, gRunning, installed, main, handler, signalled>>

(* ~Cannect(), and ~CanDispatcher() after it: each calls its stop().       *)
Destroy ==
    /\ Ready
    /\ alive' = FALSE
    /\ dispatching' = FALSE
    /\ MainGoto(IF running THEN "stopped" ELSE "idle")
    /\ UNCHANGED <<running, gRunning, installed, handler, signalled>>

----------------------------------------------------------------------------
(* waitSignal()                                                            *)

Wait ==
    /\ Ready
    /\ gRunning' = TRUE
    /\ signalled' = FALSE
    /\ main' = [pc |-> "install", waits |-> TRUE]
    /\ UNCHANGED <<alive, running, dispatching, installed, handler>>

(* One signal() after the other; a later call finds both installed.        *)
Install(s) ==
    /\ main.pc = "install"
    /\ s \notin installed \/ installed = Signals
    /\ installed' = installed \cup {s}
    /\ MainGoto(IF installed' = Signals THEN "check" ELSE "install")
    /\ UNCHANGED <<alive, running, dispatching, gRunning, handler, signalled>>

(* gCv.wait(): look at the flag, ...                                       *)
Check ==
    /\ main.pc = "check"
    /\ MainGoto(IF gRunning THEN "sleep" ELSE "stop")
    /\ UNCHANGED <<alive, running, dispatching, gRunning, installed, handler, signalled>>

(* ... fall asleep, ...                                                    *)
Sleep ==
    /\ main.pc = "sleep"
    /\ MainGoto("asleep")
    /\ UNCHANGED <<alive, running, dispatching, gRunning, installed, handler, signalled>>

(* Mutant: a woken thread does not look at the flag again.                 *)
SpuriousWakeUnchecked ==
    /\ main.pc = "asleep"
    /\ MainGoto("stop")
    /\ UNCHANGED <<alive, running, dispatching, gRunning, installed, handler, signalled>>

(* ... and, as C++ allows, wake up for no reason, to look at it again.     *)
SpuriousWake ==
    /\ main.pc = "asleep"
    /\ MainGoto("check")
    /\ UNCHANGED <<alive, running, dispatching, gRunning, installed, handler, signalled>>

WaitStops ==
    /\ main.pc = "stop"
    /\ StopOr("idle")
    /\ UNCHANGED <<alive, running, gRunning, installed, handler, signalled>>

----------------------------------------------------------------------------
(* signalHandler(); a signal without it ends the process                   *)

Signal(s) ==
    /\ s \in installed
    /\ handler[s] = "idle"
    /\ gRunning' = FALSE
    /\ signalled' = TRUE
    /\ handler' = [handler EXCEPT ![s] = "notify"]
    /\ UNCHANGED <<alive, running, dispatching, installed, main>>

(* Mutant: the handler sets the flag and does not notify.                  *)
NotifyNot(s) ==
    /\ handler[s] = "notify"
    /\ handler' = [handler EXCEPT ![s] = "idle"]
    /\ UNCHANGED <<alive, running, dispatching, gRunning, installed, main, signalled>>

(* notify_one() reaches a thread that is asleep, and no other.             *)
Notify(s) ==
    /\ handler[s] = "notify"
    /\ handler' = [handler EXCEPT ![s] = "idle"]
    /\ IF main.pc = "asleep" THEN MainGoto("check") ELSE UNCHANGED main
    /\ UNCHANGED <<alive, running, dispatching, gRunning, installed, signalled>>

----------------------------------------------------------------------------
(* The steps that the main thread takes once it is inside an operation.    *)
Proceeds ==
    \/ Started \/ Stopped
    \/ \E s \in Signals : Install(s)
    \/ Check \/ Sleep \/ WaitStops

----------------------------------------------------------------------------
(* waitSignal() ends for a signal that came after its call, and not for a  *)
(* wake-up without cause or the late notification of an earlier signal.    *)
WaitMeansSignalled == main.pc = "stop" => signalled

(* One signal ends a waitSignal(), whenever it comes, but for the moment   *)
(* between the look at the flag and the sleep: there its notification may  *)
(* come too early, and the thread sleeps on with the flag down.            *)
OneSignalSuffices ==
    /\ main.waits /\ ~gRunning /\ main.pc # "sleep"
    /\ main.pc = "asleep" => \E s \in Signals : handler[s] = "notify"
    ~> ~main.waits
=============================================================================
