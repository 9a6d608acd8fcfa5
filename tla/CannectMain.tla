---------------------------- MODULE CannectMain ----------------------------
(***************************************************************************)
(* The command line application: main() as a client of Cannect.  What is   *)
(* read from the command line and printed is left out; what counts is      *)
(* where it makes main() return or throw.  A Cannect object is also used   *)
(* by other programs, which call its operations in any order.              *)
(*                                                                         *)
(* A signal that comes before waitSignal() has installed its handler ends  *)
(* the process at once; the kernel then cleans up, and nothing is left to  *)
(* be modelled.                                                            *)
(***************************************************************************)
EXTENDS CannectApp

CONSTANT Programs  \* "main" for main.cpp, "other" for any other program

ASSUME ProgramsAssumption == Programs \subseteq {"main", "other"}

VARIABLES
    program,  \* which of them runs
    step,     \* the next statement of main()
    code      \* what main() is going to return, or 0

mainVars == <<program, step, code>>
allVars  == <<appVars, mainVars>>

Steps == {"parse", "create", "start", "send", "wait", "stop", "destroy", "exit"}

(* How parsing and each of the commands may end.                           *)
parseOptions       == {"help", "no interface", "run", "throws"}
createInterface    == {"created", "throws"}
executeSendCommand == {"done", "throws"}

MainInit ==
    /\ AppInit
    /\ program \in Programs
    /\ step = "parse" /\ code = 0

Then(next) == step' = next /\ UNCHANGED <<program, code>>

Fail(next) == step' = next /\ code' = 1 /\ UNCHANGED program

Parse(options) ==
    /\ step = "parse"
    /\ \/ options = "help" /\ Then("exit")
       \/ options = "run" /\ Then("create")
       \/ options \in {"no interface", "throws"} /\ Fail("exit")
    /\ UNCHANGED appVars

(* The log file, the interface, the protocol and its handlers; adding them *)
(* to a dispatcher that is new does not fail.                              *)
Create(outcome) ==
    /\ step = "create"
    /\ IF outcome = "created" THEN Then("start") ELSE Fail("exit")
    /\ UNCHANGED appVars

StartApp == step = "start" /\ Start /\ Then("send")

(* A command with arguments that are missing or no numbers throws, with    *)
(* the receive threads running; the objects of main() are then destroyed.  *)
Send(outcome) ==
    /\ step = "send" /\ Ready
    /\ IF outcome = "done" THEN Then("wait") ELSE Fail("destroy")
    /\ UNCHANGED appVars

WaitApp    == step = "wait" /\ Wait /\ Then("stop")
StopApp    == step = "stop" /\ Stop /\ Then("destroy")
DestroyApp == step = "destroy" /\ Destroy /\ Then("exit")

(* Inside an operation of Cannect, and in the handlers of signals.         *)
Within ==
    /\ Proceeds \/ SpuriousWake \/ \E s \in Signals : Signal(s) \/ Notify(s)
    /\ UNCHANGED mainVars

MainProceeds ==
    \/ \E options \in parseOptions : Parse(options)
    \/ \E outcome \in createInterface : Create(outcome)
    \/ StartApp
    \/ \E outcome \in executeSendCommand : Send(outcome)
    \/ WaitApp \/ StopApp \/ DestroyApp

Other == (Start \/ Stop \/ Wait \/ Destroy) /\ UNCHANGED mainVars

(* The program has ended.                                                  *)
Over ==
    /\ main.pc = "idle"
    /\ step = "exit" \/ ~alive
    /\ UNCHANGED allVars

MainNext ==
    \/ program = "main" /\ MainProceeds
    \/ program = "other" /\ Other
    \/ Within
    \/ Over

(* The main thread runs unless it is asleep, and signal handlers return;   *)
(* nobody needs to send a signal.                                          *)
MainSpec ==
    /\ MainInit /\ [][MainNext]_allVars
    /\ WF_allVars(program = "main" /\ MainProceeds)
    /\ WF_allVars(Proceeds /\ UNCHANGED mainVars)
    /\ \A s \in Signals : WF_allVars(Notify(s) /\ UNCHANGED mainVars)

----------------------------------------------------------------------------
(* However main() ends, by a return or by an exception in mid-command, no  *)
(* receive thread outlives its objects; and once the application has run,  *)
(* success is reported only for a signal.                                  *)
CleanExit ==
    /\ main.pc = "idle" /\ (step = "exit" \/ ~alive) => ~dispatching
    /\ step = "exit" /\ ~alive /\ code = 0 => signalled
=============================================================================
