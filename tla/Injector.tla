------------------------------ MODULE Injector ------------------------------
(***************************************************************************)
(* The sample's main program (sample/main.cpp): "hook thread_id" injects   *)
(* apifwrd.dll with SetWindowsHookEx, pumps messages until the console's   *)
(* control handler, which runs on a thread of its own, sets _break_loop,   *)
(* and ejects the DLL; "server [port_number]" runs the Thrift server.      *)
(*                                                                         *)
(* The system's part: a hooked thread of the injector's own bitness loads  *)
(* the DLL at its next event, and unloads it some time after the hook is   *)
(* gone.  A hooked thread of the other bitness cannot load it: its event   *)
(* waits until the injector's thread looks at its messages.  When the      *)
(* process ends the system takes back its hooks and its libraries.  What   *)
(* the DLL does in the process that loads it is HookLifecycle.             *)
(*                                                                         *)
(* Names ending in "Slip" are mistakes the code could have made in place   *)
(* of their neighbours.                                                    *)
(***************************************************************************)
EXTENDS Naturals

CONSTANTS
    Threads,        \* the threads of the desktop
    Native,         \* those of the injector's bitness
    Every,          \* thread id 0
    Gone,           \* the id of a thread which does not exist
    Text,           \* an argument which is no number
    Ports,
    DefaultPort,    \* 3900
    NoPort

ASSUME InjectorAssumption ==
    /\ Native \subseteq Threads
    /\ {Every, Gone, Text} \cap Threads = {} /\ Every # Gone
    /\ DefaultPort \in Ports /\ NoPort \notin Ports

VARIABLES
    args,        \* the command line
    at,          \* where the main thread is
    target,      \* threadid
    hmodule,     \* the process has apifwrd.dll loaded
    hooked,      \* the threads which the system's hook covers
    handler,     \* "unset", "set" or "refused" by SetConsoleCtrlHandler
    breakLoop,   \* _break_loop
    closing,     \* the system is ending the process
    dll,         \* threads whose process has loaded the DLL for the hook
    waiting,     \* threads whose event waits for the injector's thread
    port,        \* where the server listens
    result       \* of the process, and what it left to the system to remove

injectorVars ==
    <<args, at, target, hmodule, hooked, handler, breakLoop, closing, dll, waiting,
      port, result>>

HookArgs == [mode : {"hook"}, arg : Threads \cup {Every, Gone, Text}]
ServerArgs == [mode : {"server"}, arg : Ports \cup {NoPort}]
OtherArgs == [mode : {"other"}, arg : {NoPort}]

\* atoi() of a text which is no number is 0.
Atoi(arg) == IF arg = Text THEN Every ELSE arg

\* The threads SetWindowsHookEx covers for an id.
Covers(id) == IF id = Every THEN Threads ELSE {id} \cap Threads

Running == at # "ended"

\* What is removed by the system if the process ends now.
Left == (IF hmodule THEN {"library"} ELSE {})
            \cup (IF hooked # {} THEN {"hook"} ELSE {})

Ends(how) ==
    /\ at' = "ended"
    /\ result' = [how |-> how, left |-> Left]
    /\ hmodule' = FALSE /\ hooked' = {} /\ waiting' = {}
    /\ UNCHANGED <<args, target, handler, breakLoop, closing, dll, port>>

-----------------------------------------------------------------------------
(* The main thread.                                                        *)

StartHook ==
    /\ at = "start" /\ args.mode = "hook"
    /\ target' = Atoi(args.arg)
    /\ at' = "load"
    /\ UNCHANGED <<args, hmodule, hooked, handler, breakLoop, closing, dll,
                   waiting, port, result>>

Usage == at = "start" /\ args.mode = "other" /\ Ends("usage")

LoadsLibrary ==
    /\ at = "load"
    /\ hmodule' = TRUE
    /\ at' = "address"
    /\ UNCHANGED <<args, target, hooked, handler, breakLoop, closing, dll,
                   waiting, port, result>>

FindsAddress ==
    /\ at = "address"
    /\ at' = "hook"
    /\ UNCHANGED <<args, target, hmodule, hooked, handler, breakLoop, closing,
                   dll, waiting, port, result>>

SetsHook ==
    /\ at = "hook"
    /\ Covers(target) # {}
    /\ hooked' = Covers(target)
    /\ at' = "handler"
    /\ UNCHANGED <<args, target, hmodule, handler, breakLoop, closing, dll,
                   waiting, port, result>>

\* One of the three fails: what was loaded is freed, inject_dll() returns
\* false and main() returns 1.  Slip: only the last of them frees it.
FailedSlip(where) == IF where = "hook" THEN FALSE ELSE hmodule
Failed(where) == FALSE

InjectionFails ==
    /\ at \in {"load", "address", "hook"}
    /\ hmodule' = Failed(at)
    /\ at' = "failed"
    /\ UNCHANGED <<args, target, hooked, handler, breakLoop, closing, dll,
                   waiting, port, result>>

ReturnsOne == at = "failed" /\ Ends("failed")

SetsHandler ==
    /\ at = "handler"
    /\ handler' = "set"
    /\ at' = "loop"
    /\ UNCHANGED <<args, target, hmodule, hooked, breakLoop, closing, dll,
                   waiting, port, result>>

\* main() returns 1 here and does not eject.
HandlerRefused ==
    /\ at = "handler"
    /\ handler' = "refused"
    /\ at' = "failed"
    /\ UNCHANGED <<args, target, hmodule, hooked, breakLoop, closing, dll,
                   waiting, port, result>>

\* PeekMessage() lets the calls of threads of the other bitness through.
\* Slip: a loop which only sleeps.
PeekedSlip == waiting
Peeked == {}

\* Where the loop goes on.  Slips: the library is freed first; the flag is
\* read once, before the loop.
NextRoundSlip == IF breakLoop THEN "free" ELSE "loop"
FlagReadOnceSlip == "loop"
NextRound == IF breakLoop THEN "unhook" ELSE "loop"

Round ==
    /\ at = "loop"
    /\ waiting' = Peeked
    /\ at' = NextRound
    /\ UNCHANGED <<args, target, hmodule, hooked, handler, breakLoop, closing,
                   dll, port, result>>

Unhook ==
    /\ at = "unhook"
    /\ hooked' = {} /\ waiting' = {}
    /\ at' = "free"
    /\ UNCHANGED <<args, target, hmodule, handler, breakLoop, closing, dll,
                   port, result>>

FreesLibrary ==
    /\ at = "free"
    /\ hmodule' = FALSE
    /\ at' = "ejected"
    /\ UNCHANGED <<args, target, hooked, handler, breakLoop, closing, dll,
                   waiting, port, result>>

ReturnsZero == at = "ejected" /\ Ends("done")

\* The second argument is converted and dropped: "if (argc==3) atoi(argv[2]);"
ListenPort == DefaultPort

StartServer ==
    /\ at = "start" /\ args.mode = "server"
    /\ port' = ListenPort
    /\ at' = "serving"
    /\ UNCHANGED <<args, target, hmodule, hooked, handler, breakLoop, closing,
                   dll, waiting, result>>

\* listen() throws, for instance because the port is taken; nobody catches.
ListenFails == at = "serving" /\ Ends("terminated")

Main ==
    \/ StartHook \/ Usage \/ LoadsLibrary \/ FindsAddress \/ SetsHook
    \/ InjectionFails \/ ReturnsOne \/ SetsHandler \/ HandlerRefused
    \/ Round \/ Unhook \/ FreesLibrary \/ ReturnsZero \/ StartServer

-----------------------------------------------------------------------------
(* The console's events, on a thread of their own.                         *)

\* CtrlHandler() sets the flag and returns TRUE.  After CTRL_C and CTRL_BREAK
\* that is all; after CLOSE, LOGOFF and SHUTDOWN the system ends the process
\* as soon as the handler has returned.
ControlEvent ==
    /\ Running /\ handler = "set"
    /\ breakLoop' = TRUE
    /\ closing' \in {closing, TRUE}
    /\ UNCHANGED <<args, at, target, hmodule, hooked, handler, dll, waiting,
                   port, result>>

\* Without a handler every event ends the process.
DefaultEvent == Running /\ handler # "set" /\ Ends("killed")

Killed == Running /\ closing /\ Ends("killed")

-----------------------------------------------------------------------------
(* The hooked threads (external).                                          *)

Loads(t) ==
    /\ t \in (hooked \cap Native) \ dll
    /\ dll' = dll \cup {t}
    /\ UNCHANGED <<args, at, target, hmodule, hooked, handler, breakLoop,
                   closing, waiting, port, result>>

Unloads(t) ==
    /\ t \in dll \ hooked
    /\ dll' = dll \ {t}
    /\ UNCHANGED <<args, at, target, hmodule, hooked, handler, breakLoop,
                   closing, waiting, port, result>>

Waits(t) ==
    /\ t \in (hooked \ Native) \ waiting
    /\ waiting' = waiting \cup {t}
    /\ UNCHANGED <<args, at, target, hmodule, hooked, handler, breakLoop,
                   closing, dll, port, result>>

-----------------------------------------------------------------------------
InjectorInit ==
    /\ args \in HookArgs \cup ServerArgs \cup OtherArgs
    /\ at = "start" /\ target = Gone
    /\ hmodule = FALSE /\ hooked = {}
    /\ handler = "unset" /\ breakLoop = FALSE /\ closing = FALSE
    /\ dll = {} /\ waiting = {}
    /\ port = NoPort
    /\ result = [how |-> "none", left |-> {}]

InjectorNext ==
    \/ Main \/ ListenFails
    \/ ControlEvent \/ DefaultEvent \/ Killed
    \/ \E t \in Threads : Loads(t) \/ Unloads(t) \/ Waits(t)

InjectorSpec == InjectorInit /\ [][InjectorNext]_injectorVars

(* The main thread runs, and processes which have loaded the DLL go on     *)
(* handling messages.  Nobody is bound to press CTRL+C.                    *)
InjectorFairness ==
    /\ WF_injectorVars(Main)
    /\ \A t \in Threads : WF_injectorVars(Unloads(t))

InjectorFairSpec == InjectorSpec /\ InjectorFairness

-----------------------------------------------------------------------------
(* Properties.                                                             *)

(* As long as the hook is installed the injector has the library with the  *)
(* hook's function loaded: eject_dll() takes the hook away first.          *)
HookHasItsCode == hooked # {} => hmodule

(* A process which ends by itself has taken its hook and its library back. *)
(* The system has to do so only when it killed the process, or when main() *)
(* returned because it could not install the control handler.              *)
NothingLeftBehind ==
    result.left # {} => result.how = "killed" \/ handler = "refused"

(* CTRL+C and the other events end the process, and the DLL leaves every   *)
(* process, whatever the main thread was at.                               *)
BreakEjects == breakLoop ~> at = "ended" /\ dll = {} /\ waiting = {}

(* A thread of the other bitness does not hang: the pump lets it go on, or *)
(* the hook goes away.                                                     *)
TargetsGoOn == \A t \in Threads : t \in waiting ~> t \notin waiting

=============================================================================
