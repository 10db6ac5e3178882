--------------------------- MODULE HookLifecycle ---------------------------
(***************************************************************************)
(* apifwrd.dll in one process, from DLL_PROCESS_ATTACH to the unmapping    *)
(* after DLL_PROCESS_DETACH: DllMain, start_hook and stop_hook, and the    *)
(* MinHook calls below them.                                               *)
(*                                                                         *)
(* The hook items 1 .. Spooler are functions of WINSPOOL.DRV, the next Usb *)
(* ones functions of BXLPDIR.DLL.  "jump" is what the process executes:    *)
(* the functions which begin with a jump to their detour; "enabled" what   *)
(* MinHook believes.  DllMain runs under the loader lock: no other thread  *)
(* loads or frees a library meanwhile.                                     *)
(*                                                                         *)
(* "inTime", "misread" and "failures" are history.  HookFirst,             *)
(* OneItemTooFar, StopAtFailure and NothingLeftToRestore are slips the     *)
(* code could have made in place of their neighbours.                      *)
(***************************************************************************)
EXTENDS Naturals, FiniteSets

CONSTANTS
    Spooler, Usb,       \* numbers of hook items
    DontHookIfConnectionFailed,
    MaxFailures         \* bound: failures of MinHook's calls

ASSUME ConstantsAssumption ==
    /\ Spooler \in Nat \ {0} /\ Usb \in Nat
    /\ DontHookIfConnectionFailed \in BOOLEAN
    /\ MaxFailures \in Nat

VARIABLES
    pc,         \* where DllMain is
    item,       \* the hook item of the loop in start_hook or stop_hook
    hookable,   \* the process has one of the names of _with_hook
    ready,      \* _bxprinters and _api are set up
    preloaded,  \* start_hook's own references to libraries
    appLibs,    \* the application's references
    heap,       \* MinHook is initialised
    created, enabled,   \* its table: items with an entry; isEnabled
    original,   \* items whose fp<function> is set
    stale,      \* entries whose function has been unmapped
    jump,
    inTime,     \* items whose library was there for start_hook, and stayed
    misread,    \* the name of the process was read wrongly once
    failures

vars == <<pc, item, hookable, ready, preloaded, appLibs, heap, created, enabled,
          original, stale, jump, inTime, misread, failures>>

mh == <<heap, created, enabled, original, stale, jump>>
libs == <<preloaded, appLibs>>

Items == 1 .. Spooler + Usb
Libs == {"WINSPOOL.DRV", "BXLPDIR.DLL"}
LibOf(i) == IF i <= Spooler THEN "WINSPOOL.DRV" ELSE "BXLPDIR.DLL"
ItemsOf(L) == {i \in Items : LibOf(i) \in L}

Present(i) == LibOf(i) \in preloaded \cup appLibs

(* A call of MinHook fails: no memory, or no access to the code.           *)
Failure == failures < MaxFailures /\ failures' = failures + 1

-----------------------------------------------------------------------------
(* The application loads and frees libraries while DllMain is not running. *)

AppLoads(l) ==
    /\ pc \in {"out", "attached"}
    /\ l \notin appLibs
    /\ appLibs' = appLibs \cup {l}
    /\ stale' \in IF l \in preloaded THEN {stale} ELSE {stale, stale \ ItemsOf({l})}
    /\ UNCHANGED <<pc, item, hookable, ready, preloaded, heap, created, enabled,
                   original, jump, inTime, misread, failures>>

(* A library without references is unmapped, with the jumps in it.         *)
Unmap(l) ==
    /\ stale' = stale \cup (created \cap ItemsOf({l}))
    /\ jump' = jump \ ItemsOf({l})
    /\ inTime' = inTime \ ItemsOf({l})

AppFrees(l) ==
    /\ pc \in {"out", "attached"}
    /\ l \in appLibs
    /\ appLibs' = appLibs \ {l}
    /\ IF l \in preloaded THEN UNCHANGED <<stale, jump, inTime>> ELSE Unmap(l)
    /\ UNCHANGED <<pc, item, hookable, ready, preloaded, heap, created, enabled,
                   original, misread, failures>>

-----------------------------------------------------------------------------
(* DLL_PROCESS_ATTACH.                                                     *)

(* IsHookProcess: when EnumProcessModules fails, the name is compared      *)
(* uninitialised.                                                          *)
IsHookProcess(answer) ==
    \/ answer = hookable /\ UNCHANGED misread
    \/ answer # hookable /\ misread' = TRUE

HookFirst == "preload"
First == "connect"

Attach ==
    /\ pc = "out"
    /\ ready' = [ready EXCEPT !.list = TRUE]
    /\ \E answer \in BOOLEAN :
          /\ IsHookProcess(answer)
          /\ pc' = IF answer THEN First ELSE "attached"
    /\ UNCHANGED <<item, hookable, libs, mh, inTime, failures>>

(* thrift_connect, which sets up _api whether it connects or not.          *)
Connect ==
    /\ pc = "connect"
    /\ ready' = [ready EXCEPT !.api = TRUE]
    /\ \E connected \in BOOLEAN :
          pc' = IF ~connected /\ DontHookIfConnectionFailed THEN "attached"
                ELSE "preload"
    /\ UNCHANGED <<item, hookable, libs, mh, inTime, misread, failures>>

(* start_hook: LoadLibraryA of _preloaded_dlls.                            *)
Preload ==
    /\ pc = "preload"
    /\ pc' = "initialize"
    /\ \/ preloaded' = {"WINSPOOL.DRV"} /\ UNCHANGED failures
       \/ Failure /\ UNCHANGED preloaded
    /\ inTime' = {i \in Items : LibOf(i) \in preloaded' \cup appLibs}
    /\ UNCHANGED <<item, hookable, ready, appLibs, mh, misread>>

(* MH_Initialize.  Without it start_hook returns false, which DllMain does *)
(* not look at.                                                            *)
Initialize ==
    /\ pc = "initialize"
    /\ \/ heap' = TRUE /\ pc' = "create" /\ item' = 1 /\ UNCHANGED failures
       \/ Failure /\ pc' = "attached" /\ UNCHANGED <<heap, item>>
    /\ UNCHANGED <<hookable, ready, libs, created, enabled, original, stale, jump,
                   inTime, misread>>

(* The loop of start_hook goes on to the next item, or ends.               *)
OneItemTooFar ==
    IF item <= Spooler + Usb THEN pc' = "create" /\ item' = item + 1
    ELSE pc' = "attached" /\ UNCHANGED item
NextItem ==
    IF item < Spooler + Usb THEN pc' = "create" /\ item' = item + 1
    ELSE pc' = "attached" /\ UNCHANGED item

(* A failure is noted in the result, and the loop goes on.                 *)
StopAtFailure == pc' = "attached" /\ UNCHANGED item
AfterFailure == NextItem

(* MH_CreateHookApi, which also sets the pointer to the original function. *)
Create ==
    /\ pc = "create"
    /\ item <= Spooler + Usb
    /\ Present(item)
    /\ \/ /\ created' = created \cup {item}
          /\ original' = original \cup {item}
          /\ pc' = "enable"
          /\ UNCHANGED <<item, failures>>
       \/ /\ Failure
          /\ AfterFailure
          /\ UNCHANGED <<created, original>>
    /\ UNCHANGED <<hookable, ready, libs, heap, enabled, stale, jump, inTime, misread>>

(* The library of the item is not there: the item stays unhooked.          *)
CreateSkips ==
    /\ pc = "create"
    /\ item > Spooler + Usb \/ ~Present(item)
    /\ NextItem
    /\ UNCHANGED <<hookable, ready, libs, mh, inTime, misread, failures>>

(* MH_EnableHook.                                                          *)
Enable ==
    /\ pc = "enable"
    /\ \/ /\ jump' = jump \cup {item}
          /\ enabled' = enabled \cup {item}
          /\ NextItem
          /\ UNCHANGED failures
       \/ /\ Failure
          /\ AfterFailure
          /\ UNCHANGED <<jump, enabled>>
    /\ UNCHANGED <<hookable, ready, libs, heap, created, original, stale, inTime,
                   misread>>

-----------------------------------------------------------------------------
(* DLL_PROCESS_DETACH.                                                     *)

(* IsHookProcess is asked again, not whether hooks have been installed.    *)
Detach ==
    /\ pc = "attached"
    /\ \E answer \in BOOLEAN :
          /\ IsHookProcess(answer)
          /\ pc' = IF answer THEN "disable" ELSE "gone"
    /\ item' = 1
    /\ UNCHANGED <<hookable, ready, libs, mh, inTime, failures>>

(* stop_hook: MH_DisableHook of every item whose function is found where   *)
(* it was; a failure is passed over.                                       *)
CanDisable(i) == heap /\ Present(i) /\ i \in enabled \ stale

Disable ==
    /\ pc = "disable"
    /\ item <= Spooler + Usb
    /\ \/ /\ CanDisable(item)
          /\ jump' = jump \ {item}
          /\ enabled' = enabled \ {item}
          /\ UNCHANGED failures
       \/ CanDisable(item) /\ Failure /\ UNCHANGED <<jump, enabled>>
       \/ ~CanDisable(item) /\ UNCHANGED <<jump, enabled, failures>>
    /\ item' = item + 1
    /\ UNCHANGED <<pc, hookable, ready, libs, heap, created, original, stale, inTime,
                   misread>>

(* FreeLibrary of the preloaded libraries.                                 *)
Free ==
    /\ pc = "disable"
    /\ item > Spooler + Usb
    /\ pc' = "uninitialize"
    /\ preloaded' = {}
    /\ IF preloaded \subseteq appLibs THEN UNCHANGED <<stale, jump, inTime>>
       ELSE Unmap("WINSPOOL.DRV")
    /\ UNCHANGED <<item, hookable, ready, appLibs, heap, created, enabled, original,
                   misread, failures>>

(* MH_Uninitialize restores, in the order of its table, what is still      *)
(* enabled, up to the first function it cannot write to: one it has no     *)
(* access to, or one whose library is gone, unless something else is now   *)
(* mapped there.                                                           *)
NothingLeftToRestore == {}
LeftEnabled == enabled

Restored(unwritable) ==
    {i \in LeftEnabled : \A j \in unwritable : i < j}

Uninitialize ==
    /\ pc = "uninitialize"
    /\ \E bad \in SUBSET (LeftEnabled \ stale), unmapped \in SUBSET (LeftEnabled \cap stale) :
          /\ Cardinality(bad) <= 1
          /\ IF bad = {} THEN UNCHANGED failures ELSE Failure
          /\ jump' = jump \ Restored(bad \cup unmapped)
          /\ enabled' = enabled \ Restored(bad \cup unmapped)
          /\ IF bad \cup unmapped = {} THEN heap' = FALSE /\ created' = {}
             ELSE UNCHANGED <<heap, created>>
    /\ pc' = "gone"
    /\ UNCHANGED <<item, hookable, ready, libs, original, stale, inTime, misread>>

-----------------------------------------------------------------------------
Init ==
    /\ pc = "out"
    /\ item = 1
    /\ hookable \in BOOLEAN
    /\ ready = [list |-> FALSE, api |-> FALSE]
    /\ preloaded = {}
    /\ appLibs \in SUBSET Libs
    /\ heap = FALSE
    /\ created = {} /\ enabled = {} /\ original = {} /\ stale = {} /\ jump = {}
    /\ inTime = {}
    /\ misread = FALSE
    /\ failures = 0

Next ==
    \/ \E l \in Libs : AppLoads(l)
    \/ \E l \in Libs : AppFrees(l)
    \/ Attach \/ Connect \/ Preload \/ Initialize
    \/ Create \/ CreateSkips \/ Enable
    \/ Detach \/ Disable \/ Free \/ Uninitialize

Spec == Init /\ [][Next]_vars

-----------------------------------------------------------------------------
(* Properties.                                                             *)

Points == {"out", "connect", "preload", "initialize", "create", "enable",
           "attached", "disable", "uninitialize", "gone"}

(* Every variable has its type; MinHook is asked for items which exist.    *)
TypeOK ==
    /\ pc \in Points
    /\ item \in 1 .. Spooler + Usb + 1
    /\ pc \in {"create", "enable"} => item \in Items
    /\ hookable \in BOOLEAN
    /\ ready \in [list : BOOLEAN, api : BOOLEAN]
    /\ preloaded \in SUBSET {"WINSPOOL.DRV"} /\ appLibs \in SUBSET Libs
    /\ heap \in BOOLEAN
    /\ created \in SUBSET Items /\ enabled \in SUBSET Items
    /\ original \in SUBSET Items /\ stale \in SUBSET Items
    /\ jump \in SUBSET Items /\ inTime \in SUBSET Items
    /\ misread \in BOOLEAN
    /\ failures \in 0 .. MaxFailures

(* A thread which runs into a detour, already while start_hook is still    *)
(* hooking the others, finds the original function, the list of handles    *)
(* and the client set up.                                                  *)
DetoursAreReady == jump # {} => jump \subseteq original /\ ready.list /\ ready.api

(* Once the DLL is unmapped nothing jumps into it, even though stop_hook   *)
(* passes over a function it cannot restore and frees the library before   *)
(* MH_Uninitialize gets a second chance: as long as the name of the        *)
(* process is read rightly and no more than one call fails.                *)
NoDanglingJump == pc = "gone" /\ ~misread /\ failures <= 1 => jump = {}

(* An item which fails does not keep the others from being hooked: all     *)
(* whose library was there in time are, but for one per failure.           *)
HookedInTime ==
    pc = "attached" /\ heap => Cardinality(inTime \ jump) <= failures

-----------------------------------------------------------------------------
(* The inductive invariant behind DetoursAreReady and NoDanglingJump.      *)

(* What a detour needs is set up before the first function is hooked.      *)
ReadyBeforeHooks ==
    /\ pc \in {"connect", "preload", "initialize", "create", "enable"} => ready.list
    /\ pc \in {"preload", "initialize", "create", "enable"} => ready.api
    /\ pc \in {"create", "enable"} => heap
    /\ pc = "enable" => item \in created
    /\ pc \in {"out", "connect", "preload", "initialize"} => created = {}

Attaching == {"out", "connect", "preload", "initialize", "create", "enable"}

(* Only what MinHook has in its table as enabled jumps to a detour; an     *)
(* entry whose library is gone, or has come back elsewhere, is stale, and  *)
(* so are the others of that library.                                      *)
TableMatchesCode ==
    /\ jump \subseteq enabled \ stale
    /\ enabled \subseteq created
    /\ created \subseteq original
    /\ created # {} => heap
    /\ \A i \in created \ stale : Present(i)
    /\ \A i, j \in created : LibOf(i) = LibOf(j) /\ i \in stale => j \in stale
    /\ pc \in Attaching => stale = {}

(* start_hook's own reference keeps WINSPOOL.DRV where it is.              *)
SpoolerStays ==
    /\ preloaded # {} => \A i \in created \cap stale : LibOf(i) = "BXLPDIR.DLL"
    /\ failures = 0 /\ pc \in {"initialize", "create", "enable"} => preloaded # {}
    /\ failures = 0 /\ pc \in {"attached", "disable"} => created = {} \/ preloaded # {}

(* A process which is not to be hooked is left alone.                      *)
LeftAlone ==
    ~misread /\ ~hookable => pc \in {"out", "attached", "gone"} /\ jump = {}

(* What stop_hook has left enabled behind it are items of BXLPDIR.DLL      *)
(* which cannot jump any more, but for one item if one call has failed.    *)
Harmless(j) == j \in stale /\ LibOf(j) = "BXLPDIR.DLL"

DisabledBehind ==
    /\ pc = "uninitialize" => item = Spooler + Usb + 1
    /\ pc \in {"disable", "uninitialize"} =>
          /\ failures = 0 => \A j \in enabled : j < item => Harmless(j)
          /\ failures = 1 =>
                \A i \in jump : i < item =>
                    /\ pc = "disable" => preloaded # {}
                    /\ \A j \in enabled : j < item /\ j # i => Harmless(j)

IInv ==
    /\ TypeOK
    /\ ReadyBeforeHooks
    /\ TableMatchesCode
    /\ SpoolerStays
    /\ LeftAlone
    /\ DisabledBehind
    /\ DetoursAreReady
    /\ NoDanglingJump

=============================================================================
