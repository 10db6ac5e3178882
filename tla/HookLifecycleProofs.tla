------------------------ MODULE HookLifecycleProofs ------------------------
(***************************************************************************)
(* Proofs about the DLL and what brings it into a process.                 *)
(*                                                                         *)
(* HookLifecycle: the inductive invariant IInv holds for any number of     *)
(* hook items and of failing calls, and with it DetoursAreReady and        *)
(* NoDanglingJump; with LoopHooks, HookedInTime.  Injector: the invariant  *)
(* Owns holds for any threads and every command line.                      *)
(*                                                                         *)
(* Why nothing dangles: what MH_DisableHook leaves behind cannot jump any  *)
(* more, because its library has been unmapped, or is the one item whose   *)
(* call has failed.  MH_Uninitialize goes through its table in order and   *)
(* stops at the first entry whose function is gone; such entries are items *)
(* of BXLPDIR.DLL.  If the item left is one of WINSPOOL.DRV it comes first *)
(* in the table; if it is one of BXLPDIR.DLL that library is still there,  *)
(* so that no entry stops MH_Uninitialize.                                 *)
(*                                                                         *)
(* Why a failure costs one item only: LoopHooks, the loop's invariant,     *)
(* counts the items which the loop of start_hook has passed over.          *)
(***************************************************************************)
EXTENDS HookLifecycle, Injector, FiniteSetTheorems, TLAPS

USE ConstantsAssumption

(* MinHook's calls fail no oftener than the bound allows.                  *)
LEMMA FailureCounts ==
    ASSUME failures \in 0 .. MaxFailures, Failure \/ UNCHANGED failures
    PROVE  failures' \in 0 .. MaxFailures
BY DEF Failure

(* The loop of start_hook stays within the table.                          *)
LEMMA NextItemInRange ==
    ASSUME item \in Items, NextItem
    PROVE  /\ item' \in 1 .. Spooler + Usb + 1
           /\ pc' \in {"create", "attached"}
           /\ pc' = "create" => item' \in Items
BY DEF NextItem, Items

-----------------------------------------------------------------------------
(* A library comes and goes: the table stays in step with the code.        *)

(* A library which stays mapped changes nothing.                           *)
LEMMA FramedTable ==
    ASSUME IInv, preloaded' \cup appLibs' = preloaded \cup appLibs,
           UNCHANGED <<created, enabled, original, heap, stale, jump>>,
           pc' \in Attaching => pc \in Attaching
    PROVE  TableMatchesCode'
BY DEF IInv, TableMatchesCode, Attaching, Present

(* A library which is unmapped takes its jumps with it.                    *)
LEMMA UnmapKeepsTable ==
    ASSUME NEW l \in Libs, IInv, Unmap(l),
           preloaded' \cup appLibs' = (preloaded \cup appLibs) \ {l},
           UNCHANGED <<created, enabled, original, heap>>,
           pc' \in Attaching => pc \in Attaching /\ created = {}
    PROVE  TableMatchesCode'
<1>1. \A i \in Items : i \in ItemsOf({l}) <=> LibOf(i) = l
  BY DEF ItemsOf
<1>2. created \subseteq Items
  BY DEF IInv, TypeOK
<1>3. stale' = stale \cup {i \in created : LibOf(i) = l}
  BY <1>1, <1>2 DEF Unmap
<1>4. jump' = {i \in jump : LibOf(i) # l}
  BY <1>1 DEF Unmap, IInv, TypeOK
<1>5. jump' \subseteq enabled' \ stale'
  BY <1>3, <1>4 DEF IInv, TableMatchesCode
<1>6. \A i \in created' \ stale' : Present(i)'
  BY <1>3 DEF IInv, TableMatchesCode, Present
<1>7. \A i, j \in created' : LibOf(i) = LibOf(j) /\ i \in stale' => j \in stale'
  BY <1>3 DEF IInv, TableMatchesCode
<1>8. pc' \in Attaching => stale' = {}
  <2>1. created = {} => stale' = stale
    BY <1>3
  <2> QED
    BY <2>1 DEF IInv, TableMatchesCode
<1> QED
  BY <1>5, <1>6, <1>7, <1>8 DEF IInv, TableMatchesCode

-----------------------------------------------------------------------------
(* Every action keeps the invariant.                                       *)

LEMMA AppLoadsKeeps ==
    ASSUME NEW l \in Libs, IInv, AppLoads(l)
    PROVE  IInv'
<1>1. TypeOK'
  BY DEF IInv, TypeOK, Points, Items, AppLoads, ItemsOf
<1>2. ReadyBeforeHooks'
  BY DEF IInv, ReadyBeforeHooks, AppLoads, ItemsOf
<1>3. TableMatchesCode'
  BY DEF IInv, TypeOK, Items, TableMatchesCode, Present, Attaching, AppLoads, ItemsOf
<1>4. SpoolerStays'
  BY DEF IInv, SpoolerStays, AppLoads, ItemsOf
<1>5. LeftAlone'
  BY DEF IInv, LeftAlone, AppLoads, ItemsOf
<1>6. DisabledBehind'
  BY DEF IInv, DisabledBehind, Harmless, AppLoads, ItemsOf
<1>7. DetoursAreReady'
  BY DEF IInv, DetoursAreReady, AppLoads, ItemsOf
<1>8. NoDanglingJump'
  BY DEF IInv, NoDanglingJump, AppLoads, ItemsOf
<1> QED
  BY <1>1, <1>2, <1>3, <1>4, <1>5, <1>6, <1>7, <1>8 DEF IInv

LEMMA AppFreesKeeps ==
    ASSUME NEW l \in Libs, IInv, AppFrees(l)
    PROVE  IInv'
<1>1. TypeOK'
  BY DEF IInv, TypeOK, Points, Items, AppFrees, Unmap, ItemsOf
<1>2. ReadyBeforeHooks'
  BY DEF IInv, ReadyBeforeHooks, AppFrees, Unmap, ItemsOf
<1>3. TableMatchesCode'
  <2>1. CASE l \in preloaded
    BY <2>1, FramedTable DEF AppFrees
  <2>2. CASE l \notin preloaded
    <3>1. Unmap(l) /\ preloaded' \cup appLibs' = (preloaded \cup appLibs) \ {l}
      BY <2>2 DEF AppFrees
    <3>2. pc' \in Attaching => pc \in Attaching /\ created = {}
      BY DEF AppFrees, IInv, ReadyBeforeHooks, Attaching
    <3> QED
      BY <3>1, <3>2, UnmapKeepsTable DEF AppFrees
  <2> QED
    BY <2>1, <2>2
<1>4. SpoolerStays'
  <2>1. CASE l \in preloaded
    BY <2>1 DEF AppFrees, IInv, SpoolerStays
  <2>2. CASE l \notin preloaded
    <3>1. preloaded # {} => l = "BXLPDIR.DLL"
      BY <2>2 DEF IInv, TypeOK, Libs
    <3>2. stale' = stale \cup (created \cap ItemsOf({l})) /\ created' = created /\ preloaded' = preloaded
      BY <2>2 DEF AppFrees, Unmap
    <3>3. preloaded # {} => \A i \in created' \cap stale' : LibOf(i) = "BXLPDIR.DLL"
      BY <3>1, <3>2 DEF IInv, SpoolerStays, ItemsOf
    <3> QED
      BY <3>2, <3>3 DEF AppFrees, IInv, SpoolerStays
  <2> QED
    BY <2>1, <2>2
<1>5. LeftAlone'
  BY DEF IInv, LeftAlone, AppFrees, Unmap, ItemsOf
<1>6. DisabledBehind'
  BY DEF IInv, DisabledBehind, Harmless, AppFrees, Unmap, ItemsOf
<1>7. DetoursAreReady'
  BY DEF IInv, DetoursAreReady, AppFrees, Unmap, ItemsOf
<1>8. NoDanglingJump'
  BY DEF IInv, NoDanglingJump, AppFrees, Unmap, ItemsOf
<1> QED
  BY <1>1, <1>2, <1>3, <1>4, <1>5, <1>6, <1>7, <1>8 DEF IInv

LEMMA AttachKeeps ==
    ASSUME IInv, Attach
    PROVE  IInv'
<1>1. TypeOK'
  BY DEF IInv, TypeOK, Points, Items, Attach, First, IsHookProcess, libs, mh
<1>2. ReadyBeforeHooks'
  BY DEF IInv, ReadyBeforeHooks, Attach, First, IsHookProcess, libs, mh
<1>3. TableMatchesCode'
  BY DEF IInv, TableMatchesCode, Present, Attaching, Attach, First, IsHookProcess, libs,
         mh
<1>4. SpoolerStays'
  BY DEF IInv, SpoolerStays, ReadyBeforeHooks, Attach, First, IsHookProcess, libs, mh
<1>5. LeftAlone'
  BY DEF IInv, LeftAlone, Attach, First, IsHookProcess, libs, mh
<1>6. DisabledBehind'
  BY DEF IInv, DisabledBehind, Harmless, Attach, First, IsHookProcess, libs, mh
<1>7. DetoursAreReady'
  BY DEF IInv, DetoursAreReady, Attach, First, IsHookProcess, libs, mh
<1>8. NoDanglingJump'
  BY DEF IInv, NoDanglingJump, Attach, First, IsHookProcess, libs, mh
<1> QED
  BY <1>1, <1>2, <1>3, <1>4, <1>5, <1>6, <1>7, <1>8 DEF IInv

LEMMA ConnectKeeps ==
    ASSUME IInv, Connect
    PROVE  IInv'
<1>1. TypeOK'
  BY DEF IInv, TypeOK, Points, Items, Connect, libs, mh
<1>2. ReadyBeforeHooks'
  BY DEF IInv, ReadyBeforeHooks, Connect, libs, mh
<1>3. TableMatchesCode'
  BY DEF IInv, TableMatchesCode, Present, Attaching, Connect, libs, mh
<1>4. SpoolerStays'
  BY DEF IInv, SpoolerStays, ReadyBeforeHooks, Connect, libs, mh
<1>5. LeftAlone'
  BY DEF IInv, LeftAlone, Connect, libs, mh
<1>6. DisabledBehind'
  BY DEF IInv, DisabledBehind, Harmless, Connect, libs, mh
<1>7. DetoursAreReady'
  BY DEF IInv, DetoursAreReady, Connect, libs, mh
<1>8. NoDanglingJump'
  BY DEF IInv, NoDanglingJump, Connect, libs, mh
<1> QED
  BY <1>1, <1>2, <1>3, <1>4, <1>5, <1>6, <1>7, <1>8 DEF IInv

LEMMA PreloadKeeps ==
    ASSUME IInv, Preload
    PROVE  IInv'
<1>1. TypeOK'
  <2>1. failures' \in 0 .. MaxFailures
    BY FailureCounts DEF IInv, TypeOK, Preload
  <2>2. preloaded' \in SUBSET {"WINSPOOL.DRV"}
    BY DEF IInv, TypeOK, Preload
  <2> QED
    BY <2>1, <2>2 DEF IInv, TypeOK, Preload, mh, Points, Items
<1>2. ReadyBeforeHooks'
  BY DEF IInv, ReadyBeforeHooks, Preload, Failure, mh
<1>3. TableMatchesCode'
  BY DEF IInv, TypeOK, Items, TableMatchesCode, Present, Attaching, Preload, Failure, mh
<1>4. SpoolerStays'
  <2>1. pc = "preload" /\ pc' = "initialize" /\ created' = created /\ created = {}
    BY DEF IInv, Preload, ReadyBeforeHooks, mh
  <2>2. failures' = 0 => preloaded' # {}
    BY DEF IInv, TypeOK, Preload, Failure
  <2> QED
    BY <2>1, <2>2 DEF SpoolerStays
<1>5. LeftAlone'
  BY DEF IInv, LeftAlone, Preload, Failure, mh
<1>6. DisabledBehind'
  BY DEF IInv, DisabledBehind, Harmless, Preload, Failure, mh
<1>7. DetoursAreReady'
  BY DEF IInv, DetoursAreReady, Preload, Failure, mh
<1>8. NoDanglingJump'
  BY DEF IInv, NoDanglingJump, Preload, Failure, mh
<1> QED
  BY <1>1, <1>2, <1>3, <1>4, <1>5, <1>6, <1>7, <1>8 DEF IInv

LEMMA InitializeKeeps ==
    ASSUME IInv, Initialize
    PROVE  IInv'
<1>1. TypeOK'
  <2>1. failures' \in 0 .. MaxFailures
    BY FailureCounts DEF IInv, TypeOK, Initialize
  <2>2. item' \in 1 .. Spooler + Usb + 1 /\ (pc' = "create" => item' \in Items) /\ pc' \in {"create", "attached"}
    BY DEF IInv, TypeOK, Initialize, Items
  <2> QED
    BY <2>1, <2>2 DEF IInv, TypeOK, Initialize, libs, Points
<1>2. ReadyBeforeHooks'
  BY DEF IInv, ReadyBeforeHooks, Initialize, Failure, libs
<1>3. TableMatchesCode'
  BY DEF IInv, TableMatchesCode, Present, Attaching, Initialize, Failure, libs
<1>4. SpoolerStays'
  BY DEF IInv, TypeOK, Items, SpoolerStays, Initialize, Failure, libs
<1>5. LeftAlone'
  BY DEF IInv, LeftAlone, Initialize, Failure, libs
<1>6. DisabledBehind'
  BY DEF IInv, DisabledBehind, Harmless, Initialize, Failure, libs
<1>7. DetoursAreReady'
  BY DEF IInv, DetoursAreReady, Initialize, Failure, libs
<1>8. NoDanglingJump'
  BY DEF IInv, NoDanglingJump, Initialize, Failure, libs
<1> QED
  BY <1>1, <1>2, <1>3, <1>4, <1>5, <1>6, <1>7, <1>8 DEF IInv

LEMMA CreateKeeps ==
    ASSUME IInv, Create
    PROVE  IInv'
<1>1. TypeOK'
  <2>1. failures' \in 0 .. MaxFailures
    BY FailureCounts DEF IInv, TypeOK, Create
  <2>2. item \in Items
    BY DEF IInv, TypeOK, Create
  <2>3. /\ item' \in 1 .. Spooler + Usb + 1
        /\ pc' \in {"create", "enable", "attached"}
        /\ pc' \in {"create", "enable"} => item' \in Items
    BY <2>2, NextItemInRange DEF IInv, TypeOK, Create, AfterFailure
  <2>4. created' \in SUBSET Items /\ original' \in SUBSET Items
    BY <2>2 DEF IInv, TypeOK, Create
  <2> QED
    BY <2>1, <2>3, <2>4 DEF IInv, TypeOK, Create, libs, Points
<1>2. ReadyBeforeHooks'
  BY DEF IInv, ReadyBeforeHooks, Create, AfterFailure, NextItem, Failure, libs
<1>3. TableMatchesCode'
  <2>1. /\ pc = "create" /\ stale = {} /\ stale' = {} /\ Present(item)
        /\ UNCHANGED <<heap, jump, enabled, preloaded, appLibs>>
    BY DEF IInv, Create, TableMatchesCode, libs, Attaching
  <2>2. /\ created \subseteq created' /\ created' \subseteq created \cup {item}
        /\ created' \subseteq original'
    BY DEF IInv, Create, TableMatchesCode
  <2>3. heap
    BY DEF IInv, Create, ReadyBeforeHooks
  <2> QED
    BY <2>1, <2>2, <2>3 DEF IInv, TableMatchesCode, Present
<1>4. SpoolerStays'
  <2>1. pc = "create" /\ stale' = {} /\ preloaded' = preloaded
    BY DEF IInv, Create, TableMatchesCode, libs, Attaching
  <2>2. pc' \in {"create", "enable", "attached"}
    BY DEF Create, AfterFailure, NextItem
  <2>3. failures' = 0 => failures = 0
    BY DEF IInv, TypeOK, Create, Failure
  <2> QED
    BY <2>1, <2>2, <2>3 DEF IInv, SpoolerStays
<1>5. LeftAlone'
  BY DEF IInv, LeftAlone, Create, AfterFailure, NextItem, Failure, libs
<1>6. DisabledBehind'
  BY DEF IInv, DisabledBehind, Harmless, Create, AfterFailure, NextItem, Failure, libs
<1>7. DetoursAreReady'
  BY DEF IInv, DetoursAreReady, Create, AfterFailure, NextItem, Failure, libs
<1>8. NoDanglingJump'
  BY DEF IInv, NoDanglingJump, Create, AfterFailure, NextItem, Failure, libs
<1> QED
  BY <1>1, <1>2, <1>3, <1>4, <1>5, <1>6, <1>7, <1>8 DEF IInv

LEMMA CreateSkipsKeeps ==
    ASSUME IInv, CreateSkips
    PROVE  IInv'
<1>1. TypeOK'
  BY DEF IInv, TypeOK, Points, Items, CreateSkips, NextItem, libs, mh
<1>2. ReadyBeforeHooks'
  BY DEF IInv, ReadyBeforeHooks, CreateSkips, NextItem, libs, mh
<1>3. TableMatchesCode'
  BY DEF IInv, TableMatchesCode, Present, Attaching, CreateSkips, NextItem, libs, mh
<1>4. SpoolerStays'
  BY DEF IInv, SpoolerStays, CreateSkips, NextItem, libs, mh
<1>5. LeftAlone'
  BY DEF IInv, LeftAlone, CreateSkips, NextItem, libs, mh
<1>6. DisabledBehind'
  BY DEF IInv, DisabledBehind, Harmless, CreateSkips, NextItem, libs, mh
<1>7. DetoursAreReady'
  BY DEF IInv, DetoursAreReady, CreateSkips, NextItem, libs, mh
<1>8. NoDanglingJump'
  BY DEF IInv, NoDanglingJump, CreateSkips, NextItem, libs, mh
<1> QED
  BY <1>1, <1>2, <1>3, <1>4, <1>5, <1>6, <1>7, <1>8 DEF IInv

LEMMA EnableKeeps ==
    ASSUME IInv, Enable
    PROVE  IInv'
<1>1. TypeOK'
  <2>1. failures' \in 0 .. MaxFailures
    BY FailureCounts DEF IInv, TypeOK, Enable
  <2>2. item \in Items
    BY DEF IInv, TypeOK, Enable
  <2>3. /\ item' \in 1 .. Spooler + Usb + 1
        /\ pc' \in {"create", "attached"}
        /\ pc' = "create" => item' \in Items
    BY <2>2, NextItemInRange DEF Enable, AfterFailure
  <2>4. enabled' \in SUBSET Items /\ jump' \in SUBSET Items
    BY <2>2 DEF IInv, TypeOK, Enable
  <2> QED
    BY <2>1, <2>3, <2>4 DEF IInv, TypeOK, Enable, libs, Points
<1>2. ReadyBeforeHooks'
  BY DEF IInv, ReadyBeforeHooks, Enable, AfterFailure, NextItem, Failure, libs
<1>3. TableMatchesCode'
  BY DEF IInv, TableMatchesCode, Present, Attaching, ReadyBeforeHooks, Enable,
         AfterFailure, NextItem, Failure, libs
<1>4. SpoolerStays'
  BY DEF IInv, TypeOK, Items, SpoolerStays, Enable, AfterFailure, NextItem, Failure,
         libs
<1>5. LeftAlone'
  BY DEF IInv, LeftAlone, Enable, AfterFailure, NextItem, Failure, libs
<1>6. DisabledBehind'
  BY DEF IInv, DisabledBehind, Harmless, Enable, AfterFailure, NextItem, Failure, libs
<1>7. DetoursAreReady'
  BY DEF IInv, DetoursAreReady, ReadyBeforeHooks, TableMatchesCode, Enable,
         AfterFailure, NextItem, Failure, libs
<1>8. NoDanglingJump'
  BY DEF IInv, NoDanglingJump, Enable, AfterFailure, NextItem, Failure, libs
<1> QED
  BY <1>1, <1>2, <1>3, <1>4, <1>5, <1>6, <1>7, <1>8 DEF IInv

LEMMA DetachKeeps ==
    ASSUME IInv, Detach
    PROVE  IInv'
<1>1. TypeOK'
  <2>1. item' = 1 /\ 1 \in 1 .. Spooler + Usb + 1 /\ pc' \in {"disable", "gone"}
    BY DEF Detach
  <2>2. misread' \in BOOLEAN
    BY DEF IInv, TypeOK, Detach, IsHookProcess
  <2> QED
    BY <2>1, <2>2 DEF IInv, TypeOK, Detach, Points, libs, mh
<1>2. ReadyBeforeHooks'
  BY DEF IInv, ReadyBeforeHooks, Detach, IsHookProcess, libs, mh
<1>3. TableMatchesCode'
  BY DEF IInv, TableMatchesCode, Present, Attaching, Detach, IsHookProcess, libs, mh
<1>4. SpoolerStays'
  BY DEF IInv, SpoolerStays, Detach, IsHookProcess, libs, mh
<1>5. LeftAlone'
  BY DEF IInv, LeftAlone, Detach, IsHookProcess, libs, mh
<1>6. DisabledBehind'
  BY DEF IInv, TypeOK, Items, DisabledBehind, Harmless, Detach, IsHookProcess, libs, mh
<1>7. DetoursAreReady'
  BY DEF IInv, DetoursAreReady, Detach, IsHookProcess, libs, mh
<1>8. NoDanglingJump'
  BY DEF IInv, NoDanglingJump, LeftAlone, Detach, IsHookProcess, libs, mh
<1> QED
  BY <1>1, <1>2, <1>3, <1>4, <1>5, <1>6, <1>7, <1>8 DEF IInv

LEMMA DisableKeeps ==
    ASSUME IInv, Disable
    PROVE  IInv'
<1>1. TypeOK'
  <2>1. failures' \in 0 .. MaxFailures
    BY FailureCounts DEF IInv, TypeOK, Disable
  <2>2. item' \in 1 .. Spooler + Usb + 1
    BY DEF IInv, TypeOK, Disable
  <2>3. enabled' \in SUBSET Items /\ jump' \in SUBSET Items
    BY DEF IInv, TypeOK, Disable
  <2> QED
    BY <2>1, <2>2, <2>3 DEF IInv, TypeOK, Disable, libs, Points
<1>2. ReadyBeforeHooks'
  BY DEF IInv, ReadyBeforeHooks, Disable, CanDisable, Failure, libs
<1>3. TableMatchesCode'
  BY DEF IInv, TableMatchesCode, Present, Attaching, Disable, CanDisable, Failure, libs
<1>4. SpoolerStays'
  BY DEF IInv, TypeOK, Items, SpoolerStays, Disable, CanDisable, Failure, libs
<1>5. LeftAlone'
  BY DEF IInv, LeftAlone, Disable, CanDisable, Failure, libs
<1>6. DisabledBehind'
  <2>1. /\ pc = "disable" /\ pc' = "disable" /\ item' = item + 1 /\ item \in Nat
        /\ failures \in Nat
        /\ enabled \subseteq Nat /\ jump \subseteq enabled \ stale
        /\ UNCHANGED <<stale, created, preloaded>>
    BY DEF IInv, TypeOK, TableMatchesCode, Disable, Items, libs
  <2>2. item \in jump => CanDisable(item)
    BY DEF IInv, TableMatchesCode, CanDisable
  <2>3. ASSUME preloaded # {}, item \in enabled, ~CanDisable(item) PROVE Harmless(item)
    <3>1. item \in stale
      BY <2>3 DEF IInv, TableMatchesCode, CanDisable
    <3> QED
      BY <2>3, <3>1 DEF IInv, TableMatchesCode, SpoolerStays, Harmless
  <2>4. failures = 0 => enabled = {} \/ preloaded # {}
    BY <2>1 DEF IInv, TableMatchesCode, SpoolerStays
  <2>5. /\ failures = 0 => \A j \in enabled : j < item => Harmless(j)
        /\ failures = 1 =>
              \A i \in jump : i < item =>
                  /\ preloaded # {}
                  /\ \A j \in enabled : j < item /\ j # i => Harmless(j)
    BY <2>1 DEF IInv, DisabledBehind
  <2>6. \A j \in enabled : j < item + 1 => j < item \/ j = item
    BY <2>1
  <2>7. CASE CanDisable(item) /\ enabled' = enabled \ {item} /\ jump' = jump \ {item} /\ UNCHANGED failures
    BY <2>1, <2>5, <2>6, <2>7 DEF DisabledBehind, Harmless
  <2>8. CASE CanDisable(item) /\ Failure /\ UNCHANGED <<jump, enabled>>
    <3>1. failures' = 1 => failures = 0
      BY <2>1, <2>8 DEF Failure
    <3>2. failures' # 0
      BY <2>1, <2>8 DEF Failure
    <3>3. failures = 0 => \A j \in enabled : j < item + 1 => Harmless(j) \/ j = item
      BY <2>5, <2>6
    <3>4. ASSUME failures' = 1, NEW i \in jump, i < item + 1
          PROVE  preloaded # {} /\ i = item
      BY <2>1, <2>4, <3>1, <3>3, <3>4 DEF Harmless
    <3> QED
      BY <2>1, <2>8, <3>1, <3>2, <3>3, <3>4 DEF DisabledBehind, Harmless
  <2>9. CASE ~CanDisable(item) /\ UNCHANGED <<jump, enabled, failures>>
    <3>1. item \notin jump
      BY <2>2, <2>9
    <3>2. failures = 0 => \A j \in enabled : j < item + 1 => Harmless(j)
      BY <2>3, <2>4, <2>5, <2>6, <2>9
    <3>3. failures = 1 =>
            \A i \in jump : i < item + 1 =>
                  /\ preloaded # {}
                  /\ \A j \in enabled : j < item + 1 /\ j # i => Harmless(j)
      BY <2>1, <2>3, <2>5, <2>6, <2>9, <3>1
    <3> QED
      BY <2>1, <2>9, <3>2, <3>3 DEF DisabledBehind, Harmless
  <2> QED
    BY <2>7, <2>8, <2>9 DEF Disable
<1>7. DetoursAreReady'
  BY DEF IInv, DetoursAreReady, Disable, CanDisable, Failure, libs
<1>8. NoDanglingJump'
  BY DEF IInv, NoDanglingJump, Disable, CanDisable, Failure, libs
<1> QED
  BY <1>1, <1>2, <1>3, <1>4, <1>5, <1>6, <1>7, <1>8 DEF IInv

LEMMA FreeKeeps ==
    ASSUME IInv, Free
    PROVE  IInv'
<1>1. TypeOK'
  BY DEF IInv, TypeOK, Points, Items, Free, Unmap, ItemsOf
<1>2. ReadyBeforeHooks'
  BY DEF IInv, ReadyBeforeHooks, Free, Unmap, ItemsOf
<1>3. TableMatchesCode'
  <2>1. CASE preloaded \subseteq appLibs
    BY <2>1, FramedTable DEF Free, Attaching
  <2>2. CASE ~(preloaded \subseteq appLibs)
    <3>1. preloaded' \cup appLibs' = (preloaded \cup appLibs) \ {"WINSPOOL.DRV"}
      BY <2>2 DEF Free, IInv, TypeOK
    <3> QED
      BY <2>2, <3>1, UnmapKeepsTable DEF Free, Libs, Attaching
  <2> QED
    BY <2>1, <2>2
<1>4. SpoolerStays'
  BY DEF IInv, SpoolerStays, Free, Unmap, ItemsOf
<1>5. LeftAlone'
  BY DEF IInv, LeftAlone, Free, Unmap, ItemsOf
<1>6. DisabledBehind'
  <2>1. /\ pc = "disable" /\ pc' = "uninitialize" /\ UNCHANGED <<item, enabled, failures>>
        /\ jump' \subseteq jump /\ stale \subseteq stale'
    BY DEF Free, Unmap
  <2>2. item = Spooler + Usb + 1
    BY DEF IInv, TypeOK, Free
  <2>3. \A j \in enabled : Harmless(j) => Harmless(j)'
    BY <2>1 DEF Harmless
  <2> QED
    BY <2>1, <2>2, <2>3 DEF IInv, DisabledBehind
<1>7. DetoursAreReady'
  BY DEF IInv, DetoursAreReady, Free, Unmap, ItemsOf
<1>8. NoDanglingJump'
  BY DEF IInv, NoDanglingJump, Free, Unmap, ItemsOf
<1> QED
  BY <1>1, <1>2, <1>3, <1>4, <1>5, <1>6, <1>7, <1>8 DEF IInv

LEMMA UninitializeKeeps ==
    ASSUME IInv, Uninitialize
    PROVE  IInv'
<1>1. TypeOK'
  <2>1. failures' \in 0 .. MaxFailures
    BY FailureCounts DEF IInv, TypeOK, Uninitialize
  <2>2. enabled' \in SUBSET Items /\ jump' \in SUBSET Items /\ heap' \in BOOLEAN /\ created' \in SUBSET Items
    BY DEF IInv, TypeOK, Uninitialize
  <2> QED
    BY <2>1, <2>2 DEF IInv, TypeOK, Uninitialize, Points, libs
<1>2. ReadyBeforeHooks'
  BY DEF IInv, ReadyBeforeHooks, Uninitialize, LeftEnabled, Restored, Failure, libs
<1>3. TableMatchesCode'
  BY DEF IInv, TableMatchesCode, Present, Attaching, Uninitialize, LeftEnabled,
         Restored, Failure, libs
<1>4. SpoolerStays'
  BY DEF IInv, SpoolerStays, Uninitialize, LeftEnabled, Restored, Failure, libs
<1>5. LeftAlone'
  BY DEF IInv, LeftAlone, Uninitialize, LeftEnabled, Restored, Failure, libs
<1>6. DisabledBehind'
  BY DEF IInv, DisabledBehind, Harmless, Uninitialize, LeftEnabled, Restored, Failure,
         libs
<1>7. DetoursAreReady'
  BY DEF IInv, DetoursAreReady, Uninitialize, LeftEnabled, Restored, Failure, libs
<1>8. NoDanglingJump'
  <2>1. SUFFICES ASSUME failures' <= 1, NEW i \in jump' PROVE FALSE
    BY DEF NoDanglingJump
  <2>2. PICK bad \in SUBSET (LeftEnabled \ stale), unmapped \in SUBSET (LeftEnabled \cap stale) :
            /\ IF bad = {} THEN UNCHANGED failures ELSE Failure
            /\ jump' = jump \ Restored(bad \cup unmapped)
    BY DEF Uninitialize
  <2>3. /\ i \in jump /\ i \in enabled \ stale /\ i \in created /\ i \in Items
        /\ i < item /\ item = Spooler + Usb + 1 /\ failures \in Nat /\ pc = "uninitialize"
        /\ \A j \in enabled : j \in created /\ j \in Items /\ j < item
    BY <2>1, <2>2 DEF IInv, TypeOK, TableMatchesCode, DisabledBehind, Uninitialize, Items
  <2>4. failures # 0
    BY <2>3 DEF IInv, DisabledBehind, Harmless
  <2>5. bad = {} /\ failures = 1
    BY <2>1, <2>2, <2>3, <2>4 DEF Failure
  <2>6. \A j \in enabled \cap stale : Harmless(j)
    BY <2>3, <2>5 DEF IInv, DisabledBehind
  <2>7. ASSUME NEW j \in enabled \cap stale PROVE i < j
    <3>1. LibOf(j) = "BXLPDIR.DLL" /\ LibOf(i) # LibOf(j)
      BY <2>3, <2>6, <2>7 DEF Harmless, IInv, TableMatchesCode
    <3> QED
      BY <2>3, <3>1 DEF LibOf, Items
  <2>8. i \in Restored(bad \cup unmapped)
    BY <2>3, <2>5, <2>7 DEF Restored, LeftEnabled
  <2> QED
    BY <2>1, <2>2, <2>8
<1> QED
  BY <1>1, <1>2, <1>3, <1>4, <1>5, <1>6, <1>7, <1>8 DEF IInv

-----------------------------------------------------------------------------
LEMMA Initially == Init => IInv
<1> SUFFICES ASSUME Init PROVE IInv
  OBVIOUS
<1>1. TypeOK
  <2>1. 1 \in 1 .. Spooler + Usb + 1 /\ 0 \in 0 .. MaxFailures
    OBVIOUS
  <2> QED
    BY <2>1 DEF Init, TypeOK, Points
<1>2. ReadyBeforeHooks /\ SpoolerStays /\ LeftAlone /\ DisabledBehind
  BY DEF Init, ReadyBeforeHooks, SpoolerStays, LeftAlone, DisabledBehind
<1>3. TableMatchesCode
  BY DEF Init, TableMatchesCode
<1>4. DetoursAreReady /\ NoDanglingJump
  BY DEF Init, DetoursAreReady, NoDanglingJump
<1> QED
  BY <1>1, <1>2, <1>3, <1>4 DEF IInv

LEMMA Stuttering == IInv /\ UNCHANGED vars => IInv'
BY DEF vars, IInv, TypeOK, ReadyBeforeHooks, TableMatchesCode, SpoolerStays, LeftAlone,
       DisabledBehind, DetoursAreReady, NoDanglingJump, Present, Harmless

(* Whatever start_hook, stop_hook and the application do, MinHook's table  *)
(* and the code agree.                                                     *)
THEOREM TableInvariant == Spec => []IInv
<1>1. IInv /\ [Next]_vars => IInv'
  BY AppLoadsKeeps, AppFreesKeeps, AttachKeeps, ConnectKeeps, PreloadKeeps,
     InitializeKeeps, CreateKeeps, CreateSkipsKeeps, EnableKeeps, DetachKeeps,
     DisableKeeps, FreeKeeps, UninitializeKeeps, Stuttering DEF Next
<1> QED
  BY Initially, <1>1, PTL DEF Spec

(* No thread ever runs into a detour before the original function, the     *)
(* list of remote handles and the client are there.                        *)
THEOREM DetoursReady == Spec => []DetoursAreReady
<1>1. IInv => DetoursAreReady
  BY DEF IInv
<1> QED
  BY TableInvariant, <1>1, PTL

(* Unless two calls fail or the process's name is misread, no function     *)
(* jumps into the DLL after stop_hook.                                     *)
THEOREM NothingDangles == Spec => []NoDanglingJump
<1>1. IInv => NoDanglingJump
  BY DEF IInv
<1> QED
  BY TableInvariant, <1>1, PTL

-----------------------------------------------------------------------------
(* How many items the loop of start_hook leaves unhooked.                  *)

(* The items before k which could have been hooked and are not.            *)
PassedOver(k) == {i \in inTime \ jump : i < k}

LoopHooks ==
    /\ pc \in {"out", "connect", "preload", "initialize"} => ~heap
    /\ pc \in {"initialize", "create", "enable"} => \A i \in inTime : Present(i)
    /\ pc \in {"create", "enable"} => Cardinality(PassedOver(item)) <= failures
    /\ HookedInTime

LEMMA ItemSets ==
    ASSUME NEW S, NEW T \in SUBSET S, S \in SUBSET Items
    PROVE  IsFiniteSet(T) /\ Cardinality(T) \in Nat /\ Cardinality(T) <= Cardinality(S)
<1>1. IsFiniteSet(Items)
  BY FS_Interval DEF Items
<1>2. IsFiniteSet(S)
  BY <1>1, FS_Subset
<1> QED
  BY <1>2, FS_Subset, FS_CardinalityType

(* One more item is passed over: one more failure.                         *)
LEMMA OneMore ==
    ASSUME NEW S \in SUBSET Items, NEW T, NEW i \in Items, T \subseteq S \cup {i}
    PROVE  Cardinality(T) \in Nat /\ Cardinality(T) <= Cardinality(S) + 1
<1>1. S \cup {i} \in SUBSET Items
  OBVIOUS
<1>2. Cardinality(T) \in Nat /\ Cardinality(T) <= Cardinality(S \cup {i})
  BY <1>1, ItemSets
<1>3. IsFiniteSet(S) /\ Cardinality(S) \in Nat
  BY ItemSets
<1>4. Cardinality(S \cup {i}) <= Cardinality(S) + 1
  <2>1. \/ Cardinality(S \cup {i}) = Cardinality(S)
        \/ Cardinality(S \cup {i}) = Cardinality(S) + 1
    BY <1>3, FS_AddElement
  <2> QED
    BY <1>3, <2>1
<1>5. Cardinality(S \cup {i}) \in Nat
  BY <1>1, ItemSets
<1> QED
  BY <1>2, <1>3, <1>4, <1>5

(* The loop goes on, or ends, with the item hooked, not to be hooked, or a *)
(* failure counted for it.                                                 *)
LEMMA LoopGoesOn ==
    ASSUME IInv, LoopHooks, pc \in {"create", "enable"}, NextItem,
           UNCHANGED <<preloaded, appLibs, heap, inTime>>, jump \subseteq jump',
           \/ item \in jump' \cup (Items \ inTime) /\ UNCHANGED failures
           \/ Failure
    PROVE  LoopHooks'
<1>1. /\ item \in Items /\ inTime \subseteq Items /\ failures \in Nat
      /\ pc' \in {"create", "attached"}
      /\ pc' = "create" => item' = item + 1
      /\ pc' = "attached" => item = Spooler + Usb
  BY DEF IInv, TypeOK, NextItem, Items
<1> DEFINE S == PassedOver(item)
           T == {i \in inTime \ jump' : i <= item}
<1>2. S \in SUBSET Items /\ T \subseteq S \cup {item}
  <2>1. \A i \in inTime : i \in Items /\ i \in Int /\ item \in Int
    BY <1>1 DEF Items
  <2>2. ASSUME NEW i \in T PROVE i \in S \/ i = item
    <3>1. i \in inTime /\ i \notin jump /\ i <= item
      OBVIOUS
    <3>2. i < item \/ i = item
      BY <2>1, <3>1
    <3> QED
      BY <3>1, <3>2 DEF PassedOver
  <2>3. S \in SUBSET Items
    BY <2>1 DEF PassedOver
  <2> QED
    BY <2>2, <2>3
<1>3. Cardinality(S) <= failures /\ Cardinality(S) \in Nat
  BY <1>2, ItemSets DEF LoopHooks
<1>4. Cardinality(T) \in Nat /\ Cardinality(T) <= failures'
  <2>1. CASE item \in jump' \cup (Items \ inTime) /\ UNCHANGED failures
    <3>1. T \in SUBSET S
      BY <1>1, <1>2, <2>1
    <3>2. Cardinality(T) \in Nat /\ Cardinality(T) <= Cardinality(S)
      BY <1>2, <3>1, ItemSets
    <3> QED
      BY <1>1, <1>3, <2>1, <3>2
  <2>2. CASE Failure
    <3>1. Cardinality(T) \in Nat /\ Cardinality(T) <= Cardinality(S) + 1
      BY <1>1, <1>2, OneMore
    <3>2. failures' = failures + 1
      BY <2>2 DEF Failure
    <3> QED
      BY <1>1, <1>3, <3>1, <3>2
  <2> QED
    BY <2>1, <2>2
<1>5. CASE pc' = "create"
  <2>1. \A i \in inTime : i < item + 1 <=> i <= item
    BY <1>1 DEF Items
  <2>2. PassedOver(item)' = {i \in inTime \ jump' : i < item + 1}
    BY <1>1, <1>5 DEF PassedOver
  <2>3. PassedOver(item)' = T
    BY <2>1, <2>2
  <2> QED
    BY <1>1, <1>4, <1>5, <2>3 DEF LoopHooks, Present, HookedInTime
<1>6. CASE pc' = "attached"
  <2>1. \A i \in inTime : i <= item
    BY <1>1, <1>6 DEF Items
  <2>2. (inTime \ jump)' = T
    BY <2>1
  <2> QED
    BY <1>4, <1>6, <2>2 DEF LoopHooks, HookedInTime
<1> QED
  BY <1>1, <1>5, <1>6

(* Away from the loop no item joins those left unhooked.                   *)
LEMMA AwayFromLoop ==
    ASSUME IInv, LoopHooks, failures' \in Nat, failures' >= failures,
           pc' \notin {"initialize", "create", "enable"},
           pc' \in {"out", "connect", "preload"} => ~heap',
           pc' = "attached" /\ heap' =>
               pc = "attached" /\ heap /\ (inTime \ jump)' \subseteq inTime \ jump
    PROVE  LoopHooks'
<1>1. ASSUME pc' = "attached", heap'
      PROVE  Cardinality((inTime \ jump)') <= failures'
  <2>1. inTime \ jump \in SUBSET Items /\ failures \in Nat
    BY DEF IInv, TypeOK
  <2>2. /\ Cardinality((inTime \ jump)') \in Nat /\ Cardinality(inTime \ jump) \in Nat
        /\ Cardinality((inTime \ jump)') <= Cardinality(inTime \ jump)
    BY <1>1, <2>1, ItemSets
  <2>3. Cardinality(inTime \ jump) <= failures
    BY <1>1 DEF LoopHooks, HookedInTime
  <2> QED
    BY <2>1, <2>2, <2>3
<1> QED
  BY <1>1 DEF LoopHooks, HookedInTime

LEMMA HooksStep == IInv /\ LoopHooks /\ [Next]_vars => LoopHooks'
<1> SUFFICES ASSUME IInv, LoopHooks, [Next]_vars
             PROVE  LoopHooks'
  OBVIOUS
<1>1. failures \in Nat /\ pc \in Points /\ inTime \in SUBSET Items /\ item \in 1 .. Spooler + Usb + 1
  BY DEF IInv, TypeOK
<1>2. Failure => failures' \in Nat /\ failures' >= failures
  BY <1>1 DEF Failure
<1>3. ASSUME NEW l \in Libs, AppLoads(l) PROVE LoopHooks'
  BY <1>1, <1>3, AwayFromLoop DEF AppLoads, LoopHooks
<1>4. ASSUME NEW l \in Libs, AppFrees(l) PROVE LoopHooks'
  <2>1. (inTime \ jump)' \subseteq inTime \ jump
    BY <1>1, <1>4 DEF AppFrees, Unmap
  <2> QED
    BY <1>1, <1>4, <2>1, AwayFromLoop DEF AppFrees, LoopHooks
<1>5. CASE Attach
  BY <1>1, <1>5, AwayFromLoop DEF Attach, First, LoopHooks, mh
<1>6. CASE Connect
  BY <1>1, <1>6, AwayFromLoop DEF Connect, LoopHooks, mh
<1>7. CASE Preload
  <2>1. \A i \in inTime' : Present(i)'
    BY <1>7 DEF Preload, Present
  <2> QED
    BY <1>7, <2>1 DEF Preload, LoopHooks, HookedInTime, mh
<1>8. CASE Initialize
  <2>1. CASE pc' = "create" /\ item' = 1
    <3>1. PassedOver(item)' = {}
      <4>1. inTime' \in SUBSET Items /\ \A i \in Items : ~(i < 1)
        BY <1>1, <1>8 DEF Initialize, Items
      <4> QED
        BY <2>1, <4>1 DEF PassedOver
    <3>2. Cardinality(PassedOver(item)') = 0 /\ failures' \in Nat
      BY <1>1, <1>2, <1>8, <3>1, FS_EmptySet DEF Initialize
    <3> QED
      BY <1>8, <2>1, <3>2 DEF Initialize, LoopHooks, HookedInTime, Present, libs
  <2>2. CASE pc' = "attached" /\ heap' = heap /\ Failure
    BY <1>2, <1>8, <2>2, AwayFromLoop DEF Initialize, LoopHooks
  <2> QED
    BY <1>8, <2>1, <2>2 DEF Initialize
<1>9. CASE Create
  <2>1. CASE pc' = "enable" /\ UNCHANGED <<item, failures>>
    <3>1. PassedOver(item)' = PassedOver(item)
      BY <1>9, <2>1 DEF Create, PassedOver
    <3> QED
      BY <1>9, <2>1, <3>1 DEF Create, LoopHooks, HookedInTime, Present, libs
  <2>2. CASE Failure /\ AfterFailure
    BY <1>9, <2>2, LoopGoesOn DEF Create, AfterFailure, libs
  <2> QED
    BY <1>9, <2>1, <2>2 DEF Create
<1>10. CASE CreateSkips
  <2>1. item \in Items /\ item \notin inTime
    BY <1>10 DEF CreateSkips, LoopHooks, IInv, TypeOK, Items
  <2> QED
    BY <1>10, <2>1, LoopGoesOn DEF CreateSkips, libs, mh
<1>11. CASE Enable
  <2>1. CASE /\ jump' = jump \cup {item} /\ NextItem /\ UNCHANGED failures
    BY <1>11, <2>1, LoopGoesOn DEF Enable, libs
  <2>2. CASE Failure /\ AfterFailure /\ UNCHANGED jump
    BY <1>11, <2>2, LoopGoesOn DEF Enable, AfterFailure, libs
  <2> QED
    BY <1>11, <2>1, <2>2 DEF Enable
<1>12. CASE Detach
  BY <1>1, <1>12, AwayFromLoop DEF Detach
<1>13. CASE Disable
  BY <1>1, <1>2, <1>13, AwayFromLoop DEF Disable
<1>14. CASE Free
  BY <1>1, <1>14, AwayFromLoop DEF Free
<1>15. CASE Uninitialize
  BY <1>1, <1>2, <1>15, AwayFromLoop DEF Uninitialize
<1>16. CASE UNCHANGED vars
  BY <1>16 DEF vars, LoopHooks, HookedInTime, PassedOver, Present
<1> QED
  BY <1>3, <1>4, <1>5, <1>6, <1>7, <1>8, <1>9, <1>10, <1>11, <1>12, <1>13, <1>14, <1>15,
     <1>16 DEF Next

(* However many items there are: an item which fails in start_hook does    *)
(* not keep another one from being hooked.                                 *)
THEOREM AllHookedInTime == Spec => []HookedInTime
<1>1. Init => LoopHooks
  BY DEF Init, LoopHooks, HookedInTime
<1>2. LoopHooks => HookedInTime
  BY DEF LoopHooks
<1> QED
  BY <1>1, <1>2, HooksStep, TableInvariant, PTL DEF Spec

-----------------------------------------------------------------------------
(* The injector, which brings the DLL into other processes and takes it    *)
(* out again.                                                              *)

(* Where the main thread is says what it has: the library from its loading *)
(* to its freeing, the hook within that time.  HookHasItsCode needs all of *)
(* it: "hooked" and "hmodule" change in different steps, and which comes   *)
(* first is seen in "at" alone.  When main() returns 1 the handler tells   *)
(* whether an injection failed, which has cleaned up, or its own setting.  *)
LibraryIs ==
    /\ at \in {"start", "load", "serving", "ejected", "ended"} => ~hmodule
    /\ at \in {"address", "hook", "handler", "loop", "unhook", "free"} => hmodule
    /\ at = "failed" => (hmodule <=> handler = "refused")

HookIs ==
    hooked # {} => at \in {"handler", "loop", "unhook"}
                   \/ (at = "failed" /\ handler = "refused")

HandlerIs ==
    /\ at \in {"start", "load", "address", "hook", "handler", "serving"} => handler = "unset"
    /\ at \in {"loop", "unhook", "free", "ejected"} => handler = "set"

Owns == LibraryIs /\ HookIs /\ HandlerIs /\ NothingLeftBehind

LEMMA InitOwns == InjectorInit => Owns
BY DEF InjectorInit, Owns, LibraryIs, HookIs, HandlerIs, NothingLeftBehind

(* Nothing is left to the system unless the process ends where the library *)
(* is loaded.                                                              *)
LEMMA EndsOwns ==
    ASSUME Owns, NEW how, Ends(how), Left # {} => how = "killed" \/ handler = "refused"
    PROVE  Owns'
BY DEF Owns, LibraryIs, HookIs, HandlerIs, NothingLeftBehind, Ends

LEMMA MainOwns == Owns /\ Main => Owns'
<1> SUFFICES ASSUME Owns, Main PROVE Owns'
  OBVIOUS
<1>1. CASE Usage \/ ReturnsOne \/ ReturnsZero
  <2>1. Left # {} => handler = "refused"
    BY <1>1 DEF Usage, ReturnsOne, ReturnsZero, Owns, LibraryIs, HookIs, Left
  <2> QED
    BY <1>1, <2>1, EndsOwns DEF Usage, ReturnsOne, ReturnsZero
<1>2. CASE StartHook \/ LoadsLibrary \/ FindsAddress \/ SetsHook \/ StartServer
  BY <1>2 DEF Owns, LibraryIs, HookIs, HandlerIs, NothingLeftBehind,
              StartHook, LoadsLibrary, FindsAddress, SetsHook, StartServer
<1>3. CASE InjectionFails
  BY <1>3 DEF Owns, LibraryIs, HookIs, HandlerIs, NothingLeftBehind, InjectionFails, Failed
<1>4. CASE SetsHandler \/ HandlerRefused
  BY <1>4 DEF Owns, LibraryIs, HookIs, HandlerIs, NothingLeftBehind,
              SetsHandler, HandlerRefused
<1>5. CASE Round \/ Unhook \/ FreesLibrary
  BY <1>5 DEF Owns, LibraryIs, HookIs, HandlerIs, NothingLeftBehind,
              Round, NextRound, Unhook, FreesLibrary
<1> QED
  BY <1>1, <1>2, <1>3, <1>4, <1>5 DEF Main

LEMMA NextOwns == Owns /\ [InjectorNext]_injectorVars => Owns'
<1> SUFFICES ASSUME Owns, [InjectorNext]_injectorVars PROVE Owns'
  OBVIOUS
<1>1. CASE Main
  BY <1>1, MainOwns
<1>2. CASE ListenFails
  <2>1. Left = {}
    BY <1>2 DEF ListenFails, Owns, LibraryIs, HookIs, Left
  <2> QED
    BY <1>2, <2>1, EndsOwns DEF ListenFails
<1>3. CASE DefaultEvent \/ Killed
  BY <1>3, EndsOwns DEF DefaultEvent, Killed
<1>4. ASSUME UNCHANGED <<at, hmodule, hooked, handler, result>>
      PROVE  Owns'
  BY <1>4 DEF Owns, LibraryIs, HookIs, HandlerIs, NothingLeftBehind
<1> QED
  BY <1>1, <1>2, <1>3, <1>4
     DEF InjectorNext, ControlEvent, Loads, Unloads, Waits, injectorVars

LEMMA OwnsAlways == InjectorSpec => []Owns
BY InitOwns, NextOwns, PTL DEF InjectorSpec

(* For any threads, whatever fails and whenever the console's handler sets *)
(* the flag: while the hook is installed, so that the system may call its  *)
(* function for a thread, the injector has not freed the library which has *)
(* it (sample/main.cpp: inject_dll, eject_dll).                            *)
THEOREM TheHookHasItsCode == InjectorSpec => []HookHasItsCode
<1>1. Owns => HookHasItsCode
  BY DEF Owns, LibraryIs, HookIs, HookHasItsCode
<1> QED
  BY <1>1, OwnsAlways, PTL

(* A run of the injector which ends by itself leaves neither its hook nor  *)
(* its library to the system, except where main() returns because it could *)
(* not install the control handler (sample/main.cpp: main).                *)
THEOREM LeavesNothingBehind == InjectorSpec => []NothingLeftBehind
<1>1. Owns => NothingLeftBehind
  BY DEF Owns
<1> QED
  BY <1>1, OwnsAlways, PTL

=============================================================================
