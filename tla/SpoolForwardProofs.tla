------------------------- MODULE SpoolForwardProofs -------------------------
(* Proofs about SpoolForward, for every set of clients and handles and     *)
(* every bound.                                                            *)
EXTENDS SpoolForward, TLAPS

USE DEF Ops, HookedOps, UseOps, Stages, Phases

-----------------------------------------------------------------------------
(* Lemmas about the building blocks.                                       *)

(* Idle is a call.                                                         *)
LEMMA IdleIsCall == Idle \in Calls
BY ConstantsAssumption DEF Idle, Calls, Incs, Handles

(* A request for an operation on an object is a call.                      *)
LEMMA RequestIsCall ==
    ASSUME NEW op \in Ops, NEW p \in [h : Handles \cup {NoHandle}, inc : Incs]
    PROVE  Request(op, p) \in Calls
BY DEF Request, Calls

(* A change of stage leaves a call a call with its other fields.           *)
LEMMA StageChange ==
    ASSUME NEW k \in Calls, NEW s \in Stages
    PROVE  /\ [k EXCEPT !.stage = s] \in Calls
           /\ [k EXCEPT !.stage = s].stage = s
           /\ [k EXCEPT !.stage = s].op = k.op
           /\ [k EXCEPT !.stage = s].h = k.h
           /\ [k EXCEPT !.stage = s].inc = k.inc
           /\ [k EXCEPT !.stage = s].res = k.res
BY DEF Calls

(* The free entry of the server's table has an entry's type.               *)
LEMMA FreeIsEntry ==
    Free \in [phase : Phases, owner : Clients \cup {NoClient}]
BY DEF Free

(* Only ClosePrinter frees a handle.                                       *)
LEMMA OnlyCloseFrees ==
    ASSUME NEW op, NEW p, Performed(op, p, "free")
    PROVE  op = "ClosePrinter"
BY DEF Performed, Transitions

(* The local spooler keeps the type of the client's table.                 *)
LEMMA LocalSpoolerType ==
    ASSUME TypeOK, NEW c \in Clients, NEW op, NEW h \in Handles,
           LocalSpooler(c, op, h)
    PROVE  local' \in [Clients -> [Handles -> Phases]]
<1>1. ASSUME NEW q \in Phases, local' = [local EXCEPT ![c][h] = q]
      PROVE  local' \in [Clients -> [Handles -> Phases]]
  <2>1. [local[c] EXCEPT ![h] = q] \in [Handles -> Phases]
    BY DEF TypeOK
  <2>2. local' = [local EXCEPT ![c] = [local[c] EXCEPT ![h] = q]]
    BY <1>1
  <2> QED
    BY <2>1, <2>2 DEF TypeOK
<1>2. CASE local' = local
  BY <1>2 DEF TypeOK
<1> QED
  BY <1>1, <1>2 DEF LocalSpooler

(* The handler keeps the type of the server's table.                       *)
LEMMA HandleType ==
    ASSUME TypeOK, NEW c \in Clients, NEW op, NEW h, NEW h2, NEW res \in BOOLEAN,
           op # "OpenPrinter" => h \in Handles,
           Handle(c, op, h, res, h2)
    PROVE  remote' \in [Handles -> [phase : Phases, owner : Clients \cup {NoClient}]]
<1>1. CASE op = "OpenPrinter" /\ remote' # remote
  <2>1. /\ h2 \in Handles
        /\ remote' = [remote EXCEPT ![h2] = [phase |-> "open", owner |-> c]]
    BY <1>1 DEF Handle, Handles
  <2>2. [phase |-> "open", owner |-> c]
          \in [phase : Phases, owner : Clients \cup {NoClient}]
    OBVIOUS
  <2> QED
    BY <2>1, <2>2 DEF TypeOK
<1>2. CASE op # "OpenPrinter" /\ remote' # remote
  <2>1. PICK q \in Phases :
          remote' = [remote EXCEPT ![h] =
                       IF q = "free" THEN Free ELSE [@ EXCEPT !.phase = q]]
    BY <1>2 DEF Handle
  <2>2. [remote[h] EXCEPT !.phase = q]
          \in [phase : Phases, owner : Clients \cup {NoClient}]
    BY ZenonT(60), <1>2 DEF TypeOK
  <2> QED
    BY <2>1, <2>2, FreeIsEntry DEF TypeOK
<1>3. CASE remote' = remote
  BY <1>3 DEF TypeOK
<1> QED
  BY <1>1, <1>2, <1>3

-----------------------------------------------------------------------------
(* Type correctness.                                                       *)

(* The type invariant together with the shape of calls, which it needs:    *)
(* a call on a handle names a handle.                                      *)
TypedCalls == TypeOK /\ CallsWellFormed

LEMMA InitTyped == Init => TypedCalls
BY ConstantsAssumption, IdleIsCall, FreeIsEntry
   DEF Init, TypedCalls, TypeOK, CallsWellFormed, WellFormed, Idle, Incs

(* Replacing the call of one client by a well-formed one.                  *)
LEMMA OneCallChanges ==
    ASSUME TypedCalls, NEW c \in Clients, NEW k \in Calls, WellFormed(k),
           call' = [call EXCEPT ![c] = k], lingering' \subseteq lingering
    PROVE  /\ CallsWellFormed'
           /\ call' \in [Clients -> Calls]
           /\ call'[c] = k
           /\ \A d \in Clients \ {c} : call'[d] = call[d]
BY DEF TypedCalls, TypeOK, CallsWellFormed, WellFormed, Idle

(* Nothing in the shape of calls depends on anything but them.             *)
LEMMA NoCallChanges ==
    ASSUME TypedCalls, call' = call, lingering' \subseteq lingering
    PROVE  CallsWellFormed'
BY DEF TypedCalls, CallsWellFormed, WellFormed, Idle

(* A call in a new stage beyond "send" is well formed if it was.           *)
LEMMA StageWellFormed ==
    ASSUME NEW k \in Calls, WellFormed(k), k.stage \in {"send", "sent", "served"},
           NEW s \in {"sent", "lost"}, s = "sent" => k.stage = "send"
    PROVE  /\ [k EXCEPT !.stage = s] \in Calls
           /\ WellFormed([k EXCEPT !.stage = s])
<1> DEFINE n == [k EXCEPT !.stage = s]
<1>1. n \in Calls /\ n.stage = s /\ n.op = k.op /\ n.h = k.h
  BY DEF Calls
<1>2. n # Idle
  BY <1>1 DEF Idle
<1> HIDE DEF n
<1>3. WellFormed(n)
  BY <1>1, <1>2 DEF WellFormed
<1> QED
  BY <1>1, <1>3 DEF n

(* The count of faults stays within its bound.                             *)
LEMMA FaultTyped ==
    ASSUME TypeOK, Fault
    PROVE  faults' \in 0 .. MaxFaults
BY ConstantsAssumption DEF TypeOK, Fault

(* A request that lingers has the type of one, and names its handle.       *)
LingeringTyped ==
    /\ lingering \in SUBSET LingeringRequests
    /\ \A r \in lingering : r.op # "OpenPrinter" => r.h \in Handles

LEMMA LingersTyped ==
    ASSUME TypeOK, CallsWellFormed, NEW c \in Clients, Lingers(c)
    PROVE  LingeringTyped'
<1>1. call[c].stage = "sent" =>
        /\ [client |-> c, op |-> call[c].op, h |-> call[c].h] \in LingeringRequests
        /\ call[c].op # "OpenPrinter" => call[c].h \in Handles
  BY DEF TypeOK, CallsWellFormed, WellFormed, Calls, LingeringRequests
<1> QED
  BY <1>1 DEF Lingers, LingeringTyped, TypeOK, CallsWellFormed

(* Idle is well formed.                                                    *)
LEMMA IdleWellFormed == Idle \in Calls /\ WellFormed(Idle)
BY IdleIsCall DEF Idle, WellFormed

(* Every step keeps the types.                                             *)
LEMMA NextTyped == TypedCalls /\ [Next]_vars => TypedCalls'
<1> SUFFICES ASSUME TypedCalls, [Next]_vars
             PROVE  TypedCalls'
  OBVIOUS
<1>0. TypeOK /\ CallsWellFormed
  BY DEF TypedCalls
<1>w. \A c \in Clients : call[c] \in Calls /\ WellFormed(call[c])
  BY <1>0 DEF TypeOK, CallsWellFormed
<1>1. ASSUME NEW c \in Clients, OpenForward(c)
      PROVE  TypedCalls'
  <2> DEFINE k == Request("OpenPrinter", [h |-> NoHandle, inc |-> 0])
  <2>1. k \in Calls
    BY ConstantsAssumption, RequestIsCall DEF Incs
  <2>2. WellFormed(k)
    BY DEF Request, WellFormed, Idle
  <2>3. call' = [call EXCEPT ![c] = k] /\ lingering' \subseteq lingering
    BY <1>1 DEF OpenForward
  <2>4. CallsWellFormed' /\ call' \in [Clients -> Calls]
    BY <2>1, <2>2, <2>3, OneCallChanges
  <2> QED
    BY <1>0, <1>1, <2>4 DEF TypedCalls, OpenForward, TypeOK
<1>2. ASSUME NEW c \in Clients, OpenBypass(c)
      PROVE  TypedCalls'
  <2>1. local' \in [Clients -> [Handles -> Phases]]
    <3>1. ASSUME NEW h \in LocalHandles, local' = [local EXCEPT ![c][h] = "open"]
          PROVE  local' \in [Clients -> [Handles -> Phases]]
      <4>1. [local[c] EXCEPT ![h] = "open"] \in [Handles -> Phases]
        BY <1>0 DEF TypeOK
      <4> QED
        BY <1>0, <3>1, <4>1 DEF TypeOK
    <3> QED
      BY <1>0, <1>2, <3>1 DEF OpenBypass, TypeOK
  <2>2. held' \in [Clients -> SUBSET Objects]
    BY <1>0, <1>2, ConstantsAssumption DEF OpenBypass, TypeOK, Objects, Handles, Incs
  <2>3. link' \in [Clients -> {"closed", "up", "broken"}]
    BY <1>0, <1>2 DEF OpenBypass, TypeOK
  <2>4. CallsWellFormed'
    BY <1>2, NoCallChanges DEF OpenBypass
  <2> QED
    BY <1>0, <1>2, <2>1, <2>2, <2>3, <2>4 DEF TypedCalls, OpenBypass, TypeOK
<1>3. ASSUME NEW c \in Clients, NEW op \in HookedOps, NEW p \in held[c],
             Forward(c, op, p)
      PROVE  TypedCalls'
  <2>1. p \in Objects
    BY <1>0 DEF TypeOK
  <2>2. Request(op, p) \in Calls /\ WellFormed(Request(op, p))
    BY <2>1, RequestIsCall DEF Objects, Request, WellFormed, Idle
  <2>3. call' = [call EXCEPT ![c] = Request(op, p)] /\ lingering' \subseteq lingering
    BY <1>3 DEF Forward
  <2>4. CallsWellFormed' /\ call' \in [Clients -> Calls]
    BY <2>2, <2>3, OneCallChanges
  <2>5. bx' \in [Clients -> SUBSET Objects] /\ held' \in [Clients -> SUBSET Objects]
    BY <1>0, <1>3 DEF Forward, TypeOK, CloseBixolonPrinter, StillHeld
  <2> QED
    BY <1>0, <1>3, <2>1, <2>4, <2>5 DEF TypedCalls, Forward, TypeOK, Objects
<1>4. ASSUME NEW c \in Clients, NEW op \in HookedOps, NEW p \in held[c],
             Bypass(c, op, p)
      PROVE  TypedCalls'
  <2>1. p.h \in Handles
    BY <1>0 DEF TypeOK, Objects
  <2>2. local' \in [Clients -> [Handles -> Phases]]
    BY <1>0, <1>4, <2>1, LocalSpoolerType DEF Bypass
  <2>3. /\ link' \in [Clients -> {"closed", "up", "broken"}]
        /\ held' \in [Clients -> SUBSET Objects]
    BY <1>0, <1>4 DEF Bypass, TypeOK, StillHeld
  <2>4. CallsWellFormed'
    BY <1>4, NoCallChanges DEF Bypass
  <2> QED
    BY <1>0, <1>4, <2>2, <2>3, <2>4 DEF TypedCalls, Bypass, TypeOK
<1>5. ASSUME NEW c \in Clients, NEW p \in held[c], EndDocUnhooked(c, p)
      PROVE  TypedCalls'
  <2>1. p.h \in Handles
    BY <1>0 DEF TypeOK, Objects
  <2>2. local' \in [Clients -> [Handles -> Phases]]
    BY <1>0, <1>5, <2>1, LocalSpoolerType DEF EndDocUnhooked
  <2>3. CallsWellFormed'
    BY <1>5, NoCallChanges DEF EndDocUnhooked
  <2> QED
    BY <1>0, <1>5, <2>2, <2>3 DEF TypedCalls, EndDocUnhooked, TypeOK
<1>6. ASSUME NEW c \in Clients, Send(c)
      PROVE  TypedCalls'
  <2>1. CallsWellFormed' /\ call' \in [Clients -> Calls]
    <3>1. ASSUME NEW s \in {"sent", "lost"}, call' = [call EXCEPT ![c].stage = s]
          PROVE  CallsWellFormed' /\ call' \in [Clients -> Calls]
      <4>1. call' = [call EXCEPT ![c] = [call[c] EXCEPT !.stage = s]]
        BY <3>1
      <4> QED
        BY <1>6, <1>w, <4>1, StageWellFormed, OneCallChanges DEF Send, SendBroken
    <3>2. CASE call' = [call EXCEPT ![c] = Idle]
      BY <1>6, <3>2, IdleWellFormed, OneCallChanges DEF Send, SendBroken
    <3> QED
      BY <1>6, <3>1, <3>2 DEF Send, SendBroken
  <2> QED
    BY <1>0, <1>6, <2>1 DEF TypedCalls, Send, SendBroken, TypeOK
<1>7. ASSUME NEW c \in Clients, Return(c)
      PROVE  TypedCalls'
  <2>1. call[c].op = "OpenPrinter" /\ call[c].res =>
          [h |-> call[c].h, inc |-> call[c].inc] \in Objects
    BY <1>w, <1>7 DEF Return, WellFormed, Calls, Objects
  <2>2. bx' \in [Clients -> SUBSET Objects] /\ held' \in [Clients -> SUBSET Objects]
    <3>1. CASE call[c].op = "OpenPrinter" /\ call[c].res
      <4> DEFINE e == [h |-> call[c].h, inc |-> call[c].inc]
      <4>1. /\ bx' = [bx EXCEPT ![c] = bx[c] \cup {e}]
            /\ held' = [held EXCEPT ![c] = @ \cup {e}]
        BY <1>7, <3>1 DEF Return, Opened, AddBixolonPrinter
      <4>2. e \in Objects
        BY <2>1, <3>1
      <4> HIDE DEF e
      <4> QED
        BY <1>0, <4>1, <4>2 DEF TypeOK
    <3>2. CASE ~(call[c].op = "OpenPrinter" /\ call[c].res)
      BY <1>0, <1>7, <3>2 DEF Return, Opened, TypeOK
    <3> QED
      BY <3>1, <3>2
  <2>3. CallsWellFormed' /\ call' \in [Clients -> Calls]
    BY <1>7, IdleWellFormed, OneCallChanges DEF Return, Opened
  <2> QED
    BY <1>0, <1>7, <2>2, <2>3 DEF TypedCalls, Return, TypeOK
<1>8. ASSUME NEW c \in Clients, ReceiveFails(c)
      PROVE  TypedCalls'
  <2>1. CallsWellFormed' /\ call' \in [Clients -> Calls]
    BY <1>8, IdleWellFormed, OneCallChanges DEF ReceiveFails
  <2> QED
    BY <1>0, <1>8, <2>1 DEF TypedCalls, ReceiveFails, TypeOK
<1>9. ASSUME NEW c \in Clients, Serve(c)
      PROVE  TypedCalls'
  <2>1. PICK res \in BOOLEAN, h2 \in Handles \cup {NoHandle} :
          /\ Handle(c, call[c].op, call[c].h, res, h2)
          /\ call' = [call EXCEPT ![c] = Answered(@, res, h2)]
    BY <1>9 DEF Serve
  <2> DEFINE k == Answered(call[c], res, h2)
  <2>2. call[c].op # "OpenPrinter" => call[c].h \in Handles
    BY <1>w, <1>9 DEF Serve, WellFormed
  <2>3. remote' \in [Handles -> [phase : Phases, owner : Clients \cup {NoClient}]]
    BY <1>0, <2>1, <2>2, HandleType
  <2>4. res => h2 \in Handles
    BY <2>1, <2>2 DEF Handle, Handles
  <2>5. k \in Calls /\ WellFormed(k)
    BY <1>0, <1>w, <2>4 DEF TypeOK, Calls, Answered, WellFormed, Idle
  <2>6. call' = [call EXCEPT ![c] = k] /\ lingering' \subseteq lingering
    BY <1>9, <2>1 DEF Serve
  <2>7. CallsWellFormed' /\ call' \in [Clients -> Calls]
    BY <2>5, <2>6, OneCallChanges
  <2> QED
    BY <1>0, <1>9, <2>3, <2>7 DEF TypedCalls, Serve, TypeOK
<1>10. ASSUME NEW r \in lingering, ServeLingering(r)
       PROVE  TypedCalls'
  <2>1. r.client \in Clients /\ r.h \in Handles \cup {NoHandle}
        /\ (r.op # "OpenPrinter" => r.h \in Handles)
    BY <1>0 DEF TypeOK, LingeringRequests, CallsWellFormed
  <2>2. remote' \in [Handles -> [phase : Phases, owner : Clients \cup {NoClient}]]
    BY <1>0, <1>10, <2>1, HandleType DEF ServeLingering
  <2>3. CallsWellFormed'
    BY <1>10, NoCallChanges DEF ServeLingering
  <2> QED
    BY <1>0, <1>10, <2>1, <2>2, <2>3 DEF TypedCalls, ServeLingering, TypeOK
<1>11. ASSUME NEW c \in Clients, ConnectionLost(c)
       PROVE  TypedCalls'
  <2>1. LingeringTyped'
    BY <1>0, <1>w, <1>11, LingersTyped DEF ConnectionLost
  <2>2. call' \in [Clients -> Calls] /\ \A d \in Clients : WellFormed(call'[d])
    <3>1. PICK lostReplies \in SUBSET {c} :
            call' = [call EXCEPT ![c].stage =
                       IF Loses(c, lostReplies) THEN "lost" ELSE @]
      BY <1>11 DEF ConnectionLost
    <3> DEFINE k == [call[c] EXCEPT !.stage = "lost"]
    <3>2. CASE Loses(c, lostReplies)
      <4>1. call' = [call EXCEPT ![c] = k]
        BY <3>1, <3>2
      <4>2. k \in Calls /\ WellFormed(k)
        BY <1>w, <3>2, StageWellFormed DEF Loses
      <4> HIDE DEF k
      <4> QED
        BY <1>0, <1>w, <4>1, <4>2 DEF TypeOK
    <3>3. CASE ~Loses(c, lostReplies)
      <4>1. call' = call
        BY <1>0, <3>1, <3>3 DEF TypeOK, Calls
      <4> QED
        BY <1>0, <1>w, <4>1 DEF TypeOK
    <3> QED
      BY <3>2, <3>3
  <2>3. faults' \in 0 .. MaxFaults
    BY <1>0, <1>11, FaultTyped DEF ConnectionLost
  <2> QED
    BY <1>0, <1>11, <2>1, <2>2, <2>3
    DEF TypedCalls, LingeringTyped, CallsWellFormed, ConnectionLost, TypeOK
<1>12. ASSUME ServerStops
       PROVE  TypedCalls'
  <2>1. PICK lostReplies \in SUBSET Clients :
          call' = [c \in Clients |->
                     IF link[c] = "up" /\ Loses(c, lostReplies)
                     THEN [call[c] EXCEPT !.stage = "lost"] ELSE call[c]]
    BY <1>12 DEF ServerStops
  <2>2. ASSUME NEW c \in Clients
        PROVE  call'[c] \in Calls /\ WellFormed(call'[c])
    <3>1. CASE link[c] = "up" /\ Loses(c, lostReplies)
      <4>1. call'[c] = [call[c] EXCEPT !.stage = "lost"]
        BY <2>1, <3>1
      <4> QED
        BY <1>w, <3>1, <4>1, StageWellFormed DEF Loses
    <3>2. CASE ~(link[c] = "up" /\ Loses(c, lostReplies))
      BY <1>w, <2>1, <3>2
    <3> QED
      BY <3>1, <3>2
  <2>3. call' \in [Clients -> Calls]
    BY <2>1, <2>2
  <2>4. CallsWellFormed'
    BY <1>12, <2>2 DEF ServerStops, CallsWellFormed
  <2>5. remote' \in [Handles -> [phase : Phases, owner : Clients \cup {NoClient}]]
    BY <1>12, FreeIsEntry DEF ServerStops
  <2>6. faults' \in 0 .. MaxFaults
    BY <1>0, <1>12, FaultTyped DEF ServerStops
  <2> QED
    BY <1>0, <1>12, <2>3, <2>4, <2>5, <2>6 DEF TypedCalls, ServerStops, TypeOK
<1>13. ASSUME ServerStarts
       PROVE  TypedCalls'
  <2>1. CallsWellFormed'
    BY <1>13, NoCallChanges DEF ServerStarts
  <2> QED
    BY <1>0, <1>13, <2>1, ConstantsAssumption DEF TypedCalls, ServerStarts, TypeOK, Incs
<1>14. ASSUME NEW c \in Clients, ProcessExits(c)
       PROVE  TypedCalls'
  <2>1. LingeringTyped'
    BY <1>0, <1>w, <1>14, LingersTyped DEF ProcessExits
  <2>2. call' \in [Clients -> Calls] /\ \A d \in Clients : WellFormed(call'[d])
    BY <1>0, <1>w, <1>14, IdleWellFormed DEF ProcessExits, TypeOK
  <2>3. faults' \in 0 .. MaxFaults
    BY <1>0, <1>14, FaultTyped DEF ProcessExits
  <2> QED
    BY <1>0, <1>14, <2>1, <2>2, <2>3
    DEF TypedCalls, LingeringTyped, CallsWellFormed, ProcessExits, TypeOK
<1>15. CASE UNCHANGED vars
  <2>1. CallsWellFormed'
    BY <1>15, NoCallChanges DEF vars
  <2> QED
    BY <1>0, <1>15, <2>1 DEF TypedCalls, TypeOK, vars
<1> QED
  BY <1>1, <1>2, <1>3, <1>4, <1>5, <1>6, <1>7, <1>8, <1>9, <1>10, <1>11, <1>12,
     <1>13, <1>14, <1>15
  DEF Next, ClientStep

(* Every variable keeps its type in every behaviour of the system.         *)
THEOREM TypeCorrect == Spec => []TypeOK
<1>1. TypedCalls => TypeOK
  BY DEF TypedCalls
<1> QED
  BY <1>1, InitTyped, NextTyped, PTL DEF Spec

-----------------------------------------------------------------------------
(* Ownership: the inductive invariant.                                     *)

(* The inductive invariant, client by client.                              *)
ClientInv(c) ==
    /\ link[c] = "up" => serverUp
    /\ call[c].stage = "sent" => link[c] = "up"
    /\ \A e \in bx[c] \cup held[c] : e.inc <= epoch
    /\ call[c].inc <= epoch
    /\ call[c].stage = "send" /\ link[c] = "up" /\ call[c].op # "OpenPrinter"
         /\ call[c].h \notin stray => remote[call[c].h].owner = c
    /\ serverUp /\ call[c].stage = "served" /\ call[c].op = "OpenPrinter"
         /\ call[c].res /\ call[c].inc = epoch /\ call[c].h \notin stray
         => remote[call[c].h].owner = c
    /\ call[c].stage \in {"send", "sent"} /\ call[c].op = "ClosePrinter"
         => \A e \in bx[c] : e.h # call[c].h
    /\ \A e \in bx[c] :
         serverUp /\ e.inc = epoch /\ e.h \notin stray => remote[e.h].owner = c
    /\ \A p \in held[c] : p.inc = epoch /\ p.h \notin stray => p \in bx[c]
    /\ call[c].stage = "sent" /\ call[c].op # "OpenPrinter"
         /\ call[c].h \notin stray => remote[call[c].h].owner = c

LEMMA ByClient == IInv <=> TypedCalls /\ \A c \in Clients : ClientInv(c)
BY DEF IInv, TypedCalls, ClientInv, ConnectionsLive, IncsPast, PendingIsOwn,
       ReturnedIsOwn, ClosingIsUnlisted, ListedIsOpen, HeldIsListed,
       RequestReachesOwnHandle

(* A step of another client leaves a client's part of the invariant alone, *)
(* as long as it takes none of the client's handles away.                  *)
LEMMA Frame ==
    ASSUME TypedCalls, NEW d \in Clients, ClientInv(d),
           link'[d] = link[d], bx'[d] = bx[d], call'[d] = call[d],
           held'[d] = held[d], serverUp' = serverUp, epoch' = epoch,
           stray \subseteq stray',
           \A h \in Handles : h \notin stray' /\ remote[h].owner = d
                                => remote'[h].owner = d
    PROVE  ClientInv(d)'
<1>1. /\ \A e \in bx[d] : e.h \in Handles
      /\ WellFormed(call[d])
  BY DEF TypedCalls, TypeOK, Objects, CallsWellFormed
<1> QED
  BY <1>1 DEF ClientInv, WellFormed

(* The handler changes a handle which someone has opened only for a        *)
(* request on that handle, and frees it only for ClosePrinter.             *)
LEMMA HandleEffect ==
    ASSUME TypeOK, NEW c \in Clients, NEW op, NEW h, NEW h2, NEW res \in BOOLEAN,
           op # "OpenPrinter" => h \in Handles,
           Handle(c, op, h, res, h2)
    PROVE  \A g \in Handles :
              remote[g].owner \in Clients =>
                 \/ remote'[g].owner = remote[g].owner
                 \/ op = "ClosePrinter" /\ g = h
<1> SUFFICES ASSUME NEW g \in Handles, remote[g].owner \in Clients,
                    remote'[g].owner # remote[g].owner
             PROVE  op = "ClosePrinter" /\ g = h
  OBVIOUS
<1>1. CASE op = "OpenPrinter"
  BY <1>1, ConstantsAssumption DEF Handle, TypeOK, Free, Handles
<1>2. CASE op # "OpenPrinter"
  <2>1. PICK q \in Phases :
          /\ Performed(op, remote[h].phase, q)
          /\ remote' = [remote EXCEPT ![h] =
                          IF q = "free" THEN Free ELSE [@ EXCEPT !.phase = q]]
    BY <1>2 DEF Handle
  <2>2. g = h
    BY <2>1 DEF TypeOK
  <2>3. q = "free"
    BY <1>2, <2>1, <2>2 DEF TypeOK
  <2> QED
    BY <2>1, <2>2, <2>3, OnlyCloseFrees
<1> QED
  BY <1>1, <1>2

LEMMA InitOwns == Init => IInv
<1> SUFFICES ASSUME Init PROVE IInv
  OBVIOUS
<1>1. TypedCalls
  BY InitTyped
<1>2. \A c \in Clients : ClientInv(c)
  BY DEF Init, ClientInv, Idle
<1> QED
  BY <1>1, <1>2, ByClient

(* A step of client c which leaves the server alone.                       *)
Quiet(c) ==
    /\ serverUp' = serverUp /\ epoch' = epoch /\ remote' = remote
    /\ stray \subseteq stray'
    /\ \A d \in Clients \ {c} : /\ link'[d] = link[d] /\ bx'[d] = bx[d]
                                /\ call'[d] = call[d] /\ held'[d] = held[d]

LEMMA QuietStep ==
    ASSUME TypedCalls, \A d \in Clients : ClientInv(d), NEW c \in Clients,
           Quiet(c), ClientInv(c)'
    PROVE  \A d \in Clients : ClientInv(d)'
<1> TAKE d \in Clients
<1>1. CASE d = c
  BY <1>1
<1>2. CASE d # c
  BY <1>2, Frame DEF Quiet
<1> QED
  BY <1>1, <1>2

(* What the detours may assume when ensure_connection() has returned true. *)
LEMMA EnsuredUp ==
    ASSUME NEW c \in Clients, ClientInv(c), NEW l, Ensured(c, l) \/ NotEnsured(c, l)
    PROVE  l = "up" => serverUp
BY DEF ClientInv, Ensured, NotEnsured

(* Every step keeps the invariant.                                         *)
LEMMA NextOwns == IInv /\ [Next]_vars => IInv'
<1> SUFFICES ASSUME TypedCalls, TypedCalls', [Next]_vars,
                    \A c \in Clients : ClientInv(c)
             PROVE  \A c \in Clients : ClientInv(c)'
  <2>1. (TypedCalls /\ \A c \in Clients : ClientInv(c))' => IInv'
    BY ByClient, PTL
  <2> QED
    BY <2>1, ByClient, NextTyped
<1>0. TypeOK /\ \A c \in Clients : call[c] \in Calls /\ WellFormed(call[c])
  BY DEF TypedCalls, TypeOK, CallsWellFormed
<1>1. ASSUME NEW c \in Clients, OpenForward(c)
      PROVE  \A d \in Clients : ClientInv(d)'
  <2>1. Quiet(c)
    BY <1>0, <1>1 DEF OpenForward, Quiet, TypeOK
  <2>2. /\ link'[c] = "up" => serverUp
        /\ call'[c] = Request("OpenPrinter", [h |-> NoHandle, inc |-> 0])
    BY <1>0, <1>1, EnsuredUp DEF OpenForward, TypeOK
  <2>3. ClientInv(c)'
    BY <1>0, <1>1, <2>1, <2>2 DEF OpenForward, ClientInv, Request, TypeOK, Incs, Idle
  <2> QED
    BY <2>1, <2>3, QuietStep
<1>2. ASSUME NEW c \in Clients, OpenBypass(c)
      PROVE  \A d \in Clients : ClientInv(d)'
  <2>1. Quiet(c)
    BY <1>0, <1>2 DEF OpenBypass, Quiet, TypeOK
  <2>2. link'[c] = "up" => serverUp
    BY <1>0, <1>2, EnsuredUp DEF OpenBypass, TypeOK
  <2>3. \A p \in held'[c] : p \in held[c] \/ p.inc = 0
    BY <1>0, <1>2 DEF OpenBypass, TypeOK
  <2>4. ClientInv(c)'
    BY <1>0, <1>2, <2>2, <2>3 DEF OpenBypass, ClientInv, TypeOK, Incs, Idle, Objects
  <2> QED
    BY <2>1, <2>4, QuietStep
<1>3. ASSUME NEW c \in Clients, NEW op \in HookedOps, NEW p \in held[c],
             Forward(c, op, p)
      PROVE  \A d \in Clients : ClientInv(d)'
  <2>1. Quiet(c)
    BY <1>0, <1>3 DEF Forward, Quiet, TypeOK
  <2>2. /\ link'[c] = "up" => serverUp
        /\ call'[c] = Request(op, p)
    BY <1>0, <1>3, EnsuredUp DEF Forward, TypeOK
  <2>3. p.h \notin stray' => p.inc = epoch /\ p \in bx[c]
    BY <1>3 DEF Forward, ClientInv
  <2>4. /\ bx'[c] \subseteq bx[c] /\ held'[c] \subseteq held[c]
        /\ op # "ClosePrinter" => bx'[c] = bx[c]
        /\ op = "ClosePrinter" => /\ bx'[c] = {e \in bx[c] : e.h # p.h}
                                  /\ held'[c] = held[c] \ {p}
    BY <1>0, <1>3 DEF Forward, TypeOK, CloseBixolonPrinter, StillHeld
  <2>5. \A o \in held'[c] : o.inc = epoch /\ o.h \notin stray' => o \in bx'[c]
    <3> SUFFICES ASSUME NEW o \in held'[c], o.inc = epoch, o.h \notin stray'
                 PROVE  o \in bx'[c]
      OBVIOUS
    <3>1. o \in bx[c]
      BY <2>1, <2>4 DEF ClientInv, Quiet
    <3>2. CASE op = "ClosePrinter" /\ o.h = p.h
      <4>1. p.inc = epoch
        BY <2>3, <3>2
      <4>2. o = p
        BY <1>0, <2>4, <3>2, <4>1 DEF TypeOK, Objects
      <4> QED
        BY <2>4, <3>2, <4>2
    <3> QED
      BY <2>4, <3>1, <3>2
  <2>6. link'[c] = "up" /\ p.h \notin stray' => remote[p.h].owner = c
    BY <2>2, <2>3, <2>1 DEF ClientInv, Quiet
  <2>7. p.inc <= epoch
    BY DEF ClientInv
  <2>8. ClientInv(c)'
    BY <2>1, <2>2, <2>4, <2>5, <2>6, <2>7 DEF ClientInv, Request, Quiet
  <2> QED
    BY <2>1, <2>8, QuietStep
<1>4. ASSUME NEW c \in Clients, NEW op \in HookedOps, NEW p \in held[c],
             Bypass(c, op, p)
      PROVE  \A d \in Clients : ClientInv(d)'
  <2>1. Quiet(c)
    BY <1>0, <1>4 DEF Bypass, Quiet, TypeOK
  <2>2. link'[c] = "up" => serverUp
    BY <1>0, <1>4, EnsuredUp DEF Bypass, TypeOK
  <2>3. held'[c] \subseteq held[c]
    BY <1>0, <1>4 DEF Bypass, TypeOK, StillHeld
  <2>4. ClientInv(c)'
    BY <1>4, <2>2, <2>3 DEF Bypass, ClientInv, Idle
  <2> QED
    BY <2>1, <2>4, QuietStep
<1>5. ASSUME NEW c \in Clients, NEW p \in held[c], EndDocUnhooked(c, p)
      PROVE  \A d \in Clients : ClientInv(d)'
  BY <1>5, Frame DEF EndDocUnhooked
<1>6. ASSUME NEW c \in Clients, Send(c)
      PROVE  \A d \in Clients : ClientInv(d)'
  <2>1. Quiet(c)
    BY <1>0, <1>6 DEF Send, SendBroken, Quiet, TypeOK
  <2>2. /\ link'[c] = "up" => link[c] = "up"
        /\ bx'[c] = bx[c] /\ held'[c] = held[c] /\ stray' = stray
    BY <1>0, <1>6 DEF Send, SendBroken, TypeOK
  <2>3. \/ link'[c] = "up" /\ call'[c] = [call[c] EXCEPT !.stage = "sent"]
        \/ call'[c] = [call[c] EXCEPT !.stage = "lost"]
        \/ call'[c] = Idle
    BY <1>0, <1>6 DEF Send, SendBroken, TypeOK
  <2>4. call[c].stage = "send"
    BY <1>6 DEF Send, SendBroken
  <2>5. ASSUME call'[c] = Idle
        PROVE  ClientInv(c)'
    BY <1>0, <2>1, <2>2, <2>5 DEF ClientInv, Quiet, TypeOK, Incs, Idle
  <2>6. ASSUME call'[c] # Idle
        PROVE  ClientInv(c)'
    <3>1. PICK s \in {"sent", "lost"} :
            call'[c] = [call[c] EXCEPT !.stage = s] /\ (s = "sent" => link'[c] = "up")
      BY <2>3, <2>6
    <3>2. /\ call'[c].stage = s /\ call'[c].op = call[c].op
          /\ call'[c].h = call[c].h /\ call'[c].inc = call[c].inc
      BY <1>0, <3>1 DEF Calls
    <3> QED
      BY <2>1, <2>2, <2>4, <3>1, <3>2 DEF ClientInv, Quiet
  <2> QED
    BY <2>1, <2>5, <2>6, QuietStep
<1>7. ASSUME NEW c \in Clients, Return(c)
      PROVE  \A d \in Clients : ClientInv(d)'
  <2>1. Quiet(c)
    BY <1>0, <1>7 DEF Return, Opened, Quiet, TypeOK
  <2>2. call'[c] = Idle /\ link'[c] = link[c] /\ stray' = stray
    BY <1>0, <1>7 DEF Return, Opened, TypeOK
  <2>3. CASE call[c].op = "OpenPrinter" /\ call[c].res
    <3> DEFINE e == [h |-> call[c].h, inc |-> call[c].inc]
    <3>1. bx'[c] = bx[c] \cup {e} /\ held'[c] = held[c] \cup {e}
      BY <1>0, <1>7, <2>3 DEF Return, Opened, AddBixolonPrinter, TypeOK
    <3>2. /\ e.inc <= epoch
          /\ serverUp /\ e.inc = epoch /\ e.h \notin stray => remote[e.h].owner = c
      BY <1>7, <2>3 DEF Return, Opened, ClientInv
    <3> HIDE DEF e
    <3> QED
      BY <1>0, <2>1, <2>2, <3>1, <3>2 DEF ClientInv, Quiet, TypeOK, Incs, Idle
  <2>4. CASE ~(call[c].op = "OpenPrinter" /\ call[c].res)
    BY <1>0, <1>7, <2>1, <2>2, <2>4 DEF Return, Opened, ClientInv, Quiet, TypeOK, Incs, Idle
  <2> QED
    BY <2>1, <2>3, <2>4, QuietStep
<1>8. ASSUME NEW c \in Clients, ReceiveFails(c)
      PROVE  \A d \in Clients : ClientInv(d)'
  <2>1. Quiet(c)
    BY <1>0, <1>8 DEF ReceiveFails, Quiet, TypeOK
  <2>2. ClientInv(c)'
    BY <1>0, <1>8 DEF ReceiveFails, ClientInv, TypeOK, Incs, Idle
  <2> QED
    BY <2>1, <2>2, QuietStep
<1>9. ASSUME NEW c \in Clients, Serve(c)
      PROVE  \A d \in Clients : ClientInv(d)'
  <2>1. PICK res \in BOOLEAN, h2 \in Handles \cup {NoHandle} :
          /\ Handle(c, call[c].op, call[c].h, res, h2)
          /\ call' = [call EXCEPT ![c] = Answered(@, res, h2)]
    BY <1>9 DEF Serve
  <2>2. /\ serverUp /\ call[c].stage = "sent"
        /\ call[c].op # "OpenPrinter" => call[c].h \in Handles
    BY <1>0, <1>9 DEF Serve, WellFormed
  <2>3. \A g \in Handles :
          remote[g].owner \in Clients =>
             \/ remote'[g].owner = remote[g].owner
             \/ call[c].op = "ClosePrinter" /\ g = call[c].h
    BY <1>0, <2>1, <2>2, HandleEffect
  <2>4. call[c].op = "ClosePrinter" /\ call[c].h \notin stray
          => remote[call[c].h].owner = c
    BY <2>2 DEF ClientInv
  <2>5. ASSUME NEW d \in Clients, d # c
        PROVE  ClientInv(d)'
    <3>1. \A g \in Handles : g \notin stray' /\ remote[g].owner = d
                                => remote'[g].owner = d
      BY <1>9, <2>3, <2>4, <2>5 DEF Serve
    <3>2. call'[d] = call[d]
      BY <1>0, <2>1, <2>5 DEF TypeOK
    <3> QED
      BY <1>9, <3>1, <3>2, Frame DEF Serve
  <2>6. ClientInv(c)'
    <3>1. call'[c] = Answered(call[c], res, h2)
      BY <1>0, <2>1 DEF TypeOK
    <3>2. /\ call'[c].stage = "served" /\ call'[c].op = call[c].op
          /\ call'[c].h = h2 /\ call'[c].inc = epoch /\ call'[c].res = res
      BY <3>1 DEF Answered
    <3>3. call[c].op = "OpenPrinter" /\ res => remote'[h2].owner = c
      BY <1>0, <2>1 DEF Handle, TypeOK, Handles
    <3>4. \A e \in bx[c] : e.h \in Handles /\ (call[c].op = "ClosePrinter" => e.h # call[c].h)
      BY <1>0, <2>2 DEF ClientInv, TypeOK, Objects
    <3>5. \A e \in bx[c] :
            e.inc = epoch /\ e.h \notin stray => remote'[e.h].owner = c
      BY <2>2, <2>3, <3>4 DEF ClientInv
    <3>6. /\ link' = link /\ bx' = bx /\ held' = held /\ serverUp' = serverUp
          /\ epoch' = epoch /\ stray' = stray
      BY <1>9 DEF Serve
    <3> QED
      BY <1>0, <3>2, <3>3, <3>5, <3>6 DEF ClientInv, TypeOK, Incs
  <2> QED
    BY <2>5, <2>6
<1>10. ASSUME NEW r \in lingering, ServeLingering(r)
       PROVE  \A d \in Clients : ClientInv(d)'
  <2>1. r.client \in Clients /\ (r.op # "OpenPrinter" => r.h \in Handles)
    BY <1>0 DEF TypedCalls, TypeOK, LingeringRequests, CallsWellFormed
  <2>2. \A g \in Handles :
          remote[g].owner \in Clients =>
             \/ remote'[g].owner = remote[g].owner
             \/ r.op = "ClosePrinter" /\ g = r.h
    <3>1. PICK res \in BOOLEAN, h2 \in Handles \cup {NoHandle} :
            Handle(r.client, r.op, r.h, res, h2)
      BY <1>10 DEF ServeLingering
    <3> QED
      BY <1>0, <2>1, <3>1, HandleEffect
  <2>3. r.op = "ClosePrinter" => r.h \in stray'
    BY <1>10 DEF ServeLingering
  <2> QED
    BY <1>10, <2>2, <2>3, Frame DEF ServeLingering
<1>11. ASSUME NEW c \in Clients, ConnectionLost(c)
       PROVE  \A d \in Clients : ClientInv(d)'
  <2>1. Quiet(c)
    BY <1>0, <1>11 DEF ConnectionLost, Quiet, TypeOK
  <2>2. link'[c] = "broken"
    BY <1>0, <1>11 DEF ConnectionLost, TypeOK
  <2>3. \/ call'[c] = [call[c] EXCEPT !.stage = "lost"]
        \/ call'[c] = call[c] /\ call[c].stage # "sent"
    <3>1. PICK lostReplies \in SUBSET {c} :
            call' = [call EXCEPT ![c].stage =
                       IF Loses(c, lostReplies) THEN "lost" ELSE @]
      BY <1>11 DEF ConnectionLost
    <3>2. CASE Loses(c, lostReplies)
      BY <1>0, <3>1, <3>2 DEF TypeOK
    <3>3. CASE ~Loses(c, lostReplies)
      BY <1>0, <3>1, <3>3 DEF TypeOK, Calls, Loses
    <3> QED
      BY <3>2, <3>3
  <2>4. bx'[c] = bx[c] /\ held'[c] = held[c] /\ stray' = stray
    BY <1>11 DEF ConnectionLost
  <2>5. ClientInv(c)'
    <3>1. /\ call'[c].stage # "lost" =>
             call'[c].stage = call[c].stage /\ call[c].stage # "sent"
          /\ call'[c].op = call[c].op /\ call'[c].h = call[c].h
          /\ call'[c].inc = call[c].inc /\ call'[c].res = call[c].res
      BY <1>0, <2>3 DEF Calls
    <3> QED
      BY <2>1, <2>2, <2>4, <3>1 DEF ClientInv, Quiet
  <2> QED
    BY <2>1, <2>5, QuietStep
<1>12. ASSUME ServerStops
       PROVE  \A d \in Clients : ClientInv(d)'
  <2> TAKE d \in Clients
  <2>1. link'[d] # "up" /\ ~serverUp'
    BY <1>12 DEF ServerStops
  <2>2. \/ call'[d] = [call[d] EXCEPT !.stage = "lost"]
        \/ call'[d] = call[d] /\ call[d].stage # "sent"
    BY <1>12 DEF ServerStops, Loses, ClientInv
  <2>3. bx' = bx /\ held' = held /\ stray' = stray /\ epoch' = epoch
    BY <1>12 DEF ServerStops
  <2>4. /\ call'[d].stage # "lost" =>
             call'[d].stage = call[d].stage /\ call[d].stage # "sent"
        /\ call'[d].op = call[d].op /\ call'[d].h = call[d].h
        /\ call'[d].inc = call[d].inc
    BY <1>0, <2>2 DEF Calls
  <2> QED
    BY <2>1, <2>3, <2>4 DEF ClientInv
<1>13. ASSUME ServerStarts
       PROVE  \A d \in Clients : ClientInv(d)'
  <2> TAKE d \in Clients
  <2>1. link[d] # "up" /\ call[d].stage # "sent"
    BY <1>13 DEF ServerStarts, ClientInv
  <2>2. /\ link' = link /\ call' = call /\ bx' = bx /\ held' = held
        /\ epoch' = epoch + 1
    BY <1>13 DEF ServerStarts
  <2>3. /\ epoch \in Nat /\ call[d].inc \in Nat
        /\ \A e \in bx[d] \cup held[d] : e.inc \in Nat
    BY <1>0, ConstantsAssumption DEF TypeOK, Incs, Calls, Objects
  <2>4. /\ call[d].inc < epoch'
        /\ \A e \in bx[d] \cup held[d] : e.inc < epoch'
    BY <2>2, <2>3 DEF ClientInv
  <2>5. /\ call[d].inc <= epoch' /\ call[d].inc # epoch'
        /\ \A e \in bx[d] \cup held[d] : e.inc <= epoch' /\ e.inc # epoch'
    BY <2>2, <2>3, <2>4
  <2> QED
    BY <2>1, <2>2, <2>5 DEF ClientInv
<1>14. ASSUME NEW c \in Clients, ProcessExits(c)
       PROVE  \A d \in Clients : ClientInv(d)'
  <2>1. Quiet(c)
    BY <1>0, <1>14 DEF ProcessExits, Quiet, TypeOK
  <2>2. ClientInv(c)'
    BY <1>0, <1>14 DEF ProcessExits, ClientInv, TypeOK, Incs, Idle
  <2> QED
    BY <2>1, <2>2, QuietStep
<1>15. CASE UNCHANGED vars
  BY <1>15, Frame DEF vars
<1> QED
  BY <1>1, <1>2, <1>3, <1>4, <1>5, <1>6, <1>7, <1>8, <1>9, <1>10, <1>11, <1>12,
     <1>13, <1>14, <1>15
  DEF Next, ClientStep

(* The inductive invariant holds in every behaviour.                       *)
THEOREM Ownership == Spec => []IInv
  BY InitOwns, NextOwns, PTL DEF Spec

(* What a client lists from the running server is open and its own.        *)
THEOREM ListedHandlesAreOpen == Spec => []ListedIsOpen
  BY Ownership, PTL DEF IInv

(* What an application holds from the running server is listed.            *)
THEOREM HeldHandlesAreListed == Spec => []HeldIsListed
  BY Ownership, PTL DEF IInv

(* A request is executed only on a handle of the client which sent it.     *)
THEOREM RequestsReachOwnHandles == Spec => []RequestReachesOwnHandle
  BY Ownership, PTL DEF IInv

(* A step that changes an open handle serves its opener, or the value is   *)
(* stray, or the server stops.                                             *)
THEOREM HandlesUntouchedByOthers == Spec => OthersHandlesUntouched
<1> DEFINE A == \A h \in Handles :
          remote[h] # Free /\ remote'[h] # remote[h] /\ serverUp' /\ h \notin stray'
            => LET c == remote[h].owner IN
               call[c].stage = "sent" /\ call[c].h = h /\ call'[c].stage = "served"
<1>1. IInv /\ [Next]_vars => [A]_vars
  <2> SUFFICES ASSUME IInv, Next, NEW h \in Handles, remote[h] # Free,
                      remote'[h] # remote[h], serverUp', h \notin stray'
               PROVE  /\ call[remote[h].owner].stage = "sent"
                      /\ call[remote[h].owner].h = h
                      /\ call'[remote[h].owner].stage = "served"
    OBVIOUS
  <2>0. TypeOK /\ CallsWellFormed
    BY DEF IInv
  <2>1. ASSUME NEW c \in Clients, Serve(c)
        PROVE  /\ call[c].stage = "sent" /\ call[c].h = h
               /\ call'[c].stage = "served" /\ remote[h].owner = c
    <3>1. PICK res \in BOOLEAN, h2 \in Handles \cup {NoHandle} :
            /\ Handle(c, call[c].op, call[c].h, res, h2)
            /\ call' = [call EXCEPT ![c] = Answered(@, res, h2)]
      BY <2>1 DEF Serve
    <3>2. call[c].stage = "sent" /\ stray' = stray
      BY <2>1 DEF Serve
    <3>3. call[c].op # "OpenPrinter" /\ call[c].h = h
      BY <2>0, <3>1 DEF Handle, TypeOK, Handles
    <3>4. remote[h].owner = c
      BY <3>2, <3>3 DEF IInv, RequestReachesOwnHandle
    <3>5. call'[c].stage = "served"
      BY <2>0, <3>1 DEF TypeOK, Answered
    <3> QED
      BY <3>2, <3>3, <3>4, <3>5
  <2>2. ASSUME NEW r \in lingering, ServeLingering(r)
        PROVE  FALSE
    <3>1. PICK res \in BOOLEAN, h2 \in Handles \cup {NoHandle} :
            Handle(r.client, r.op, r.h, res, h2)
      BY <2>2 DEF ServeLingering
    <3>2. r.op # "OpenPrinter" /\ r.h = h
      BY <2>0, <3>1 DEF Handle, TypeOK, Handles
    <3> QED
      BY <2>2, <3>2 DEF ServeLingering
  <2>3. CASE \E c \in Clients : ClientStep(c) \/ ConnectionLost(c) \/ ProcessExits(c)
    BY ZenonT(60), <2>3 DEF ClientStep, OpenForward, OpenBypass, Forward, Bypass, EndDocUnhooked,
                Send, Return, ReceiveFails, ConnectionLost, ProcessExits
  <2>4. CASE ServerStops \/ ServerStarts
    BY <2>4 DEF ServerStops, ServerStarts
  <2> QED
    BY <2>1, <2>2, <2>3, <2>4 DEF Next
<1> QED
  BY <1>1, Ownership, PTL DEF Spec, OthersHandlesUntouched

-----------------------------------------------------------------------------
(* What holds when the local spooler and the server hand out different     *)
(* values, and, up to the end of the module, before the first failure.     *)

Apart == LocalHandles \cap RemoteHandles = {}

-----------------------------------------------------------------------------
(* The two kinds of handles.                                               *)

(* What a client lists, and what the server has opened for it, are remote  *)
(* values; what the local spooler has opened are local ones.               *)
Kind(c) ==
    /\ \A e \in bx[c] : e.h \in RemoteHandles
    /\ \A p \in held[c] : p.inc = 0 => p.h \in LocalHandles
    /\ call[c].stage \in {"send", "sent"} /\ call[c].op # "OpenPrinter"
         => call[c].inc # 0
    /\ call[c].stage = "served" /\ call[c].op = "OpenPrinter" /\ call[c].res
         => call[c].h \in RemoteHandles /\ call[c].inc # 0

KindsInv == TypedCalls /\ (Apart => \A c \in Clients : Kind(c))

(* Only the list, the handles and the call of a client matter for it.      *)
LEMMA KindFrame ==
    ASSUME NEW d, Kind(d), bx'[d] = bx[d], held'[d] = held[d], call'[d] = call[d]
    PROVE  Kind(d)'
BY DEF Kind

LEMMA InitKinds == Init => KindsInv
BY InitTyped DEF Init, KindsInv, Kind, Idle

(* Every step keeps the kinds apart.                                       *)
LEMMA NextKinds == KindsInv /\ [Next]_vars => KindsInv'
<1> SUFFICES ASSUME TypedCalls, TypedCalls', [Next]_vars, Apart,
                    \A c \in Clients : Kind(c)
             PROVE  \A c \in Clients : Kind(c)'
  BY NextTyped DEF KindsInv, Apart
<1>0. TypeOK /\ \A c \in Clients : call[c] \in Calls
  BY DEF TypedCalls, TypeOK
<1>1. ASSUME NEW c \in Clients, OpenForward(c)
      PROVE  \A d \in Clients : Kind(d)'
  BY <1>0, <1>1 DEF OpenForward, Kind, Request, TypeOK
<1>2. ASSUME NEW c \in Clients, OpenBypass(c)
      PROVE  \A d \in Clients : Kind(d)'
  <2>1. bx' = bx /\ call' = call
    BY <1>2 DEF OpenBypass
  <2>2. \A d \in Clients : \A p \in held'[d] :
          p \in held[d] \/ p.h \in LocalHandles
    BY SMTT(30), <1>0, <1>2 DEF OpenBypass, TypeOK
  <2> QED
    BY <2>1, <2>2 DEF Kind
<1>3. ASSUME NEW c \in Clients, NEW op \in HookedOps, NEW p \in held[c],
             Forward(c, op, p)
      PROVE  \A d \in Clients : Kind(d)'
  <2>1. \A d \in Clients : bx'[d] \subseteq bx[d] /\ held'[d] \subseteq held[d]
    BY <1>0, <1>3 DEF Forward, TypeOK, CloseBixolonPrinter, StillHeld
  <2>2. \A d \in Clients \ {c} : call'[d] = call[d]
    BY <1>0, <1>3 DEF Forward, TypeOK
  <2>3. call'[c].stage = "send" /\ call'[c].inc = p.inc
    BY <1>0, <1>3 DEF Forward, TypeOK, Request
  <2>4. p.inc # 0
    BY <1>3 DEF Forward, IsBixolonPrinterByHandle, Kind, Apart
  <2> QED
    BY <2>1, <2>2, <2>3, <2>4 DEF Kind
<1>4. ASSUME NEW c \in Clients, NEW op \in HookedOps, NEW p \in held[c],
             Bypass(c, op, p)
      PROVE  \A d \in Clients : Kind(d)'
  <2>1. \A d \in Clients : held'[d] \subseteq held[d]
    BY <1>0, <1>4 DEF Bypass, TypeOK, StillHeld
  <2> QED
    BY <1>4, <2>1 DEF Bypass, Kind
<1>5. ASSUME NEW c \in Clients, Send(c)
      PROVE  \A d \in Clients : Kind(d)'
  <2>1. \A d \in Clients \ {c} : call'[d] = call[d]
    BY <1>0, <1>5 DEF Send, SendBroken, TypeOK
  <2>2. \/ call'[c].stage \in {"lost", "idle"}
        \/ /\ call'[c].stage = "sent" /\ call[c].stage = "send"
           /\ call'[c].op = call[c].op /\ call'[c].inc = call[c].inc
    BY <1>0, <1>5 DEF Send, SendBroken, TypeOK, Calls, Idle
  <2> QED
    BY <1>5, <2>1, <2>2 DEF Send, Kind
<1>6. ASSUME NEW c \in Clients, Return(c)
      PROVE  \A d \in Clients : Kind(d)'
  <2>1. \A d \in Clients \ {c} :
          call'[d] = call[d] /\ bx'[d] = bx[d] /\ held'[d] = held[d]
    BY <1>0, <1>6 DEF Return, TypeOK
  <2>2. call'[c].stage = "idle"
    BY <1>0, <1>6 DEF Return, TypeOK, Idle
  <2>3. CASE Opened(call[c])
    <3> DEFINE e == [h |-> call[c].h, inc |-> call[c].inc]
    <3>1. bx'[c] = bx[c] \cup {e} /\ held'[c] = held[c] \cup {e}
      BY <1>0, <1>6, <2>3 DEF Return, AddBixolonPrinter, TypeOK
    <3>2. e.h \in RemoteHandles /\ e.inc # 0
      BY <1>6, <2>3 DEF Return, Opened, Kind
    <3> HIDE DEF e
    <3> QED
      BY <2>1, <2>2, <3>1, <3>2 DEF Kind
  <2>4. CASE ~Opened(call[c])
    BY <1>6, <2>1, <2>2, <2>4 DEF Return, Kind
  <2> QED
    BY <2>3, <2>4
<1>7. ASSUME NEW c \in Clients, Serve(c)
      PROVE  \A d \in Clients : Kind(d)'
  <2>1. PICK res \in BOOLEAN, h2 \in Handles \cup {NoHandle} :
          /\ Handle(c, call[c].op, call[c].h, res, h2)
          /\ call' = [call EXCEPT ![c] = Answered(@, res, h2)]
    BY <1>7 DEF Serve
  <2>2. /\ call'[c].stage = "served" /\ call'[c].op = call[c].op
        /\ call'[c].h = h2 /\ call'[c].inc = epoch /\ call'[c].res = res
        /\ \A d \in Clients \ {c} : call'[d] = call[d]
    BY <1>0, <2>1 DEF TypeOK, Answered
  <2>3. call[c].op = "OpenPrinter" /\ res => h2 \in RemoteHandles
    BY <2>1 DEF Handle
  <2>4. epoch # 0
    BY <1>0 DEF TypeOK
  <2> QED
    BY <1>7, <2>2, <2>3, <2>4 DEF Serve, Kind
<1>8. ASSUME NEW c \in Clients, ReceiveFails(c) \/ ProcessExits(c)
      PROVE  \A d \in Clients : Kind(d)'
  BY <1>0, <1>8 DEF ReceiveFails, ProcessExits, Kind, TypeOK, Idle
<1>9. ASSUME NEW c \in Clients, ConnectionLost(c)
      PROVE  \A d \in Clients : Kind(d)'
  <2>1. \A d \in Clients :
          call'[d] = call[d] \/ call'[d] = [call[d] EXCEPT !.stage = "lost"]
    BY <1>0, <1>9 DEF ConnectionLost, TypeOK, Calls
  <2>2. \A d \in Clients : call'[d] = call[d] \/ call'[d].stage = "lost"
    BY <1>0, <2>1 DEF Calls
  <2> QED
    BY <1>9, <2>2 DEF ConnectionLost, Kind
<1>10. ASSUME ServerStops
       PROVE  \A d \in Clients : Kind(d)'
  <2>1. \A d \in Clients :
          call'[d] = call[d] \/ call'[d] = [call[d] EXCEPT !.stage = "lost"]
    BY <1>10 DEF ServerStops
  <2>2. \A d \in Clients : call'[d] = call[d] \/ call'[d].stage = "lost"
    BY <1>0, <2>1 DEF Calls
  <2> QED
    BY <1>10, <2>2 DEF ServerStops, Kind
<1>11. CASE \/ ServerStarts \/ UNCHANGED vars
            \/ \E c \in Clients : \E p \in held[c] : EndDocUnhooked(c, p)
            \/ \E r \in lingering : ServeLingering(r)
  BY <1>11, KindFrame DEF ServerStarts, vars, EndDocUnhooked, ServeLingering
<1> QED
  BY <1>1, <1>2, <1>3, <1>4, <1>5, <1>6, <1>7, <1>8, <1>9, <1>10, <1>11
  DEF Next, ClientStep

(* While local and remote values differ, no call on a local handle is ever *)
(* sent to the server.                                                     *)
THEOREM LocalCallsStayLocal == Spec => []LocalStaysLocal
<1>1. KindsInv => LocalStaysLocal
  BY DEF KindsInv, Kind, LocalStaysLocal, Apart, TypedCalls, TypeOK, Calls, Incs
<1> QED
  BY <1>1, InitKinds, NextKinds, PTL DEF Spec

-----------------------------------------------------------------------------
(* Before the first failure.                                               *)

(* A client before the first failure: its connection is whole, its call is *)
(* for the running server, and so is every remote handle it holds.         *)
Calm(c) ==
    /\ link[c] # "broken"
    /\ call[c].stage # "lost"
    /\ call[c].stage # "idle" => serverUp
    /\ call[c].stage = "send" => link[c] = "up"
    /\ \A p \in held[c] : p.inc # 0 => p.inc = epoch /\ serverUp
    /\ call[c].stage = "served" => call[c].inc = epoch

(* An open handle of the server is listed by its opener, or on its way     *)
(* there, or about to be closed.                                           *)
Kept(h) ==
    /\ remote[h].owner \in Clients
    /\ \/ \E e \in bx[remote[h].owner] : e.h = h
       \/ /\ call[remote[h].owner].stage = "served"
          /\ call[remote[h].owner].op = "OpenPrinter"
          /\ call[remote[h].owner].res
          /\ call[remote[h].owner].h = h
       \/ /\ call[remote[h].owner].stage \in {"send", "sent"}
          /\ call[remote[h].owner].op = "ClosePrinter"
          /\ call[remote[h].owner].h = h

CalmTable ==
    /\ ~serverUp => \A h \in Handles : remote[h] = Free
    /\ \A h \in Handles : remote[h].phase = "free" => remote[h] = Free
    /\ \A h \in Handles : remote[h] # Free => Kept(h)

AllCalm ==
    stray = {} /\ lingering = {} /\ CalmTable /\ \A c \in Clients : Calm(c)

CalmInv == IInv /\ KindsInv /\ (Apart /\ faults = 0 => AllCalm)

LEMMA InitCalm == Init => CalmInv
BY InitKinds, InitOwns DEF Init, CalmInv, AllCalm, CalmTable, Calm, Idle, Free

(* The handler's effect on the table, seen from any handle.                *)
LEMMA HandleTable ==
    ASSUME TypeOK, CalmTable, NEW c \in Clients, NEW op, NEW h, NEW h2,
           NEW res \in BOOLEAN, op # "OpenPrinter" => h \in Handles,
           Handle(c, op, h, res, h2)
    PROVE  \A g \in Handles :
             /\ remote'[g].phase = "free" => remote'[g] = Free
             /\ remote'[g] # Free =>
                  \/ op = "OpenPrinter" /\ res /\ g = h2 /\ remote'[g].owner = c
                  \/ /\ remote[g] # Free /\ remote'[g].owner = remote[g].owner
                     /\ op = "ClosePrinter" => g # h
<1> TAKE g \in Handles
<1>1. CASE remote' # remote /\ op = "OpenPrinter"
  BY <1>1 DEF Handle, TypeOK, CalmTable, Handles
<1>2. CASE remote' # remote /\ op # "OpenPrinter"
  <2>1. PICK q \in Phases :
          /\ Performed(op, remote[h].phase, q)
          /\ remote' = [remote EXCEPT ![h] =
                          IF q = "free" THEN Free ELSE [@ EXCEPT !.phase = q]]
    BY <1>2 DEF Handle
  <2>2. op = "ClosePrinter" => q = "free"
    BY <2>1 DEF Performed, Transitions
  <2>3. remote[h].phase # "free" => remote[h] # Free
    BY DEF Free
  <2>4. remote[h].phase # "free"
    BY <2>1 DEF Performed, Transitions
  <2>5. CASE g = h
    BY <1>2, <2>1, <2>2, <2>3, <2>4, <2>5 DEF TypeOK
  <2>6. CASE g # h
    BY <1>2, <2>1, <2>6 DEF TypeOK, CalmTable
  <2> QED
    BY <2>5, <2>6
<1>3. CASE remote' = remote
  <2>1. op = "ClosePrinter" => remote[h].phase = "free"
    <3>1. SUFFICES ASSUME op = "ClosePrinter", remote[h].phase # "free" PROVE FALSE
      OBVIOUS
    <3>2. PICK q \in Phases :
            /\ Performed(op, remote[h].phase, q)
            /\ remote' = [remote EXCEPT ![h] =
                            IF q = "free" THEN Free ELSE [@ EXCEPT !.phase = q]]
      BY <3>1 DEF Handle, Refusable
    <3>3. remote'[h] = Free
      BY <3>1, <3>2 DEF Performed, Transitions, TypeOK
    <3> QED
      BY <1>3, <3>1, <3>3 DEF Free
  <2>2. op = "ClosePrinter" => remote[h] = Free
    BY <2>1 DEF CalmTable
  <2> QED
    BY <1>3, <2>2 DEF CalmTable
<1> QED
  BY <1>1, <1>2, <1>3

(* A handle stays kept when its opener has taken no part in the step.      *)
LEMMA KeptFrame ==
    ASSUME NEW g, Kept(g), remote'[g].owner = remote[g].owner,
           call'[remote[g].owner] = call[remote[g].owner],
           bx'[remote[g].owner] = bx[remote[g].owner]
    PROVE  Kept(g)'
BY DEF Kept

(* Nothing fails: every step keeps everything calm.                        *)
LEMMA NextCalm ==
    ASSUME IInv, KindsInv, Apart, AllCalm, faults = 0, faults' = 0, [Next]_vars
    PROVE  AllCalm'
<1>0. /\ TypeOK /\ CallsWellFormed
      /\ \A c \in Clients : call[c] \in Calls
      /\ \A c \in Clients : Calm(c) /\ Kind(c)
      /\ \A c \in Clients : link[c] = "up" => serverUp
  BY DEF IInv, TypeOK, KindsInv, AllCalm, ConnectionsLive
<1>f. ~Fault
  BY DEF Fault
<1>1. ASSUME NEW c \in Clients, OpenForward(c)
      PROVE  AllCalm'
  <2>1. link'[c] = "up" /\ serverUp
    BY <1>0, <1>1 DEF OpenForward, Ensured, Calm, TypeOK
  <2>2. \A d \in Clients : Calm(d)'
    BY <1>0, <1>1, <2>1 DEF OpenForward, Calm, Request, TypeOK
  <2>3. CalmTable'
    <3>1. \A h \in Handles : remote[h] # Free => Kept(h)'
      BY SMTT(30), <1>0, <1>1 DEF OpenForward, AllCalm, CalmTable, Kept, Idle, TypeOK
    <3> QED
      BY <1>1, <3>1 DEF OpenForward, AllCalm, CalmTable
  <2> QED
    BY <1>1, <2>2, <2>3 DEF OpenForward, AllCalm
<1>2. ASSUME NEW c \in Clients, OpenBypass(c)
      PROVE  AllCalm'
  <2>1. \A d \in Clients : link'[d] # "broken" /\ (link[d] = "up" => link'[d] = "up")
    BY <1>0, <1>2 DEF OpenBypass, Ensured, NotEnsured, Calm, TypeOK
  <2>2. \A d \in Clients : \A p \in held'[d] : p \in held[d] \/ p.inc = 0
    BY <1>0, <1>2 DEF OpenBypass, TypeOK
  <2>3. \A d \in Clients : Calm(d)'
    BY <1>0, <1>2, <2>1, <2>2 DEF OpenBypass, Calm
  <2>4. CalmTable'
    BY <1>2 DEF OpenBypass, AllCalm, CalmTable, Kept
  <2> QED
    BY <1>2, <2>3, <2>4 DEF OpenBypass, AllCalm
<1>3. ASSUME NEW c \in Clients, NEW op \in HookedOps, NEW p \in held[c],
             Forward(c, op, p)
      PROVE  AllCalm'
  <2>1. link'[c] = "up" /\ serverUp
    BY <1>0, <1>3 DEF Forward, Ensured, Calm, TypeOK
  <2>2. p.inc = epoch
    <3>1. p.h \in RemoteHandles
      BY <1>0, <1>3 DEF Forward, IsBixolonPrinterByHandle, Kind
    <3> QED
      BY <1>0, <3>1 DEF Apart, Kind, Calm
  <2>3. stray' = {}
    BY <1>3, <2>2 DEF Forward, AllCalm
  <2>4. \A d \in Clients : held'[d] \subseteq held[d]
    BY <1>0, <1>3 DEF Forward, TypeOK, StillHeld
  <2>5. \A d \in Clients : Calm(d)'
    BY <1>0, <1>3, <2>1, <2>4 DEF Forward, Calm, Request, TypeOK
  <2>6. \A h \in Handles : remote[h] # Free => Kept(h)'
    <3> SUFFICES ASSUME NEW h \in Handles, remote[h] # Free PROVE Kept(h)'
      OBVIOUS
    <3>1. Kept(h) /\ remote' = remote
      BY SMTT(30), <1>3 DEF AllCalm, CalmTable, Forward
    <3>2. CASE remote[h].owner # c
      BY <1>0, <1>3, <3>1, <3>2, KeptFrame DEF Forward, TypeOK, Kept
    <3>3. CASE remote[h].owner = c
      <4>1. \E e \in bx[c] : e.h = h
        BY <1>3, <3>1, <3>3 DEF Kept, Forward, Idle
      <4>2. /\ call'[c].stage = "send" /\ call'[c].op = op /\ call'[c].h = p.h
            /\ bx'[c] = IF op = "ClosePrinter" THEN {e \in bx[c] : e.h # p.h}
                        ELSE bx[c]
        BY <1>0, <1>3 DEF Forward, TypeOK, Request, CloseBixolonPrinter
      <4> QED
        BY <3>1, <3>3, <4>1, <4>2 DEF Kept
    <3> QED
      BY <3>2, <3>3
  <2>7. CalmTable'
    BY <1>3, <2>6 DEF Forward, AllCalm, CalmTable
  <2> QED
    BY <1>3, <2>3, <2>5, <2>7 DEF Forward, AllCalm
<1>4. ASSUME NEW c \in Clients, NEW op \in HookedOps, NEW p \in held[c],
             Bypass(c, op, p)
      PROVE  AllCalm'
  <2>1. \A d \in Clients : link'[d] # "broken" /\ (link[d] = "up" => link'[d] = "up")
    BY <1>0, <1>4 DEF Bypass, Ensured, NotEnsured, Calm, TypeOK
  <2>2. \A d \in Clients : held'[d] \subseteq held[d]
    BY <1>0, <1>4 DEF Bypass, TypeOK, StillHeld
  <2>3. \A d \in Clients : Calm(d)'
    BY <1>0, <1>4, <2>1, <2>2 DEF Bypass, Calm
  <2>4. CalmTable'
    BY <1>4 DEF Bypass, AllCalm, CalmTable, Kept
  <2> QED
    BY <1>4, <2>3, <2>4 DEF Bypass, AllCalm
<1>5. ASSUME NEW c \in Clients, Send(c)
      PROVE  AllCalm'
  <2>1. link' = link /\ call' = [call EXCEPT ![c].stage = "sent"] /\ call[c].stage = "send"
    BY <1>0, <1>5 DEF Send, Calm
  <2>2. /\ call'[c].stage = "sent" /\ call'[c].op = call[c].op
        /\ call'[c].h = call[c].h
        /\ \A d \in Clients \ {c} : call'[d] = call[d]
    BY <1>0, <2>1 DEF TypeOK, Calls
  <2>3. \A d \in Clients : Calm(d)'
    BY <1>0, <1>5, <2>1, <2>2 DEF Send, Calm
  <2>4. \A h \in Handles : remote[h] # Free => Kept(h)'
    <3>1. bx' = bx /\ remote' = remote
      BY <1>5 DEF Send
    <3> QED
      BY <2>1, <2>2, <3>1 DEF AllCalm, CalmTable, Kept
  <2>5. CalmTable'
    BY <1>5, <2>4 DEF Send, AllCalm, CalmTable
  <2> QED
    BY <1>5, <2>3, <2>5 DEF Send, AllCalm
<1>6. ASSUME NEW c \in Clients, Return(c)
      PROVE  AllCalm'
  <2>1. /\ call'[c] = Idle
        /\ \A d \in Clients \ {c} :
             call'[d] = call[d] /\ bx'[d] = bx[d] /\ held'[d] = held[d]
    BY <1>0, <1>6 DEF Return, TypeOK
  <2>2. \/ bx'[c] = bx[c] /\ held'[c] = held[c] /\ ~Opened(call[c])
        \/ /\ Opened(call[c])
           /\ bx'[c] = bx[c] \cup {[h |-> call[c].h, inc |-> call[c].inc]}
           /\ held'[c] = held[c] \cup {[h |-> call[c].h, inc |-> call[c].inc]}
    BY <1>0, <1>6 DEF Return, AddBixolonPrinter, TypeOK
  <2>3. call[c].stage = "served" /\ serverUp /\ call[c].inc = epoch
    BY <1>0, <1>6 DEF Return, Calm
  <2>4. \A d \in Clients : Calm(d)'
    BY <1>0, <1>6, <2>1, <2>2, <2>3 DEF Return, Calm, Idle
  <2>5. \A h \in Handles : remote[h] # Free => Kept(h)'
    <3> SUFFICES ASSUME NEW h \in Handles, remote[h] # Free PROVE Kept(h)'
      OBVIOUS
    <3>1. Kept(h) /\ remote' = remote
      BY SMTT(30), <1>6 DEF AllCalm, CalmTable, Return
    <3>2. CASE remote[h].owner # c
      BY <2>1, <3>1, <3>2, KeptFrame DEF Kept
    <3>3. CASE remote[h].owner = c
      <4>1. \/ \E e \in bx[c] : e.h = h
            \/ Opened(call[c]) /\ call[c].h = h
        BY <2>3, <3>1, <3>3 DEF Kept, Opened
      <4>2. \E e \in bx'[c] : e.h = h
        <5>1. CASE Opened(call[c]) /\ call[c].h = h
          <6> DEFINE e == [h |-> call[c].h, inc |-> call[c].inc]
          <6>1. e \in bx'[c] /\ e.h = h
            BY <2>2, <5>1
          <6> QED
            BY <6>1
        <5> QED
          BY <2>2, <4>1, <5>1
      <4> QED
        BY <3>1, <3>3, <4>2 DEF Kept
    <3> QED
      BY <3>2, <3>3
  <2>6. CalmTable'
    BY <1>6, <2>5 DEF Return, AllCalm, CalmTable
  <2> QED
    BY <1>6, <2>4, <2>6 DEF Return, AllCalm
<1>7. ASSUME NEW c \in Clients, Serve(c)
      PROVE  AllCalm'
  <2>1. PICK res \in BOOLEAN, h2 \in Handles \cup {NoHandle} :
          /\ Handle(c, call[c].op, call[c].h, res, h2)
          /\ call' = [call EXCEPT ![c] = Answered(@, res, h2)]
    BY <1>7 DEF Serve
  <2>2. /\ call'[c].stage = "served" /\ call'[c].op = call[c].op
        /\ call'[c].h = h2 /\ call'[c].inc = epoch /\ call'[c].res = res
        /\ \A d \in Clients \ {c} : call'[d] = call[d]
    BY <1>0, <2>1 DEF TypeOK, Answered
  <2>3. call[c].op # "OpenPrinter" => call[c].h \in Handles
    BY <1>0, <1>7 DEF Serve, CallsWellFormed, WellFormed
  <2>4. \A g \in Handles :
          /\ remote'[g].phase = "free" => remote'[g] = Free
          /\ remote'[g] # Free =>
               \/ call[c].op = "OpenPrinter" /\ res /\ g = h2 /\ remote'[g].owner = c
               \/ /\ remote[g] # Free /\ remote'[g].owner = remote[g].owner
                  /\ call[c].op = "ClosePrinter" => g # call[c].h
    BY <1>0, <2>1, <2>3, HandleTable DEF AllCalm
  <2>5. \A g \in Handles : remote'[g] # Free => Kept(g)'
    <3> SUFFICES ASSUME NEW g \in Handles, remote'[g] # Free PROVE Kept(g)'
      OBVIOUS
    <3>1. CASE call[c].op = "OpenPrinter" /\ res /\ g = h2 /\ remote'[g].owner = c
      BY <2>2, <3>1 DEF Kept
    <3>2. CASE /\ remote[g] # Free /\ remote'[g].owner = remote[g].owner
               /\ call[c].op = "ClosePrinter" => g # call[c].h
      <4>1. Kept(g) /\ bx' = bx /\ call[c].stage = "sent"
        BY <1>7, <3>2 DEF AllCalm, CalmTable, Serve
      <4>2. CASE remote[g].owner # c
        BY <2>2, <3>2, <4>1, <4>2, KeptFrame DEF Kept
      <4>3. CASE remote[g].owner = c
        BY <3>2, <4>1, <4>3 DEF Kept
      <4> QED
        BY <4>2, <4>3
    <3> QED
      BY <2>4, <3>1, <3>2
  <2>6. CalmTable'
    BY <1>7, <2>4, <2>5 DEF Serve, CalmTable
  <2>7. \A d \in Clients : Calm(d)'
    BY <1>0, <1>7, <2>2 DEF Serve, Calm
  <2> QED
    BY <1>7, <2>6, <2>7 DEF Serve, AllCalm
<1>8. ASSUME ServerStarts
      PROVE  AllCalm'
  <2>1. \A c \in Clients : Calm(c)'
    BY <1>0, <1>8 DEF ServerStarts, Calm
  <2>2. CalmTable'
    BY <1>8 DEF ServerStarts, AllCalm, CalmTable, Kept
  <2> QED
    BY <1>8, <2>1, <2>2 DEF ServerStarts, AllCalm
<1>9. CASE \E c \in Clients : \E p \in held[c] : EndDocUnhooked(c, p)
  BY <1>9 DEF EndDocUnhooked, AllCalm, CalmTable, Calm, Kept
<1>10. CASE UNCHANGED vars
  BY <1>10 DEF vars, AllCalm, CalmTable, Calm, Kept
<1>11. CASE \/ ServerStops
            \/ \E c \in Clients : ReceiveFails(c) \/ ConnectionLost(c) \/ ProcessExits(c)
            \/ \E r \in lingering : ServeLingering(r)
  BY <1>0, <1>f, <1>11 DEF ServerStops, ReceiveFails, ConnectionLost, ProcessExits,
                           AllCalm, Calm
<1> QED
  BY <1>1, <1>2, <1>3, <1>4, <1>5, <1>6, <1>7, <1>8, <1>9, <1>10, <1>11
  DEF Next, ClientStep

LEMMA NextCalmInv == CalmInv /\ [Next]_vars => CalmInv'
<1> SUFFICES ASSUME CalmInv, [Next]_vars, Apart, faults' = 0 PROVE AllCalm'
  BY NextKinds, NextOwns DEF CalmInv, Apart
<1>1. faults = 0
  <2>1. faults \in Nat
    BY ConstantsAssumption DEF CalmInv, IInv, TypeOK
  <2>2. faults' = faults \/ faults' = faults + 1
    BY ZenonT(60) DEF Next, vars, ClientStep, OpenForward, OpenBypass, Forward, Bypass,
           EndDocUnhooked, Send, Return, ReceiveFails, Serve, ServeLingering,
           ConnectionLost, ServerStops, ServerStarts, ProcessExits, Fault
  <2> QED
    BY <2>1, <2>2
<1> QED
  BY <1>1, NextCalm DEF CalmInv

(* Values become stray only through a failure.                             *)
THEOREM StraysOnlyAfterFaults == Spec => []StrayOnlyAfterFault
<1>1. CalmInv => StrayOnlyAfterFault
  BY DEF CalmInv, Apart, AllCalm, StrayOnlyAfterFault
<1> QED
  BY <1>1, InitCalm, NextCalmInv, PTL DEF Spec

(* Without a failure no handle of the server is out of its client's reach. *)
THEOREM NoLeaksWithoutFaults == Spec => []NoLeakWithoutFault
<1>1. CalmInv => NoLeakWithoutFault
  BY DEF CalmInv, Apart, AllCalm, CalmTable, Kept, NoLeakWithoutFault
<1> QED
  BY <1>1, InitCalm, NextCalmInv, PTL DEF Spec

=============================================================================
