---------------------------- MODULE UsbPortProofs ----------------------------
(* Proofs about UsbPort, for every set of clients and every bound.         *)
EXTENDS UsbPort, TLAPS

USE DEF PrintOps, PortOps, Ops

-----------------------------------------------------------------------------
(* Output entries and their senders.                                       *)

Entry == [by : Clients, opener : Clients, n : Nat]

(* Done changes the output by at most one entry, of the opener's session.  *)
LEMMA ExecutedOutput ==
    ASSUME TypeOK, NEW c \in Clients, NEW op \in Ops, NEW n \in Nat, NEW res,
           Executed(c, op, n, res)
    PROVE  /\ port' \in Clients \cup {NoClient}
           /\ \/ output' = output
              \/ /\ op \in PrintOps /\ port \in Clients /\ port' = port
                 /\ output' = Append(output, [by |-> c, opener |-> port, n |-> n])
           /\ output' \in Seq(Entry)
<1>1. CASE res = "failed"
  BY <1>1 DEF Executed, TypeOK, Entry
<1>2. CASE res = "done"
  <2>1. Done(c, op, n)
    BY <1>2 DEF Executed
  <2>2. CASE op \notin PrintOps
    BY <2>1, <2>2 DEF Done, Opens, Closes, Reads, TypeOK, Entry
  <2>3. CASE op \in PrintOps
    <3>1. Prints(c, n)
      BY <2>1, <2>3 DEF Done
    <3>2. [by |-> c, opener |-> port, n |-> n] \in Entry
      BY <3>1 DEF Prints, TypeOK, Entry
    <3>3. output \in Seq(Entry)
      BY DEF TypeOK, Entry
    <3> QED
      BY <2>3, <3>1, <3>2, <3>3 DEF Prints, TypeOK
  <2> QED
    BY <2>2, <2>3
<1> QED
  BY <1>1, <1>2 DEF Executed

(* What an appended entry does to what is said of all entries.             *)
LEMMA Appended ==
    ASSUME NEW s \in Seq(Entry), NEW e \in Entry
    PROVE  /\ Append(s, e) \in Seq(Entry)
           /\ DOMAIN Append(s, e) = DOMAIN s \cup {Len(s) + 1}
           /\ DOMAIN s = 1 .. Len(s) /\ Len(s) \in Nat
           /\ \A i \in DOMAIN s : Append(s, e)[i] = s[i] /\ i < Len(s) + 1
           /\ Append(s, e)[Len(s) + 1] = e
  OBVIOUS

-----------------------------------------------------------------------------
(* The inductive invariant: what a client's call and its belief say about  *)
(* the port.                                                               *)

ClientInv(c) ==
    /\ call[c].stage # "idle" =>
          /\ call[c].op \in Ops
          /\ call[c].op = "OpenUsbPort" <=> c \notin has
    /\ ~disturbed /\ c \in has => port = c \/ Told(c, "CloseUsbPort")
    /\ ~disturbed /\ Told(c, "OpenUsbPort") => port = c
    /\ Told(c, "CloseUsbPort") => port # c \/ c \in troubled

LateInv == \A r \in late : r.by \in troubled /\ r.op \in Ops

PortInv ==
    /\ \A c \in Clients : ClientInv(c)
    /\ LateInv
    /\ NoForeignOutput
    /\ StuckOnlyAfterTrouble

IInv == TypeOK /\ PortInv

CallType == [op : Ops \cup {"none"}, n : Nat, stage : {"idle", "sent", "answered"},
             res : {"none", "done", "failed"}]

LEMMA InitInv == Init => IInv
<1> SUFFICES ASSUME Init PROVE IInv
  OBVIOUS
<1>1. TypeOK
  <2>1. Idle \in CallType
    BY DEF Idle, CallType
  <2>2. call \in [Clients -> CallType]
    BY <2>1 DEF Init
  <2>3. output \in Seq(Entry)
    BY DEF Init
  <2> QED
    BY <2>2, <2>3 DEF Init, TypeOK, CallType, Entry
<1>2. \A c \in Clients : ClientInv(c)
  BY DEF Init, ClientInv, Told, Idle
<1>3. NoForeignOutput /\ StuckOnlyAfterTrouble /\ late = {}
  BY DEF Init, NoForeignOutput, StuckOnlyAfterTrouble
<1> QED
  BY <1>1, <1>2, <1>3 DEF IInv, PortInv, LateInv

BusyOps == \A c \in Clients : call[c].stage # "idle" => call[c].op \in Ops

(* Types are kept.                                                         *)
LEMMA NextTyped == TypeOK /\ BusyOps /\ [Next]_vars => TypeOK'
<1> SUFFICES ASSUME TypeOK, BusyOps, [Next]_vars PROVE TypeOK'
  OBVIOUS
<1>i. /\ Idle \in CallType
      /\ \A c \in Clients : call[c] \in CallType
      /\ call \in [Clients -> CallType] /\ late \subseteq [by : Clients, op : Ops, n : Nat]
  BY DEF TypeOK, Idle, CallType
<1>1. ASSUME NEW c \in Clients, NEW op \in Ops, Call(c, op)
      PROVE  TypeOK'
  <2>1. made' \in [Clients -> Nat]
    BY <1>1 DEF Call, Begins, TypeOK
  <2>2. [op |-> op, n |-> made'[c], stage |-> "sent", res |-> "none"] \in CallType
    BY <2>1 DEF CallType
  <2>3. call' \in [Clients -> CallType]
    BY <1>i, <1>1, <2>2 DEF Call
  <2> QED
    BY <1>1, <2>1, <2>3 DEF Call, TypeOK, CallType
<1>2. ASSUME NEW c \in Clients, NEW op \in Ops, CallOffline(c, op)
      PROVE  TypeOK'
  <2>1. made' \in [Clients -> Nat]
    BY <1>2 DEF CallOffline, Begins, TypeOK
  <2>2. has' \subseteq Clients
    BY <1>2 DEF CallOffline, Believes, TypeOK
  <2> QED
    BY <1>2, <2>1, <2>2 DEF CallOffline, TypeOK
<1>3. ASSUME NEW c \in Clients, Execute(c)
      PROVE  TypeOK'
  <2>1. PICK res \in {"done", "failed"} :
          /\ Executed(c, call[c].op, call[c].n, res)
          /\ call' = [call EXCEPT ![c].stage = "answered", ![c].res = res]
    BY <1>3 DEF Execute
  <2>2. [call[c] EXCEPT !.stage = "answered", !.res = res] \in CallType
    BY <1>i DEF CallType
  <2>3. call' \in [Clients -> CallType]
    BY <1>i, <2>1, <2>2
  <2>4. call[c].n \in Nat /\ call[c].op \in Ops
    BY <1>i, <1>3 DEF CallType, BusyOps, Execute
  <2>5. port' \in Clients \cup {NoClient} /\ output' \in Seq(Entry)
    BY <2>1, <2>4, ExecutedOutput
  <2> QED
    BY <1>3, <2>3, <2>5 DEF Execute, TypeOK, CallType, Entry
<1>4. ASSUME NEW c \in Clients, Return(c)
      PROVE  TypeOK'
  <2>1. call' \in [Clients -> CallType]
    BY <1>i, <1>4 DEF Return
  <2>2. has' \subseteq Clients
    BY <1>4 DEF Return, Believes, TypeOK
  <2> QED
    BY <1>4, <2>1, <2>2 DEF Return, TypeOK, CallType
<1>5. ASSUME NEW c \in Clients, Fail(c) \/ Exit(c)
      PROVE  TypeOK'
  <2>1. call' \in [Clients -> CallType]
    BY <1>i, <1>5 DEF Fail, Exit
  <2>2. call[c].stage = "sent" => Pending(c) \in [by : Clients, op : Ops, n : Nat]
    BY <1>i DEF CallType, BusyOps, Pending
  <2>3. late' \subseteq [by : Clients, op : Ops, n : Nat]
    BY <1>i, <1>5, <2>2 DEF Fail, Exit, GivenUp
  <2>4. faults' \in Nat
    BY <1>5 DEF Fail, Exit, Fault, TypeOK
  <2>5. disturbed' \in BOOLEAN
    BY <1>5 DEF Fail, Exit, TypeOK
  <2>6. has' \subseteq Clients /\ alive' \subseteq Clients /\ troubled' \subseteq Clients
    BY <1>5 DEF Fail, Exit, TypeOK
  <2> QED
    BY <1>5, <2>1, <2>3, <2>4, <2>5, <2>6 DEF Fail, Exit, TypeOK, CallType
<1>6. ASSUME NEW r \in late, ExecuteLate(r)
      PROVE  TypeOK'
  <2>1. r.by \in Clients /\ r.op \in Ops /\ r.n \in Nat
    BY <1>i
  <2>2. port' \in Clients \cup {NoClient} /\ output' \in Seq(Entry)
    BY <1>6, <2>1, ExecutedOutput DEF ExecuteLate
  <2> QED
    BY <1>6, <2>2 DEF ExecuteLate, TypeOK, Entry
<1>7. CASE Restart
  <2>1. call' \in [Clients -> CallType]
    BY <1>i, <1>7 DEF Restart
  <2> QED
    BY <1>7, <2>1 DEF Restart, Fault, Busy, TypeOK, CallType
<1>8. CASE UNCHANGED vars
  BY <1>8 DEF vars, TypeOK
<1> QED
  BY <1>1, <1>2, <1>3, <1>4, <1>5, <1>6, <1>7, <1>8 DEF Next

-----------------------------------------------------------------------------
(* What the DLL does to the port.                                          *)
LEMMA ExecutedPort ==
    ASSUME NEW c \in Clients, NEW op \in Ops, NEW n, NEW res,
           Executed(c, op, n, res)
    PROVE  \/ res = "done" /\ op = "OpenUsbPort" /\ port = NoClient /\ port' = c
           \/ res = "done" /\ op = "CloseUsbPort" /\ port # NoClient /\ port' = NoClient
           \/ port' = port /\ (op \in {"OpenUsbPort", "CloseUsbPort"} => res = "failed")
  BY DEF Executed, Done, Opens, Closes, Reads, Prints

(* An execution prints in its own client's session if the opener is it.    *)
LEMMA ExecutedOwn ==
    ASSUME TypeOK, NEW c \in Clients, NEW op \in Ops, NEW n \in Nat, NEW res,
           Executed(c, op, n, res), NoForeignOutput, ~disturbed,
           op \in PrintOps => port = c
    PROVE  NoForeignOutput'
<1>1. CASE output' = output
  BY <1>1 DEF NoForeignOutput
<1>2. CASE /\ op \in PrintOps /\ port \in Clients
           /\ output' = Append(output, [by |-> c, opener |-> port, n |-> n])
  <2> DEFINE e == [by |-> c, opener |-> port, n |-> n]
  <2>1. output \in Seq(Entry) /\ e \in Entry /\ e.by = e.opener
    BY <1>2 DEF TypeOK, Entry
  <2>2. \A i \in DOMAIN output : output[i].by = output[i].opener
    BY DEF NoForeignOutput
  <2>3. output' = Append(output, e)
    BY <1>2
  <2> HIDE DEF e
  <2>4. \A i \in DOMAIN output' : output'[i].by = output'[i].opener
    BY <2>1, <2>2, <2>3, Appended
  <2> QED
    BY <2>4 DEF NoForeignOutput
<1> QED
  BY <1>1, <1>2, ExecutedOutput

(* A client's part of the invariant concerns its own call, whether it has  *)
(* the port, and the port.                                                 *)
LEMMA OthersKept ==
    ASSUME NEW d \in Clients, ClientInv(d), call'[d] = call[d], d \in has' <=> d \in has,
           troubled \subseteq troubled', disturbed => disturbed',
           \/ disturbed' \/ port' = port \/ port # d,
           port' # d \/ port = d \/ d \in troubled'
    PROVE  ClientInv(d)'
  BY DEF ClientInv, Told

LEMMA CallInv ==
    ASSUME IInv, NEW c \in Clients, NEW op \in Ops, Call(c, op)
    PROVE  PortInv'
<1>i. TypeOK /\ PortInv /\ LateInv /\ (\A d \in Clients : ClientInv(d))
  BY DEF IInv, PortInv
<1>1. /\ call[c].stage = "idle" /\ call'[c].stage = "sent" /\ call'[c].op = op
      /\ \A d \in Clients \ {c} : call'[d] = call[d]
      /\ c \in has <=> op # "OpenUsbPort"
      /\ UNCHANGED <<port, late, has, output, disturbed, troubled>>
  BY <1>i DEF Call, Begins, TypeOK
<1>2. \A d \in Clients \ {c} : ClientInv(d)'
  BY <1>i, <1>1, OthersKept
<1>3. ClientInv(c)'
  BY <1>i, <1>1 DEF ClientInv, Told
<1>4. NoForeignOutput' /\ LateInv'
  BY <1>i, <1>1 DEF PortInv, NoForeignOutput, LateInv
<1>5. StuckOnlyAfterTrouble'
  <2>1. SUFFICES ASSUME port # NoClient, port \notin has \cup troubled
                 PROVE  Told(port, "OpenUsbPort")'
    BY <1>1 DEF StuckOnlyAfterTrouble
  <2>2. Told(port, "OpenUsbPort") /\ port \in Clients
    BY <1>i, <2>1 DEF PortInv, StuckOnlyAfterTrouble, TypeOK
  <2>3. port # c
    BY <1>1, <2>2 DEF Told
  <2> QED
    BY <1>1, <2>2, <2>3 DEF Told
<1> QED
  BY <1>2, <1>3, <1>4, <1>5 DEF PortInv

LEMMA OfflineInv ==
    ASSUME IInv, NEW c \in Clients, NEW op \in Ops, CallOffline(c, op)
    PROVE  PortInv'
  BY DEF IInv, PortInv, ClientInv, LateInv, NoForeignOutput, StuckOnlyAfterTrouble,
         CallOffline, Believes, Offline, Told

LEMMA ExecuteInv ==
    ASSUME IInv, NEW c \in Clients, Execute(c)
    PROVE  PortInv'
<1>i. TypeOK /\ PortInv /\ LateInv /\ (\A d \in Clients : ClientInv(d))
  BY DEF IInv, PortInv
<1>1. call[c].stage = "sent" /\ call[c].op \in Ops /\ call[c].n \in Nat
  BY <1>i DEF Execute, ClientInv, TypeOK
<1>2. PICK res \in {"done", "failed"} :
        /\ Executed(c, call[c].op, call[c].n, res)
        /\ call' = [call EXCEPT ![c].stage = "answered", ![c].res = res]
  BY DEF Execute
<1>3. /\ call'[c].stage = "answered" /\ call'[c].op = call[c].op /\ call'[c].res = res
      /\ \A d \in Clients \ {c} : call'[d] = call[d]
      /\ UNCHANGED <<late, has, disturbed, troubled>>
  BY <1>i, <1>2 DEF Execute, TypeOK
<1>4. \/ res = "done" /\ call[c].op = "OpenUsbPort" /\ port = NoClient /\ port' = c
      \/ res = "done" /\ call[c].op = "CloseUsbPort" /\ port # NoClient /\ port' = NoClient
      \/ /\ port' = port
         /\ call[c].op \in {"OpenUsbPort", "CloseUsbPort"} => res = "failed"
  BY <1>1, <1>2, ExecutedPort
<1>5. call[c].op # "OpenUsbPort" /\ ~disturbed => port = c
  BY <1>i, <1>1 DEF ClientInv, Told
<1>6. ASSUME NEW d \in Clients \ {c}
      PROVE  ClientInv(d)'
  <2>1. disturbed' \/ port' = port \/ port # d
    BY <1>3, <1>4, <1>5, <1>6, ConstantsAssumption
  <2>2. port' # d \/ port = d
    BY <1>4, <1>6, ConstantsAssumption
  <2> QED
    BY <1>i, <1>3, <2>1, <2>2, OthersKept
<1>7. ClientInv(c)'
  BY <1>i, <1>1, <1>3, <1>4, <1>5, ConstantsAssumption DEF ClientInv, Told
<1>8. NoForeignOutput'
  <2>1. CASE disturbed
    BY <1>3, <2>1 DEF NoForeignOutput
  <2>2. CASE ~disturbed
    <3>1. call[c].op \in PrintOps => port = c
      BY <1>5, <2>2
    <3> QED
      BY <1>i, <1>1, <1>2, <2>2, <3>1, ExecutedOwn DEF PortInv
  <2> QED
    BY <2>1, <2>2
<1>9. StuckOnlyAfterTrouble'
  <2>1. CASE port' = port
    <3>1. port # NoClient => port # c \/ ~Told(port, "OpenUsbPort")
      BY <1>1 DEF Told
    <3> QED
      BY <1>i, <1>3, <2>1, <3>1 DEF PortInv, StuckOnlyAfterTrouble, Told, TypeOK
  <2>2. CASE port' # port
    BY <1>3, <1>4, <2>2 DEF StuckOnlyAfterTrouble, Told
  <2> QED
    BY <2>1, <2>2
<1>10. LateInv'
  BY <1>i, <1>3 DEF LateInv
<1> QED
  BY <1>6, <1>7, <1>8, <1>9, <1>10 DEF PortInv

LEMMA ReturnInv ==
    ASSUME IInv, NEW c \in Clients, Return(c)
    PROVE  PortInv'
<1>i. TypeOK /\ PortInv /\ LateInv /\ (\A d \in Clients : ClientInv(d))
  BY DEF IInv, PortInv
<1>1. /\ call[c].stage = "answered" /\ call'[c] = Idle
      /\ \A d \in Clients \ {c} : call'[d] = call[d]
      /\ has' = IF Told(c, "OpenUsbPort") THEN has \cup {c}
                ELSE IF Told(c, "CloseUsbPort") THEN has \ {c} ELSE has
      /\ UNCHANGED <<port, late, output, disturbed, troubled>>
  BY <1>i DEF Return, Believes, Told, TypeOK
<1>2. \A d \in Clients \ {c} : ClientInv(d)'
  BY <1>i, <1>1, OthersKept
<1>3. ClientInv(c)'
  BY <1>i, <1>1 DEF ClientInv, Told, Idle
<1>4. NoForeignOutput' /\ LateInv'
  BY <1>i, <1>1 DEF PortInv, NoForeignOutput, LateInv
<1>5. StuckOnlyAfterTrouble'
  <2>1. SUFFICES ASSUME port # NoClient, port \notin troubled
                 PROVE  port \in has' \/ Told(port, "OpenUsbPort")'
    BY <1>1 DEF StuckOnlyAfterTrouble
  <2>2. port \in has \/ Told(port, "OpenUsbPort")
    BY <1>i, <2>1 DEF PortInv, StuckOnlyAfterTrouble
  <2>3. port \in Clients
    BY <1>i, <2>1 DEF TypeOK
  <2>4. CASE port = c
    <3>1. ~Told(c, "CloseUsbPort")
      BY <1>i, <2>1, <2>4 DEF ClientInv
    <3> QED
      BY <1>1, <2>2, <2>4, <3>1
  <2>5. CASE port # c
    <3>1. Told(port, "OpenUsbPort")' <=> Told(port, "OpenUsbPort")
      BY <1>1, <2>3, <2>5 DEF Told
    <3> QED
      BY <1>1, <2>2, <2>5, <3>1
  <2> QED
    BY <2>4, <2>5
<1> QED
  BY <1>2, <1>3, <1>4, <1>5 DEF PortInv

LEMMA GoneInv ==
    ASSUME IInv, NEW c \in Clients, Fail(c) \/ Exit(c)
    PROVE  PortInv'
<1>i. TypeOK /\ PortInv /\ LateInv /\ (\A d \in Clients : ClientInv(d))
  BY DEF IInv, PortInv
<1>1. /\ call'[c] = Idle /\ \A d \in Clients \ {c} : call'[d] = call[d]
      /\ has' \in {has, has \ {c}} /\ troubled' = troubled \cup {c}
      /\ UNCHANGED <<port, output>> /\ disturbed \in BOOLEAN /\ disturbed' \in BOOLEAN
      /\ disturbed => disturbed'
      /\ Told(c, "CloseUsbPort") /\ c \in has' => disturbed'
  BY <1>i DEF Fail, Exit, TypeOK
<1>2. \A d \in Clients \ {c} : ClientInv(d)'
  BY <1>i, <1>1, OthersKept
<1>3. ClientInv(c)'
  BY <1>i, <1>1 DEF ClientInv, Told, Idle
<1>4. NoForeignOutput'
  BY <1>i, <1>1 DEF PortInv, NoForeignOutput
<1>5. LateInv'
  <2>1. late' = late \/ (call[c].stage = "sent" /\ late' = late \cup {Pending(c)})
    BY DEF Fail, Exit, GivenUp
  <2>2. call[c].stage = "sent" => Pending(c).by = c /\ Pending(c).op \in Ops
    BY <1>i DEF Pending, ClientInv
  <2> QED
    BY <1>i, <1>1, <2>1, <2>2 DEF LateInv
<1>6. StuckOnlyAfterTrouble'
  <2>1. SUFFICES ASSUME port # NoClient, port # c, port \notin has \cup troubled
                 PROVE  Told(port, "OpenUsbPort")'
    BY <1>1 DEF StuckOnlyAfterTrouble
  <2> QED
    BY <1>i, <1>1, <2>1 DEF PortInv, StuckOnlyAfterTrouble, Told, TypeOK
<1> QED
  BY <1>2, <1>3, <1>4, <1>5, <1>6 DEF PortInv

LEMMA LateExecutedInv ==
    ASSUME IInv, NEW r \in late, ExecuteLate(r)
    PROVE  PortInv'
<1>i. TypeOK /\ PortInv /\ LateInv /\ (\A d \in Clients : ClientInv(d))
  BY DEF IInv, PortInv
<1>1. /\ r.by \in Clients /\ r.op \in Ops /\ r.by \in troubled
      /\ UNCHANGED <<call, has, troubled>> /\ late' \subseteq late /\ disturbed' = TRUE
  BY <1>i DEF ExecuteLate, TypeOK, LateInv
<1>2. port' \in {port, r.by, NoClient}
  BY <1>1, ExecutedPort DEF ExecuteLate
<1>3. \A d \in Clients : ClientInv(d)'
  BY <1>i, <1>1, <1>2, ConstantsAssumption DEF ClientInv, Told
<1>4. NoForeignOutput' /\ LateInv'
  BY <1>i, <1>1 DEF NoForeignOutput, LateInv
<1>5. StuckOnlyAfterTrouble'
  BY <1>i, <1>1, <1>2 DEF PortInv, StuckOnlyAfterTrouble, Told
<1> QED
  BY <1>3, <1>4, <1>5 DEF PortInv

LEMMA RestartInv ==
    ASSUME IInv, Restart
    PROVE  PortInv'
<1>1. /\ \A c \in Clients : call'[c] = Idle
      /\ port' = NoClient /\ late' = {} /\ disturbed' = TRUE
  BY DEF Restart
<1>2. \A c \in Clients : ClientInv(c)'
  BY <1>1 DEF ClientInv, Told, Idle
<1> QED
  BY <1>1, <1>2 DEF PortInv, LateInv, NoForeignOutput, StuckOnlyAfterTrouble

LEMMA NextInv == IInv /\ [Next]_vars => IInv'
<1> SUFFICES ASSUME IInv, [Next]_vars PROVE IInv'
  OBVIOUS
<1>1. TypeOK'
  BY NextTyped DEF IInv, PortInv, ClientInv, BusyOps
<1>2. CASE UNCHANGED vars
  BY <1>2 DEF vars, IInv, PortInv, TypeOK, ClientInv, LateInv, NoForeignOutput,
              StuckOnlyAfterTrouble, Told
<1>3. CASE Next
  BY <1>1, <1>3, CallInv, OfflineInv, ExecuteInv, ReturnInv, GoneInv, LateExecutedInv,
     RestartInv DEF Next, IInv
<1> QED
  BY <1>2, <1>3

-----------------------------------------------------------------------------
LEMMA Invariant == Spec => []IInv
  BY InitInv, NextInv, PTL DEF Spec

(* The variables keep their types.                                         *)
THEOREM TypesKept == Spec => []TypeOK
<1>1. IInv => TypeOK
  BY DEF IInv
<1> QED
  BY <1>1, Invariant, PTL

(* Until a late request, a lost reply to CloseUsbPort or a restart comes   *)
(* between, the application which uses the port is the one which opened    *)
(* it, or has closed it and is about to be told.                           *)
THEOREM SessionsAreKnown == Spec => []SessionIsKnown
<1>1. IInv => SessionIsKnown
  BY DEF IInv, PortInv, TypeOK, ClientInv, SessionIsKnown
<1> QED
  BY <1>1, Invariant, PTL

(* Until then nothing is printed in another client's session.              *)
THEOREM NothingForeignPrinted == Spec => []NoForeignOutput
<1>1. IInv => NoForeignOutput
  BY DEF IInv, PortInv
<1> QED
  BY <1>1, Invariant, PTL

(* The port is left open only by a client which had trouble.               *)
THEOREM StuckByTroubleOnly == Spec => []StuckOnlyAfterTrouble
<1>1. IInv => StuckOnlyAfterTrouble
  BY DEF IInv, PortInv
<1> QED
  BY <1>1, Invariant, PTL
-----------------------------------------------------------------------------
(* What is printed once: a call's number is that of its client's counter,  *)
(* and what was printed or is still to be has older numbers.               *)

CallsAreNewest == \A c \in Clients : call[c].stage # "idle" => call[c].n = made[c]

Older(c, n) == n <= made[c] /\ (call[c].stage = "sent" => n < made[c])

PrintedOlder == \A i \in DOMAIN output : Older(output[i].by, output[i].n)

LateIsNew ==
    \A r \in late :
        /\ Older(r.by, r.n)
        /\ \A i \in DOMAIN output : output[i].by = r.by => output[i].n # r.n
        /\ \A s \in late : s.by = r.by /\ s.n = r.n => s = r

OnceInv == CallsAreNewest /\ PrintedOlder /\ LateIsNew /\ PrintedOnceInOrder

LEMMA InitOnce == Init => OnceInv
  BY DEF Init, OnceInv, CallsAreNewest, PrintedOlder, LateIsNew, PrintedOnceInOrder, Idle

(* What the calls do to the counters: they never let a number go back.     *)
CallsGoOn ==
    \A c \in Clients :
        \/ call'[c] = call[c] /\ made'[c] = made[c]
        \/ /\ call[c].stage # "idle" /\ call'[c].stage # "sent"
           /\ call'[c].n = call[c].n /\ made'[c] = made[c]
        \/ call'[c].stage = "idle" /\ made'[c] \in {made[c], made[c] + 1}
        \/ call'[c].n = made'[c] /\ made'[c] = made[c] + 1

LEMMA CountersGoOn ==
    ASSUME TypeOK, CallsAreNewest, CallsGoOn
    PROVE  /\ CallsAreNewest'
           /\ \A c \in Clients, n \in Nat : Older(c, n) => Older(c, n)'
<1>1. CallsAreNewest'
  BY DEF CallsAreNewest, CallsGoOn, TypeOK
<1>2. ASSUME NEW c \in Clients, NEW n \in Nat, Older(c, n)
      PROVE  Older(c, n)'
  <2>1. made[c] \in Nat
    BY DEF TypeOK
  <2> QED
    BY <1>2, <2>1 DEF Older, CallsGoOn
<1> QED
  BY <1>1, <1>2

LEMMA Entries ==
    ASSUME TypeOK
    PROVE  output \in Seq(Entry) /\ \A i \in DOMAIN output : output[i] \in Entry
<1>1. output \in Seq(Entry)
  BY DEF TypeOK, Entry
<1> QED
  BY <1>1

(* A step which neither prints nor gives a request up.                     *)
LEMMA QuietOnce ==
    ASSUME TypeOK, OnceInv, CallsGoOn, UNCHANGED output, late' \subseteq late,
           disturbed => disturbed'
    PROVE  OnceInv'
<1>1. /\ CallsAreNewest'
      /\ \A c \in Clients, n \in Nat : Older(c, n) => Older(c, n)'
  BY CountersGoOn DEF OnceInv
<1>2. PrintedOlder'
  <2>1. ASSUME NEW i \in DOMAIN output
        PROVE  Older(output[i].by, output[i].n)'
    BY <1>1, <2>1, Entries DEF OnceInv, PrintedOlder, Entry
  <2> QED
    BY <2>1 DEF PrintedOlder
<1>3. LateIsNew'
  <2>1. ASSUME NEW r \in late
        PROVE  Older(r.by, r.n)'
    BY <1>1, <2>1 DEF OnceInv, LateIsNew, TypeOK
  <2> QED
    BY <2>1 DEF OnceInv, LateIsNew
<1>4. PrintedOnceInOrder'
  BY DEF OnceInv, PrintedOnceInOrder
<1> QED
  BY <1>1, <1>2, <1>3, <1>4 DEF OnceInv

(* A step which prints: the entry is new, no late request will repeat it,  *)
(* and it is the newest of its client's unless something has come between. *)
LEMMA PrintsOnce ==
    ASSUME TypeOK, OnceInv, CallsGoOn, late' \subseteq late, disturbed => disturbed',
           NEW e \in Entry, output' = Append(output, e), Older(e.by, e.n)',
           \A i \in DOMAIN output : output[i].by = e.by =>
              output[i].n # e.n /\ (disturbed' \/ output[i].n < e.n),
           \A r \in late' : r.by = e.by => r.n # e.n
    PROVE  OnceInv'
<1>1. /\ CallsAreNewest'
      /\ \A c \in Clients, n \in Nat : Older(c, n) => Older(c, n)'
  BY CountersGoOn DEF OnceInv
<1>2. /\ DOMAIN output' = DOMAIN output \cup {Len(output) + 1}
      /\ DOMAIN output = 1 .. Len(output) /\ Len(output) \in Nat
      /\ \A i \in DOMAIN output : output'[i] = output[i] /\ i < Len(output) + 1
      /\ output'[Len(output) + 1] = e
  BY Entries, Appended
<1>3. PrintedOlder'
  <2>1. ASSUME NEW i \in DOMAIN output
        PROVE  Older(output[i].by, output[i].n)'
    BY <1>1, <1>2, <2>1, Entries DEF OnceInv, PrintedOlder, Entry
  <2>2. ASSUME NEW i \in DOMAIN output'
        PROVE  Older(output[i].by, output[i].n)'
    <3>1. CASE i = Len(output) + 1
      BY <1>2, <3>1 DEF Older
    <3>2. CASE i \in DOMAIN output
      BY <2>1, <3>2
    <3> QED
      BY <1>2, <2>2, <3>1, <3>2
  <2> QED
    BY <2>2 DEF PrintedOlder
<1>4. LateIsNew'
  <2>1. ASSUME NEW r \in late'
        PROVE  /\ Older(r.by, r.n)'
               /\ \A i \in DOMAIN output' : output'[i].by = r.by => output'[i].n # r.n
    BY <1>1, <1>2, <2>1 DEF OnceInv, LateIsNew, TypeOK
  <2> QED
    BY <2>1 DEF OnceInv, LateIsNew
<1>5. PrintedOnceInOrder'
  BY <1>2 DEF OnceInv, PrintedOnceInOrder
<1> QED
  BY <1>1, <1>3, <1>4, <1>5 DEF OnceInv

LEMMA NextOnce == IInv /\ OnceInv /\ [Next]_vars => OnceInv'
<1> SUFFICES ASSUME IInv, OnceInv, [Next]_vars PROVE OnceInv'
  OBVIOUS
<1>i. TypeOK /\ LateInv /\ \A c \in Clients : ClientInv(c)
  BY DEF IInv, PortInv
<1>1. ASSUME NEW c \in Clients, NEW op \in Ops, Call(c, op) \/ CallOffline(c, op)
      PROVE  OnceInv'
  <2>1. CallsGoOn
    BY <1>i, <1>1 DEF Call, CallOffline, Begins, CallsGoOn, TypeOK
  <2> QED
    BY <1>i, <1>1, <2>1, QuietOnce DEF Call, CallOffline
<1>2. ASSUME NEW c \in Clients, Execute(c)
      PROVE  OnceInv'
  <2>1. /\ call[c].stage = "sent" /\ call[c].op \in Ops /\ call[c].n \in Nat
        /\ call[c].n = made[c]
    BY <1>i, <1>2 DEF Execute, ClientInv, TypeOK, OnceInv, CallsAreNewest
  <2>2. PICK res \in {"done", "failed"} :
          /\ Executed(c, call[c].op, call[c].n, res)
          /\ call' = [call EXCEPT ![c].stage = "answered", ![c].res = res]
    BY <1>2 DEF Execute
  <2>3. UNCHANGED <<made, late, disturbed>>
    BY <1>2 DEF Execute
  <2>4. CallsGoOn
    BY <1>i, <2>1, <2>2, <2>3 DEF CallsGoOn, TypeOK
  <2>5. CASE output' = output
    BY <1>i, <2>3, <2>4, <2>5, QuietOnce
  <2>6. CASE output' # output
    <3>1. PICK e \in Entry : e.by = c /\ e.n = call[c].n /\ output' = Append(output, e)
      <4> DEFINE x == [by |-> c, opener |-> port, n |-> call[c].n]
      <4>1. port \in Clients /\ output' = Append(output, x)
        BY <1>i, <2>1, <2>2, <2>6, ExecutedOutput
      <4>2. x \in Entry /\ x.by = c /\ x.n = call[c].n
        BY <2>1, <4>1 DEF Entry
      <4> QED
        BY <4>1, <4>2
    <3>2. e.by = c /\ e.n = made[c]
      BY <2>1, <3>1
    <3>3. call'[c].stage = "answered" /\ made[c] \in Nat
      BY <1>i, <2>2 DEF TypeOK
    <3>4. Older(e.by, e.n)'
      BY <2>3, <3>2, <3>3 DEF Older
    <3>5. ASSUME NEW i \in DOMAIN output, output[i].by = e.by
          PROVE  output[i].n < e.n /\ output[i].n # e.n
      <4>1. output[i] \in Entry
        BY <1>i, Entries
      <4> QED
        BY <2>1, <3>2, <3>3, <3>5, <4>1 DEF OnceInv, PrintedOlder, Older, Entry
    <3>6. \A r \in late : r.by = e.by => r.n # e.n
      BY <1>i, <2>1, <3>2, <3>3 DEF OnceInv, LateIsNew, Older, TypeOK
    <3> QED
      BY <1>i, <2>3, <2>4, <3>1, <3>2, <3>4, <3>5, <3>6, PrintsOnce
  <2> QED
    BY <2>5, <2>6
<1>3. ASSUME NEW c \in Clients, Return(c)
      PROVE  OnceInv'
  <2>1. CallsGoOn
    BY <1>i, <1>3 DEF Return, CallsGoOn, Idle, TypeOK
  <2> QED
    BY <1>i, <1>3, <2>1, QuietOnce DEF Return
<1>4. ASSUME NEW c \in Clients, Fail(c) \/ Exit(c)
      PROVE  OnceInv'
  <2>1. CallsGoOn
    BY <1>i, <1>4 DEF Fail, Exit, CallsGoOn, Idle, TypeOK
  <2>2. UNCHANGED output /\ (disturbed => disturbed')
    BY <1>i, <1>4 DEF Fail, Exit, TypeOK
  <2>3. CASE late' \subseteq late
    BY <1>i, <2>1, <2>2, <2>3, QuietOnce
  <2>4. CASE call[c].stage = "sent" /\ late' = late \cup {Pending(c)}
    <3>1. /\ Pending(c).by = c /\ Pending(c).n = made[c] /\ made[c] \in Nat
          /\ call'[c].stage = "idle" /\ made' = made
      BY <1>i, <1>4, <2>4 DEF Pending, OnceInv, CallsAreNewest, Fail, Exit, Idle, TypeOK
    <3>2. /\ CallsAreNewest'
          /\ \A d \in Clients, n \in Nat : Older(d, n) => Older(d, n)'
      BY <1>i, <2>1, CountersGoOn DEF OnceInv
    <3>3. PrintedOlder' /\ PrintedOnceInOrder'
      <4>1. ASSUME NEW i \in DOMAIN output
            PROVE  Older(output[i].by, output[i].n)'
        BY <1>i, <2>2, <3>2, <4>1, Entries DEF OnceInv, PrintedOlder, Entry
      <4> QED
        BY <2>2, <4>1 DEF PrintedOlder, OnceInv, PrintedOnceInOrder
    <3>4. ASSUME NEW r \in late
          PROVE  /\ Older(r.by, r.n)' /\ r.by \in Clients /\ r.n \in Nat
                 /\ r.by = c => r.n # made[c]
      BY <1>i, <2>4, <3>1, <3>2, <3>4 DEF OnceInv, LateIsNew, Older, TypeOK
    <3>5. Older(c, made[c])'
      BY <3>1 DEF Older
    <3>6. ASSUME NEW i \in DOMAIN output, output[i].by = c
          PROVE  output[i].n # made[c]
      <4>1. output[i] \in Entry
        BY <1>i, Entries
      <4> QED
        BY <2>4, <3>1, <3>6, <4>1 DEF OnceInv, PrintedOlder, Older, Entry
    <3>7. LateIsNew'
      BY <2>2, <2>4, <3>1, <3>4, <3>5, <3>6 DEF OnceInv, LateIsNew, Older
    <3> QED
      BY <3>2, <3>3, <3>7 DEF OnceInv
  <2> QED
    BY <1>4, <2>3, <2>4 DEF Fail, Exit, GivenUp
<1>5. ASSUME NEW r \in late, ExecuteLate(r)
      PROVE  OnceInv'
  <2>1. /\ r.by \in Clients /\ r.op \in Ops /\ r.n \in Nat
        /\ UNCHANGED <<call, made>> /\ late' = late \ {r} /\ disturbed' = TRUE
    BY <1>i, <1>5 DEF ExecuteLate, TypeOK
  <2>2. CallsGoOn
    BY <2>1 DEF CallsGoOn
  <2>3. CASE output' = output
    BY <1>i, <2>1, <2>2, <2>3, QuietOnce
  <2>4. CASE output' # output
    <3>1. PICK e \in Entry : e.by = r.by /\ e.n = r.n /\ output' = Append(output, e)
      <4> DEFINE x == [by |-> r.by, opener |-> port, n |-> r.n]
      <4>1. port \in Clients /\ output' = Append(output, x)
        BY <1>i, <1>5, <2>1, <2>4, ExecutedOutput DEF ExecuteLate
      <4>2. x \in Entry /\ x.by = r.by /\ x.n = r.n
        BY <2>1, <4>1 DEF Entry
      <4> QED
        BY <4>1, <4>2
    <3>2. e.by = r.by /\ e.n = r.n
      BY <3>1
    <3>3. Older(e.by, e.n)'
      BY <2>1, <3>2 DEF OnceInv, LateIsNew, Older
    <3>4. \A i \in DOMAIN output : output[i].by = e.by => output[i].n # e.n
      BY <3>2 DEF OnceInv, LateIsNew
    <3>5. \A s \in late' : s.by = e.by => s.n # e.n
      BY <2>1, <3>2 DEF OnceInv, LateIsNew
    <3> QED
      BY <1>i, <2>1, <2>2, <3>1, <3>2, <3>3, <3>4, <3>5, PrintsOnce
  <2> QED
    BY <2>3, <2>4
<1>6. CASE Restart
  <2>1. CallsGoOn
    BY <1>i, <1>6 DEF Restart, CallsGoOn, Idle, TypeOK
  <2> QED
    BY <1>i, <1>6, <2>1, QuietOnce DEF Restart
<1>7. CASE UNCHANGED vars
  <2>1. CallsGoOn
    BY <1>7 DEF vars, CallsGoOn
  <2> QED
    BY <1>i, <1>7, <2>1, QuietOnce DEF vars
<1> QED
  BY <1>1, <1>2, <1>3, <1>4, <1>5, <1>6, <1>7 DEF Next

(* Whatever fails, nothing is printed twice, and without late requests a   *)
(* client's output comes out in the order of its calls.                    *)
THEOREM PrintsOnceInOrder == Spec => []PrintedOnceInOrder
<1>1. OnceInv => PrintedOnceInOrder
  BY DEF OnceInv
<1> QED
  BY <1>1, InitOnce, NextOnce, Invariant, PTL DEF Spec
=============================================================================
