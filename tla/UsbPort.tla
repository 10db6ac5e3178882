------------------------------ MODULE UsbPort ------------------------------
(***************************************************************************)
(* The port functions of BXLPDIR.DLL, forwarded: OpenUsbPort, WriteUSB,    *)
(* ReadUSB, Print1DBarcode, PrintQRCode and CloseUsbPort of the detours    *)
(* (userdef_client.cpp) and of the handler (userdef_server.h).  The server *)
(* has loaded one BXLPDIR.DLL, which has one port; every client's calls    *)
(* come on a thread of their own.  None of the functions says which client *)
(* it is for, and nothing closes the port when a client is gone.           *)
(*                                                                         *)
(* A forwarded call is what RemoteCall promises and RpcStream implements:  *)
(* executed at most once, and if it fails perhaps executed all the same,   *)
(* perhaps later.  Applications keep the order of the functions: they use  *)
(* the port only between an OpenUsbPort and a CloseUsbPort which they were *)
(* told had succeeded.                                                     *)
(*                                                                         *)
(* "has" is what an application believes; "output", "disturbed" and        *)
(* "troubled" are history.  OfflineDone and SentAgain are slips the code   *)
(* could have made in place of their neighbours.                           *)
(***************************************************************************)
EXTENDS Naturals, Sequences

CONSTANTS
    Clients,
    NoClient,
    MaxCalls,    \* bound: calls of each client
    MaxFaults    \* bound: calls which fail, clients which exit, restarts

ASSUME ConstantsAssumption ==
    /\ NoClient \notin Clients
    /\ MaxCalls \in Nat
    /\ MaxFaults \in Nat

VARIABLES
    port,       \* the client whose OpenUsbPort has opened it
    call,       \* the call each client is in
    made,       \* number of calls each client has made
    late,       \* requests which were given up and are still to be executed
    has,        \* the applications which have been told the port is theirs
    alive,      \* the clients which run
    output,     \* what was printed: who sent it, in whose session, which call
    disturbed,  \* a late request was executed, the reply to a CloseUsbPort
                \* was lost, or the server restarted
    troubled,   \* clients which have had a call fail, or have ended
    faults

vars == <<port, call, made, late, has, alive, output, disturbed, troubled, faults>>

PrintOps == {"WriteUSB", "Print1DBarcode", "PrintQRCode"}
PortOps == PrintOps \cup {"ReadUSB", "CloseUsbPort"}
Ops == PortOps \cup {"OpenUsbPort"}

Idle == [op |-> "none", n |-> 0, stage |-> "idle", res |-> "none"]
Busy == {c \in Clients : call[c].stage # "idle"}

-----------------------------------------------------------------------------
(* BXLPDIR.DLL (external).  Anything may also fail: no device, no paper,   *)
(* or the handler has found no such DLL and returns 0.  What ReadUSB reads *)
(* goes into the request's own string, and the reply carries the result    *)
(* only: the client copies its buffer onto itself.                         *)

Opens(c) == port = NoClient /\ port' = c /\ UNCHANGED output
Closes == port # NoClient /\ port' = NoClient /\ UNCHANGED output
Reads == port # NoClient /\ UNCHANGED <<port, output>>
Prints(c, n) ==
    /\ port # NoClient
    /\ output' = Append(output, [by |-> c, opener |-> port, n |-> n])
    /\ UNCHANGED port

Done(c, op, n) ==
    \/ op = "OpenUsbPort" /\ Opens(c)
    \/ op = "CloseUsbPort" /\ Closes
    \/ op = "ReadUSB" /\ Reads
    \/ op \in PrintOps /\ Prints(c, n)

(* The handler's method: the function of the DLL and its result.           *)
Executed(c, op, n, res) ==
    \/ res = "done" /\ Done(c, op, n)
    \/ res = "failed" /\ UNCHANGED <<port, output>>

-----------------------------------------------------------------------------
(* What an application makes of the result of its call.                    *)
Believes(c, op, res) ==
    has' = IF res = "done" /\ op = "OpenUsbPort" THEN has \cup {c}
           ELSE IF res = "done" /\ op = "CloseUsbPort" THEN has \ {c}
           ELSE has

Begins(c, op) ==
    /\ c \in alive
    /\ call[c].stage = "idle"
    /\ made[c] < MaxCalls
    /\ op \in Ops
    /\ c \in has <=> op # "OpenUsbPort"
    /\ made' = [made EXCEPT ![c] = @ + 1]

Call(c, op) ==
    /\ Begins(c, op)
    /\ call' = [call EXCEPT ![c] =
          [op |-> op, n |-> made'[c], stage |-> "sent", res |-> "none"]]
    /\ UNCHANGED <<port, late, has, alive, output, disturbed, troubled, faults>>

(* "if (!ensure_connection()) return 0;"                                   *)
OfflineDone == "done"
Offline == "failed"

CallOffline(c, op) ==
    /\ Begins(c, op)
    /\ Believes(c, op, Offline)
    /\ UNCHANGED <<port, call, late, alive, output, disturbed, troubled, faults>>

(* The thread of the connection executes the request.                      *)
Execute(c) ==
    /\ call[c].stage = "sent"
    /\ \E res \in {"done", "failed"} :
          /\ Executed(c, call[c].op, call[c].n, res)
          /\ call' = [call EXCEPT ![c].stage = "answered", ![c].res = res]
    /\ UNCHANGED <<made, late, has, alive, disturbed, troubled, faults>>

Return(c) ==
    /\ call[c].stage = "answered"
    /\ Believes(c, call[c].op, call[c].res)
    /\ call' = [call EXCEPT ![c] = Idle]
    /\ UNCHANGED <<port, made, late, alive, output, disturbed, troubled, faults>>

-----------------------------------------------------------------------------
(* Is the reply which tells c that op is done on its way?                  *)
Told(c, op) == call[c].stage = "answered" /\ call[c].op = op /\ call[c].res = "done"

(* Faults.  A call fails: its request has been executed, or has got lost,  *)
(* or is still to be executed.                                             *)
Pending(c) == [by |-> c, op |-> call[c].op, n |-> call[c].n]

SentAgain(c) == late' = late \cup {Pending(c)}
GivenUp(c) ==
    \/ UNCHANGED late
    \/ call[c].stage = "sent" /\ late' = late \cup {Pending(c)}

Fault == faults < MaxFaults /\ faults' = faults + 1

Fail(c) ==
    /\ Fault
    /\ c \in Busy
    /\ GivenUp(c)
    /\ call' = [call EXCEPT ![c] = Idle]
    /\ troubled' = troubled \cup {c}
    /\ disturbed' = (disturbed \/ Told(c, "CloseUsbPort"))
    /\ UNCHANGED <<port, made, has, alive, output>>

(* A client's process ends; its connection does too, and nothing else.     *)
Exit(c) ==
    /\ Fault
    /\ c \in alive
    /\ GivenUp(c)
    /\ alive' = alive \ {c}
    /\ has' = has \ {c}
    /\ call' = [call EXCEPT ![c] = Idle]
    /\ troubled' = troubled \cup {c}
    /\ UNCHANGED <<port, made, output, disturbed>>

ExecuteLate(r) ==
    /\ r \in late
    /\ late' = late \ {r}
    /\ \E res \in {"done", "failed"} : Executed(r.by, r.op, r.n, res)
    /\ disturbed' = TRUE
    /\ UNCHANGED <<call, made, has, alive, troubled, faults>>

(* The server's process ends and starts again, with the DLL and its port.  *)
Restart ==
    /\ Fault
    /\ port' = NoClient /\ late' = {}
    /\ call' = [c \in Clients |-> Idle]
    /\ troubled' = troubled \cup Busy
    /\ disturbed' = TRUE
    /\ UNCHANGED <<made, has, alive, output>>

-----------------------------------------------------------------------------
Init ==
    /\ port = NoClient
    /\ call = [c \in Clients |-> Idle]
    /\ made = [c \in Clients |-> 0]
    /\ late = {} /\ has = {} /\ alive = Clients
    /\ output = <<>>
    /\ disturbed = FALSE /\ troubled = {} /\ faults = 0

Next ==
    \/ \E c \in Clients, op \in Ops : Call(c, op) \/ CallOffline(c, op)
    \/ \E c \in Clients : Execute(c) \/ Return(c) \/ Fail(c) \/ Exit(c)
    \/ \E r \in late : ExecuteLate(r)
    \/ Restart

Spec == Init /\ [][Next]_vars

-----------------------------------------------------------------------------
(* Properties.                                                             *)

TypeOK ==
    /\ port \in Clients \cup {NoClient}
    /\ call \in [Clients -> [op : Ops \cup {"none"}, n : Nat,
                             stage : {"idle", "sent", "answered"},
                             res : {"none", "done", "failed"}]]
    /\ made \in [Clients -> Nat]
    /\ late \subseteq [by : Clients, op : Ops, n : Nat]
    /\ has \subseteq Clients /\ alive \subseteq Clients
    /\ output \in Seq([by : Clients, opener : Clients, n : Nat])
    /\ disturbed \in BOOLEAN /\ troubled \subseteq Clients /\ faults \in Nat

(* Until a late request, a lost reply to CloseUsbPort or a restart comes   *)
(* between, an application which uses the port is the one whose session it *)
(* is, or has closed it and is about to be told.                           *)
SessionIsKnown ==
    ~disturbed => \A c \in has : port = c \/ Told(c, "CloseUsbPort")

(* So nothing is printed in another client's session.                      *)
NoForeignOutput ==
    ~disturbed => \A i \in DOMAIN output : output[i].by = output[i].opener

(* The port stays open with nobody to close it only after a call of its    *)
(* opener has failed or the opener has ended: then it is closed to all.    *)
StuckOnlyAfterTrouble ==
    port # NoClient =>
        \/ port \in has \cup troubled
        \/ Told(port, "OpenUsbPort")

(* Whatever fails, nothing is printed twice, and without late requests a   *)
(* client's output comes out in the order of its calls.                    *)
PrintedOnceInOrder ==
    \A i, j \in DOMAIN output :
        i < j /\ output[i].by = output[j].by =>
            /\ output[i].n # output[j].n
            /\ ~disturbed => output[i].n < output[j].n

=============================================================================
