---------------------------- MODULE SpoolForward ----------------------------
(***************************************************************************)
(* The forwarding of print spooler calls: every hooked process ("client")  *)
(* runs the detours of src/extension/userdef_client.cpp, which answer a    *)
(* call with the local spooler or send it over one Thrift connection to    *)
(* the server, whose handler (src/extension/userdef_server.h) calls the    *)
(* spooler of the server's machine.                                        *)
(*                                                                         *)
(* A client is one application thread: a detour runs to its end before the *)
(* next one begins.  Between two steps of a detour anything may happen to  *)
(* the connection, the server and the other clients.                       *)
(*                                                                         *)
(* A handle is a bare value; the server and every client allocate theirs   *)
(* independently, and the server allocates afresh after a restart.  What a *)
(* value means to the one who uses it is a record [h, inc]: the value and  *)
(* the incarnation of the server which issued it, 0 for the local spooler. *)
(* "inc", "owner", "held", "stray" and "faults" are history: no guard of   *)
(* the detours or of the handler reads them.                               *)
(*                                                                         *)
(* A request arrives whole or not at all, and the byte stream below is in  *)
(* step.  Module RpcStream shows when that is so: for requests which fit   *)
(* the write buffer, as long as no call of the socket fails on a           *)
(* connection which lives on.                                              *)
(*                                                                         *)
(* Next to some definitions stands a slip the code could have made in      *)
(* their place (EveryHandleIsBixolon, StaysListed, NeverListed,            *)
(* OpenedUnchecked, ReconnectAndResend).  Nothing uses them: put in place  *)
(* of their neighbour, a property must fail.                               *)
(***************************************************************************)
EXTENDS Naturals, FiniteSets

CONSTANTS
    Clients,        \* the hooked processes
    LocalHandles,   \* values the local spoolers hand out
    RemoteHandles,  \* values the server's spooler hands out
    NoClient, NoHandle,
    MaxInc,         \* bound: server incarnations
    MaxFaults       \* bound: connection losses, server crashes, process exits

ASSUME ConstantsAssumption ==
    /\ NoClient \notin Clients
    /\ NoHandle \notin LocalHandles \cup RemoteHandles
    /\ MaxInc \in Nat \ {0}
    /\ MaxFaults \in Nat

VARIABLES
    link,       \* each client's socket: "closed", "up", or "broken": still
                \* valid in the client although the connection is gone
    bx,         \* _bxprinters: the handles a client believes to be remote
    call,       \* the forwarded call a client's thread is inside
    lingering,  \* requests the server has received from connections which
                \* their clients have since lost
    serverUp,
    epoch,      \* the incarnation of the server
    remote,     \* the server's spooler: phase and opener of every value
    local,      \* each client's own spooler: phase of every value
    held,       \* handles an application has opened and not yet closed
    stray,      \* values of this incarnation a call made with another meaning
                \* of the value, or a lingering request, was directed at
    faults

vars == <<link, bx, call, lingering, serverUp, epoch, remote, local, held,
          stray, faults>>

Handles == LocalHandles \cup RemoteHandles
Incs == 0 .. MaxInc
Objects == [h : Handles, inc : Incs]

-----------------------------------------------------------------------------
(* The spooler of a machine (external).                                    *)

UseOps == {"StartDocPrinterW", "StartPagePrinter", "WritePrinter",
           "EndPagePrinter"}
HookedOps == UseOps \cup {"ClosePrinter"}
Ops == HookedOps \cup {"OpenPrinter", "none"}
Phases == {"free", "open", "doc", "page"}

(* What the spooler accepts: <<operation, phase before, phase after>>.     *)
Transitions ==
    {<<"StartDocPrinterW", "open", "doc">>, <<"StartPagePrinter", "doc", "page">>,
     <<"WritePrinter", "doc", "doc">>, <<"WritePrinter", "page", "page">>,
     <<"EndPagePrinter", "page", "doc">>, <<"EndDocPrinter", "doc", "open">>,
     <<"ClosePrinter", "open", "free">>, <<"ClosePrinter", "doc", "free">>,
     <<"ClosePrinter", "page", "free">>}

Free == [phase |-> "free", owner |-> NoClient]

(* An operation on handle h of a table of handles in phase p: performed,   *)
(* or refused (out of order, no such handle, no paper ...).  Closing an    *)
(* open handle is not refused.                                             *)
Performed(op, p, q) == <<op, p, q>> \in Transitions
Refusable(op, p) == op = "ClosePrinter" => p = "free"

-----------------------------------------------------------------------------
(* The client: connection and list of handles.                             *)

Idle == [stage |-> "idle", op |-> "none", h |-> NoHandle, inc |-> 0,
         res |-> FALSE]

Request(o, p) == [stage |-> "send", op |-> o, h |-> p.h, inc |-> p.inc,
                  res |-> FALSE]

(* ensure_connection() returns true and leaves the socket in state l: it   *)
(* only looks at whether the socket is valid, and connects when it is not. *)
Ensured(c, l) ==
    \/ link[c] # "closed" /\ l = link[c]
    \/ link[c] = "closed" /\ serverUp /\ l = "up"

(* ensure_connection() returns false: the attempt to connect has failed.   *)
NotEnsured(c, l) == link[c] = "closed" /\ l = "closed"

EveryHandleIsBixolon(c, h) == c \in Clients /\ h \in Handles
IsBixolonPrinterByHandle(c, h) == \E e \in bx[c] : e.h = h

StaysListed(c, h) == {e \in bx[c] : h \in Handles}
CloseBixolonPrinter(c, h) == {e \in bx[c] : e.h # h}

NeverListed(c, e) == bx[c] \ {e}
AddBixolonPrinter(c, e) == bx[c] \cup {e}

(* The reply of a successful OpenPrinter.                                  *)
OpenedUnchecked(k) == k.op = "OpenPrinter"
Opened(k) == k.op = "OpenPrinter" /\ k.res

-----------------------------------------------------------------------------
(* The detours, up to the point where they have chosen who answers.        *)

(* DetourOpenPrinterA/W with a connection and a BIXOLON printer.           *)
OpenForward(c) ==
    /\ call[c] = Idle
    /\ \E l \in {"up", "broken"} :
          Ensured(c, l) /\ link' = [link EXCEPT ![c] = l]
    /\ call' = [call EXCEPT ![c] =
                  Request("OpenPrinter", [h |-> NoHandle, inc |-> 0])]
    /\ UNCHANGED <<bx, lingering, serverUp, epoch, remote, local, held, stray,
                   faults>>

(* DetourOpenPrinterA/W without a connection, or with another printer:     *)
(* the local spooler opens a handle or refuses.                            *)
OpenBypass(c) ==
    /\ call[c] = Idle
    /\ \E l \in {"closed", "up", "broken"} :
          /\ Ensured(c, l) \/ NotEnsured(c, l)
          /\ link' = [link EXCEPT ![c] = l]
    /\ \/ \E h \in LocalHandles :
             /\ local[c][h] = "free"
             /\ local' = [local EXCEPT ![c][h] = "open"]
             /\ held' = [held EXCEPT ![c] = @ \cup {[h |-> h, inc |-> 0]}]
       \/ UNCHANGED <<local, held>>
    /\ UNCHANGED <<bx, call, lingering, serverUp, epoch, remote, stray, faults>>

(* An application does not use a handle it has passed to ClosePrinter.     *)
StillHeld(c, op, p) == IF op = "ClosePrinter" THEN held[c] \ {p} ELSE held[c]

(* The detour of a call on a handle which finds it listed.  ClosePrinter   *)
(* takes it off the list before the request is sent.                       *)
Forward(c, op, p) ==
    /\ call[c] = Idle
    /\ p \in held[c]
    /\ \E l \in {"up", "broken"} :
          Ensured(c, l) /\ link' = [link EXCEPT ![c] = l]
    /\ IsBixolonPrinterByHandle(c, p.h)
    /\ bx' = [bx EXCEPT ![c] =
                IF op = "ClosePrinter" THEN CloseBixolonPrinter(c, p.h) ELSE @]
    /\ call' = [call EXCEPT ![c] = Request(op, p)]
    /\ held' = [held EXCEPT ![c] = StillHeld(c, op, p)]
    /\ stray' = IF p.inc = epoch THEN stray ELSE stray \cup {p.h}
    /\ UNCHANGED <<lingering, serverUp, epoch, remote, local, faults>>

(* The local spooler answers an operation on value h.                      *)
LocalSpooler(c, op, h) ==
    \/ \E q \in Phases : /\ Performed(op, local[c][h], q)
                         /\ local' = [local EXCEPT ![c][h] = q]
    \/ Refusable(op, local[c][h]) /\ UNCHANGED local

(* The detour of a call on a handle without a connection, or with a handle *)
(* which is not listed: fp<op>(hPrinter).  The list stays as it is.        *)
Bypass(c, op, p) ==
    /\ call[c] = Idle
    /\ p \in held[c]
    /\ \E l \in {"closed", "up", "broken"} :
          /\ \/ NotEnsured(c, l)
             \/ Ensured(c, l) /\ ~IsBixolonPrinterByHandle(c, p.h)
          /\ link' = [link EXCEPT ![c] = l]
    /\ LocalSpooler(c, op, p.h)
    /\ held' = [held EXCEPT ![c] = StillHeld(c, op, p)]
    /\ UNCHANGED <<bx, call, lingering, serverUp, epoch, remote, stray, faults>>

(* EndDocPrinter has a detour but no hook item: the local spooler gets     *)
(* every call.                                                             *)
EndDocUnhooked(c, p) ==
    /\ call[c] = Idle
    /\ p \in held[c]
    /\ LocalSpooler(c, "EndDocPrinter", p.h)
    /\ UNCHANGED <<link, bx, call, lingering, serverUp, epoch, remote, held,
                   stray, faults>>

-----------------------------------------------------------------------------
(* The generated client: send_<op>() and recv_<op>().                      *)

(* On a broken connection the bytes of a request may be swallowed, or the  *)
(* write throws out of the detour, with the socket closed (connection      *)
(* reset) or left open (any other error).                                  *)
ReconnectAndResend(c) ==
    /\ serverUp
    /\ link' = [link EXCEPT ![c] = "up"]
    /\ call' = [call EXCEPT ![c].stage = "sent"]

SendBroken(c) ==
    \/ /\ call' = [call EXCEPT ![c].stage = "lost"]
       /\ UNCHANGED link
    \/ /\ call' = [call EXCEPT ![c] = Idle]
       /\ \E l \in {"closed", "broken"} : link' = [link EXCEPT ![c] = l]

Send(c) ==
    /\ call[c].stage = "send"
    /\ \/ /\ link[c] = "up"
          /\ call' = [call EXCEPT ![c].stage = "sent"]
          /\ UNCHANGED link
       \/ link[c] = "broken" /\ SendBroken(c)
    /\ UNCHANGED <<bx, lingering, serverUp, epoch, remote, local, held, stray,
                   faults>>

(* The reply arrives and the detour returns; a successful OpenPrinter      *)
(* lists its handle.                                                       *)
Return(c) ==
    /\ call[c].stage = "served"
    /\ IF Opened(call[c])
       THEN LET e == [h |-> call[c].h, inc |-> call[c].inc] IN
            /\ bx' = [bx EXCEPT ![c] = AddBixolonPrinter(c, e)]
            /\ held' = [held EXCEPT ![c] = @ \cup {e}]
       ELSE UNCHANGED <<bx, held>>
    /\ call' = [call EXCEPT ![c] = Idle]
    /\ UNCHANGED <<link, lingering, serverUp, epoch, remote, local, stray, faults>>

(* No reply will come: the read meets the end of the connection and throws *)
(* out of the detour.  The socket stays open.                              *)
ReceiveFails(c) ==
    /\ call[c].stage = "lost"
    /\ call' = [call EXCEPT ![c] = Idle]
    /\ UNCHANGED <<link, bx, lingering, serverUp, epoch, remote, local, held,
                   stray, faults>>

-----------------------------------------------------------------------------
(* The server: one thread per connection, one handler for all of them.     *)

(* The handler's method for a request of c: the reply (result, handle).    *)
Handle(c, op, h, res, h2) ==
    \/ /\ op = "OpenPrinter"
       /\ h2 \in RemoteHandles
       /\ remote[h2] = Free
       /\ remote' = [remote EXCEPT ![h2] = [phase |-> "open", owner |-> c]]
       /\ res
    \/ /\ op # "OpenPrinter"
       /\ h2 = h
       /\ \E q \in Phases :
             /\ Performed(op, remote[h].phase, q)
             /\ remote' = [remote EXCEPT ![h] =
                             IF q = "free" THEN Free ELSE [@ EXCEPT !.phase = q]]
       /\ res
    \/ /\ op = "OpenPrinter" \/ Refusable(op, remote[h].phase)
       /\ h2 = h
       /\ ~res
       /\ UNCHANGED remote

Answered(k, res, h2) == [stage |-> "served", op |-> k.op, h |-> h2,
                         inc |-> epoch, res |-> res]

(* A request is received, executed and answered.                           *)
Serve(c) ==
    /\ serverUp
    /\ call[c].stage = "sent"
    /\ \E res \in BOOLEAN, h2 \in Handles \cup {NoHandle} :
          /\ Handle(c, call[c].op, call[c].h, res, h2)
          /\ call' = [call EXCEPT ![c] = Answered(@, res, h2)]
    /\ UNCHANGED <<link, bx, lingering, serverUp, epoch, local, held, stray,
                   faults>>

(* A request is executed although its connection is lost; the reply goes   *)
(* nowhere.                                                                *)
ServeLingering(r) ==
    /\ r \in lingering
    /\ \E res \in BOOLEAN, h2 \in Handles \cup {NoHandle} :
          Handle(r.client, r.op, r.h, res, h2)
    /\ lingering' = lingering \ {r}
    /\ stray' = IF r.op = "OpenPrinter" THEN stray ELSE stray \cup {r.h}
    /\ UNCHANGED <<link, bx, call, serverUp, epoch, local, held, faults>>

-----------------------------------------------------------------------------
(* Failures.                                                               *)

Fault == faults < MaxFaults /\ faults' = faults + 1

(* A request which is under way when its connection goes is lost, or the   *)
(* server has already received it.                                         *)
Lingers(c) ==
    \/ UNCHANGED lingering
    \/ /\ call[c].stage = "sent"
       /\ lingering' = lingering \cup
             {[client |-> c, op |-> call[c].op, h |-> call[c].h]}

Loses(c, lostReplies) ==
    \/ call[c].stage = "sent"
    \/ call[c].stage = "served" /\ c \in lostReplies

(* The connection of one client goes; a reply under way may be lost.       *)
ConnectionLost(c) ==
    /\ Fault
    /\ link[c] = "up"
    /\ link' = [link EXCEPT ![c] = "broken"]
    /\ Lingers(c)
    /\ \E lostReplies \in SUBSET {c} :
          call' = [call EXCEPT ![c].stage =
                     IF Loses(c, lostReplies) THEN "lost" ELSE @]
    /\ UNCHANGED <<bx, serverUp, epoch, remote, local, held, stray>>

(* The server process ends: its handles, threads and connections with it.  *)
ServerStops ==
    /\ Fault
    /\ serverUp
    /\ serverUp' = FALSE
    /\ remote' = [h \in Handles |-> Free]
    /\ lingering' = {}
    /\ link' = [c \in Clients |-> IF link[c] = "up" THEN "broken" ELSE link[c]]
    /\ \E lostReplies \in SUBSET Clients :
          call' = [c \in Clients |->
                     IF link[c] = "up" /\ Loses(c, lostReplies)
                     THEN [call[c] EXCEPT !.stage = "lost"] ELSE call[c]]
    /\ UNCHANGED <<bx, epoch, local, held, stray>>

(* thrift_server_start() in a new process.                                 *)
ServerStarts ==
    /\ ~serverUp
    /\ epoch < MaxInc
    /\ serverUp' = TRUE
    /\ epoch' = epoch + 1
    /\ stray' = {}
    /\ UNCHANGED <<link, bx, call, lingering, remote, local, held, faults>>

(* A hooked process ends at any point, and a new one takes its place with  *)
(* an empty list, connected by thrift_connect() or not.  The server does   *)
(* not close the handles the old one has opened.                           *)
ProcessExits(c) ==
    /\ Fault
    /\ link' = [link EXCEPT ![c] = "closed"]
    /\ bx' = [bx EXCEPT ![c] = {}]
    /\ call' = [call EXCEPT ![c] = Idle]
    /\ local' = [local EXCEPT ![c] = [h \in Handles |-> "free"]]
    /\ held' = [held EXCEPT ![c] = {}]
    /\ Lingers(c)
    /\ UNCHANGED <<serverUp, epoch, remote, stray>>

-----------------------------------------------------------------------------
Init ==
    /\ serverUp \in BOOLEAN
    /\ link \in [Clients -> {"closed", "up"}]
    /\ \A c \in Clients : link[c] = "up" => serverUp
    /\ bx = [c \in Clients |-> {}]
    /\ call = [c \in Clients |-> Idle]
    /\ lingering = {}
    /\ epoch = 1
    /\ remote = [h \in Handles |-> Free]
    /\ local = [c \in Clients |-> [h \in Handles |-> "free"]]
    /\ held = [c \in Clients |-> {}]
    /\ stray = {}
    /\ faults = 0

ClientStep(c) ==
    \/ OpenForward(c)
    \/ OpenBypass(c)
    \/ \E op \in HookedOps, p \in held[c] : Forward(c, op, p)
    \/ \E op \in HookedOps, p \in held[c] : Bypass(c, op, p)
    \/ \E p \in held[c] : EndDocUnhooked(c, p)
    \/ Send(c)
    \/ Return(c)
    \/ ReceiveFails(c)

Next ==
    \/ \E c \in Clients : ClientStep(c)
    \/ \E c \in Clients : Serve(c)
    \/ \E r \in lingering : ServeLingering(r)
    \/ \E c \in Clients : ConnectionLost(c)
    \/ ServerStops
    \/ ServerStarts
    \/ \E c \in Clients : ProcessExits(c)

Spec == Init /\ [][Next]_vars

-----------------------------------------------------------------------------
(* Properties.                                                             *)

Stages == {"idle", "send", "sent", "served", "lost"}
Calls == [stage : Stages, op : Ops, h : Handles \cup {NoHandle}, inc : Incs,
          res : BOOLEAN]
LingeringRequests == [client : Clients, op : Ops, h : Handles \cup {NoHandle}]

(* Every variable has its type; in particular only handles, never the      *)
(* absence of one, are ever put on the list of addBixolonPrinter().        *)
TypeOK ==
    /\ link \in [Clients -> {"closed", "up", "broken"}]
    /\ bx \in [Clients -> SUBSET Objects]
    /\ call \in [Clients -> Calls]
    /\ lingering \in SUBSET LingeringRequests
    /\ serverUp \in BOOLEAN
    /\ epoch \in Incs \ {0}
    /\ remote \in [Handles -> [phase : Phases, owner : Clients \cup {NoClient}]]
    /\ local \in [Clients -> [Handles -> Phases]]
    /\ held \in [Clients -> SUBSET Objects]
    /\ stray \in SUBSET Handles
    /\ faults \in 0 .. MaxFaults

(* A handle which a client lists, and which the running server issued, is  *)
(* open on the server and was opened by that client, whatever connections, *)
(* calls and exceptions lie between: ClosePrinter unlists before it asks   *)
(* the server to close, so a lost reply leaves no dangling entry.          *)
ListedIsOpen ==
    \A c \in Clients : \A e \in bx[c] :
        serverUp /\ e.inc = epoch /\ e.h \notin stray => remote[e.h].owner = c

(* A handle an application holds from the running server is on its list,   *)
(* so no call on it is silently given to the local spooler for want of an  *)
(* entry, unless a call with another meaning of the value took it off.     *)
HeldIsListed ==
    \A c \in Clients : \A p \in held[c] :
        p.inc = epoch /\ p.h \notin stray => p \in bx[c]

(* The server executes a request only on a handle which the same client    *)
(* has opened and not closed: a reconnected client never reaches another   *)
(* client's job, unless the value is stray.                                *)
RequestReachesOwnHandle ==
    \A c \in Clients :
        call[c].stage = "sent" /\ call[c].op # "OpenPrinter"
          /\ call[c].h \notin stray => remote[call[c].h].owner = c

(* While local and remote handle values differ, a call on a local handle   *)
(* is never sent to the server.                                            *)
LocalStaysLocal ==
    LocalHandles \cap RemoteHandles = {} =>
        \A c \in Clients :
            call[c].stage \in {"send", "sent"} /\ call[c].op # "OpenPrinter"
              => call[c].inc > 0

(* Values become stray only through a failure: without one, and with local *)
(* and remote values apart, the three properties above hold of all values. *)
StrayOnlyAfterFault ==
    faults = 0 /\ LocalHandles \cap RemoteHandles = {} => stray = {}

(* Without a failure the server keeps no handle that its client cannot     *)
(* close any more: every open one is listed, or being opened or closed.    *)
NoLeakWithoutFault ==
    faults = 0 /\ LocalHandles \cap RemoteHandles = {} =>
        \A h \in Handles : remote[h] # Free =>
            \/ \E e \in bx[remote[h].owner] : e.h = h
            \/ call[remote[h].owner].stage # "idle" /\ call[remote[h].owner].h = h

(* A step which changes the state of an open handle on the server executes *)
(* a request of the client which opened it, or the value is stray, or the  *)
(* server stops.                                                           *)
OthersHandlesUntouched ==
    [][\A h \in Handles :
          remote[h] # Free /\ remote'[h] # remote[h] /\ serverUp' /\ h \notin stray'
            => LET c == remote[h].owner IN
               call[c].stage = "sent" /\ call[c].h = h /\ call'[c].stage = "served"]_vars

-----------------------------------------------------------------------------
(* The inductive invariant behind the first three properties: what the     *)
(* pending call of a client and its connection say about the list and the  *)
(* server's table.                                                         *)

(* A connection exists only with a running server, and only a connected    *)
(* client's request can be under way.                                      *)
ConnectionsLive ==
    \A c \in Clients : /\ link[c] = "up" => serverUp
                       /\ call[c].stage = "sent" => link[c] = "up"

(* No incarnation is later than the present one.                           *)
IncsPast ==
    \A c \in Clients : /\ \A e \in bx[c] \cup held[c] : e.inc <= epoch
                       /\ call[c].inc <= epoch

(* A request about to be sent over a live connection is for an own handle. *)
PendingIsOwn ==
    \A c \in Clients :
        call[c].stage = "send" /\ link[c] = "up" /\ call[c].op # "OpenPrinter"
          /\ call[c].h \notin stray => remote[call[c].h].owner = c

(* A handle on its way back to the client which asked for it is its own.   *)
ReturnedIsOwn ==
    \A c \in Clients :
        serverUp /\ call[c].stage = "served" /\ call[c].op = "OpenPrinter"
          /\ call[c].res /\ call[c].inc = epoch /\ call[c].h \notin stray
          => remote[call[c].h].owner = c

(* The handle of a ClosePrinter under way is off the list.                 *)
ClosingIsUnlisted ==
    \A c \in Clients :
        call[c].stage \in {"send", "sent"} /\ call[c].op = "ClosePrinter"
          => \A e \in bx[c] : e.h # call[c].h

(* An idle thread is in no call; a call or a lingering request on a handle *)
(* names one.                                                              *)
WellFormed(k) ==
    /\ k.stage = "idle" <=> k = Idle
    /\ k.stage \in {"send", "sent"} =>
          \/ k.op = "OpenPrinter"
          \/ k.op \in HookedOps /\ k.h \in Handles
    /\ k.stage = "served" /\ k.res => k.h \in Handles

CallsWellFormed ==
    /\ \A r \in lingering : r.op # "OpenPrinter" => r.h \in Handles
    /\ \A c \in Clients : WellFormed(call[c])

IInv ==
    /\ TypeOK
    /\ ConnectionsLive
    /\ IncsPast
    /\ CallsWellFormed
    /\ PendingIsOwn
    /\ ReturnedIsOwn
    /\ ClosingIsUnlisted
    /\ ListedIsOpen
    /\ HeldIsListed
    /\ RequestReachesOwnHandle

=============================================================================
