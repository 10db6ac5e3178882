----------------------------- MODULE HandleWidth -----------------------------
(***************************************************************************)
(* What becomes of the value of a printer handle between processes of 32   *)
(* and of 64 bits.  The handler casts the HANDLE it gets from its spooler  *)
(* to int64_t, the detour of OpenPrinter casts that to a HANDLE of its own *)
(* width, lists it and gives it to the application; later detours look it  *)
(* up in the list and send SAFE_HANDLE of it, which the handler casts back *)
(* to a HANDLE.                                                            *)
(*                                                                         *)
(* Half stands for 2^32, and Half * Half for 2^64; an int64_t is the       *)
(* number its bits make up.  A printer handle of a process of 64 bits is   *)
(* an address: nothing keeps it below Half.                                *)
(*                                                                         *)
(* Calls are atomic and do not fail here: SpoolForward models what happens *)
(* when they do, with handles as bare values.                              *)
(*                                                                         *)
(* "cut" and the values v of "held" and "asked" are history.  SafeSigned   *)
(* and ListReply are slips the code could have made in place of their      *)
(* neighbours.                                                             *)
(***************************************************************************)
EXTENDS Integers, FiniteSets

CONSTANTS
    Half,       \* 2^32
    Clients,    \* the hooked processes
    NoRequest,
    MaxOpen     \* bound: handles open on the server at a time

ASSUME ConstantsAssumption ==
    /\ Half \in Nat \ {0, 1}
    /\ NoRequest \notin Clients
    /\ MaxOpen \in Nat

VARIABLES
    server,     \* bits of the server's process
    width,      \* bits of every client's process
    open,       \* the handles which are open on the server
    bx,         \* _bxprinters: the handles a client believes to be remote
    held,       \* what an application has opened and not closed: its HANDLE
                \* h for the server's v
    asked,      \* the last request: whose it was, the handle v it was meant
                \* for, and the handle "to" the server has applied it to
    cut         \* clients which have been given a handle without its upper
                \* half

vars == <<server, width, open, bx, held, asked, cut>>

Widths == {32, 64}
Full == Half * Half
Handles(w) == 0 .. (IF w = 64 THEN Full ELSE Half) - 1

-----------------------------------------------------------------------------
(* Conversions.                                                            *)

(* (int64_t)h: an address of 32 bits is sign-extended.                     *)
ToInt64(w, h) == IF w = 32 /\ 2 * h >= Half THEN h + Full - Half ELSE h

(* (HANDLE)x                                                               *)
ToHandle(w, x) == IF w = 32 THEN x % Half ELSE x

(* SAFE_HANDLE(h): an address of 32 bits is zero-extended.                 *)
SafeSigned(w, h) == ToInt64(w, h)
SafeHandle(w, h) == IF w = 32 THEN ToInt64(w, h) % Half ELSE h

(* What the detour of OpenPrinter makes of a handle of the server, and the *)
(* handle to which the server applies a request on it.                     *)
Given(c, v) == ToHandle(width[c], ToInt64(server, v))
Applied(c, h) == ToHandle(server, SafeHandle(width[c], h))

(* A handle the detour of OpenPrinter gives without its upper half.        *)
LosesUpperHalf(c, v) == server = 64 /\ width[c] = 32 /\ v >= Half

(* The entry addBixolonPrinter() makes for it.                             *)
ListReply(c, v) == ToInt64(server, v)
Listed(c, v) == Given(c, v)

-----------------------------------------------------------------------------
Open(c) ==
    /\ Cardinality(open) < MaxOpen
    /\ \E v \in Handles(server) \ ({0} \cup open) :
          /\ open' = open \cup {v}
          /\ bx' = [bx EXCEPT ![c] = @ \cup {Listed(c, v)}]
          /\ held' = [held EXCEPT ![c] = @ \cup {[h |-> Given(c, v), v |-> v]}]
          /\ cut' = IF LosesUpperHalf(c, v) THEN cut \cup {c} ELSE cut
    /\ UNCHANGED <<server, width, asked>>

Request(c, p) == [client |-> c, v |-> p.v, to |-> Applied(c, p.h)]

(* StartDocPrinter ... EndPagePrinter on a listed handle.                  *)
Use(c, p) ==
    /\ p.h \in bx[c]
    /\ asked' = Request(c, p)
    /\ UNCHANGED <<server, width, open, bx, held, cut>>

(* ClosePrinter on a listed handle: list::remove takes off every entry of  *)
(* this value.                                                             *)
Close(c, p) ==
    /\ p.h \in bx[c]
    /\ bx' = [bx EXCEPT ![c] = @ \ {p.h}]
    /\ held' = [held EXCEPT ![c] = @ \ {p}]
    /\ asked' = Request(c, p)
    /\ open' = open \ {Applied(c, p.h)}
    /\ UNCHANGED <<server, width, cut>>

(* A handle which is not listed is the local spooler's to close.           *)
CloseLocally(c, p) ==
    /\ p.h \notin bx[c]
    /\ held' = [held EXCEPT ![c] = @ \ {p}]
    /\ UNCHANGED <<server, width, open, bx, asked, cut>>

Init ==
    /\ server \in Widths
    /\ width \in [Clients -> Widths]
    /\ open = {}
    /\ bx = [c \in Clients |-> {}]
    /\ held = [c \in Clients |-> {}]
    /\ asked = NoRequest
    /\ cut = {}

Next ==
    \E c \in Clients :
        \/ Open(c)
        \/ \E p \in held[c] : Use(c, p) \/ Close(c, p) \/ CloseLocally(c, p)

Spec == Init /\ [][Next]_vars

-----------------------------------------------------------------------------
(* Properties.                                                             *)

Values == Handles(64)
Held == [h : Values, v : Values]

(* Every variable has its type; a HANDLE of a process of 32 bits, in its   *)
(* list and in the application's hands, fits 32 bits.                      *)
TypeOK ==
    /\ server \in Widths
    /\ width \in [Clients -> Widths]
    /\ open \in SUBSET Handles(server)
    /\ bx \in [Clients -> SUBSET Values]
    /\ held \in [Clients -> SUBSET Held]
    /\ \A c \in Clients : \A p \in held[c] :
          p.h \in Handles(width[c]) /\ p.v \in Handles(server)
    /\ asked = NoRequest \/ asked \in [client : Clients, v : Values, to : Values]
    /\ cut \in SUBSET Clients

(* A request reaches the handle it is meant for, whichever of the two      *)
(* processes is of 32 bits and whatever its top bit is, unless its client  *)
(* has been given a handle without its upper half.                         *)
ReachesTheHandle ==
    asked # NoRequest /\ asked.client \notin cut => asked.to = asked.v

(* Such a client can tell its handles apart, and finds all of them listed: *)
(* closing one leaves the others remote.                                   *)
HandlesStayListed ==
    \A c \in Clients \ cut :
        /\ \A p, q \in held[c] : p.h = q.h => p = q
        /\ \A p \in held[c] : p.h \in bx[c]

(* While no handle has been cut, every handle which is open on the server  *)
(* is held by one client, which can close it, and by no other.             *)
OpenIsHeldOnce ==
    cut = {} =>
        /\ \A v \in open : \E c \in Clients : \E p \in held[c] : p.v = v
        /\ \A c, d \in Clients : \A p \in held[c], q \in held[d] :
              p.v = q.v => c = d /\ p.v \in open

-----------------------------------------------------------------------------
(* The inductive invariant behind them.                                    *)

(* An application's HANDLE is what the conversions make of the server's,   *)
(* and only clients in "cut" hold one which has lost its upper half.       *)
HeldAsGiven ==
    \A c \in Clients : \A p \in held[c] :
        /\ p.h = Given(c, p.v)
        /\ LosesUpperHalf(c, p.v) => c \in cut

IInv ==
    /\ TypeOK
    /\ HeldAsGiven
    /\ ReachesTheHandle
    /\ HandlesStayListed
    /\ OpenIsHeldOnce

=============================================================================
