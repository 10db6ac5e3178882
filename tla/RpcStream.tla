----------------------------- MODULE RpcStream -----------------------------
(***************************************************************************)
(* The byte stream under one client's calls: the generated client writes a *)
(* request piece by piece into a TBufferedTransport, which passes it on to *)
(* the TSocket below; the server's thread parses requests off the stream.  *)
(*                                                                         *)
(* A request is a header (which tells how many bytes follow), a data       *)
(* argument of one of the sizes DataLens (none if 0), and a trailer.  A    *)
(* byte is a record: the call it belongs to, its place in the request and  *)
(* the length the header declares.  The client keeps one transport object  *)
(* for all its connections: thriftlink_client.cpp reopens it.              *)
(*                                                                         *)
(* A call of the socket may fail although the connection is alive, for     *)
(* want of resources: the socket stays open, and what has been written of  *)
(* a request, or what is still to be read of a reply, stays on the stream. *)
(*                                                                         *)
(* "executed", "returned", "spilled" and "slipped" are history.            *)
(* FitsOneTooMany, RestNotAdvanced, FlushSkipped, FlushSendsAndKeeps are   *)
(* mistakes the code could have made in place of their neighbours.         *)
(***************************************************************************)
EXTENDS Naturals, Sequences, FiniteSets

CONSTANTS
    BufSize,    \* wBufSize_: capacity of the write buffer
    DataLens,   \* sizes of a data argument
    MaxCalls,   \* bound: calls the client makes
    MaxFaults   \* bound: connection losses, and failures without one

ASSUME ConstantsAssumption ==
    /\ BufSize \in Nat \ {0, 1}
    /\ DataLens \subseteq Nat
    /\ MaxCalls \in Nat
    /\ MaxFaults \in Nat

VARIABLES
    link,       \* the client's socket: "closed", "up", "broken": still valid
                \* although the connection is gone, "silent": likewise, and
                \* nobody has told the client's system
    wbuf,       \* the bytes wBuf_ .. wBase_ of the client's transport
    todo,       \* pieces of the present request which are yet to be written
    stage,      \* "idle", "writing", "half": writeSlow has passed on the
                \* buffer and not yet the piece, "waiting" for a reply,
                \* "skipping" the rest of another function's, "result"
    calls,      \* number of the present or last call
    named,      \* the name of its function
    wire,       \* what the server has not read of the client's connection
    replies,    \* what the client has not read, from it or from rBuf_
    late,       \* what the server has received on lost connections
    executed,   \* the requests executed, in order
    returned,   \* the calls which returned a result
    spilled,    \* the states of the link in which writeSlow has thrown with
                \* bytes in the buffer
    slipped,    \* what has failed on a connection that lives on: "write",
                \* "read"
    faults

vars == <<link, wbuf, todo, stage, calls, named, wire, replies, late, executed,
          returned, spilled, slipped, faults>>

-----------------------------------------------------------------------------
Byte == [call : 1 .. MaxCalls, pos : Nat \ {0}, of : Nat \ {0, 1}]

Bytes(k, n, i, j) == [x \in 1 .. j + 1 - i |-> [call |-> k, pos |-> x + i - 1, of |-> n + 2]]

(* send_<op>: header, data and trailer are written one after the other.    *)
Pieces(k, n) ==
    IF n = 0 THEN <<Bytes(k, n, 1, 1), Bytes(k, n, 2, 2)>>
    ELSE <<Bytes(k, n, 1, 1), Bytes(k, n, 2, n + 1), Bytes(k, n, n + 2, n + 2)>>

Name(n) == IF n = 0 THEN "StartPagePrinter" ELSE "WritePrinter"

Prefixes(s) == {SubSeq(s, 1, i) : i \in 0 .. Len(s)}

(* ensure_connection(): a socket which is not open is opened again; the    *)
(* write buffer is not touched, nor what rBuf_ has of earlier replies.     *)
Begin(n) ==
    /\ stage = "idle"
    /\ calls < MaxCalls
    /\ calls' = calls + 1
    /\ named' = Name(n)
    /\ todo' = Pieces(calls', n)
    /\ stage' = "writing"
    /\ IF link = "closed"
       THEN link' = "up" /\ wire' = <<>> /\ replies' \in Prefixes(replies)
       ELSE UNCHANGED <<link, wire, replies>>
    /\ UNCHANGED <<wbuf, late, executed, returned, spilled, slipped, faults>>

-----------------------------------------------------------------------------
(* TSocket::write: the bytes go out, or into the void of a connection      *)
(* which is gone.                                                          *)
Sends(bytes) ==
    /\ link # "closed"
    /\ wire' = IF link = "up" THEN wire \o bytes ELSE wire
    /\ UNCHANGED <<link, slipped, faults>>

(* It throws when it is told that the connection has gone, and closes the  *)
(* socket or not ...                                                       *)
ThrowsGone ==
    /\ link = "broken"
    /\ link' \in {"closed", "broken"}
    /\ UNCHANGED <<wire, slipped, faults>>

Slips(what) ==
    /\ faults < MaxFaults
    /\ faults' = faults + 1
    /\ slipped' = slipped \cup {what}
    /\ UNCHANGED link

(* ... and for any other error, with the socket left open and some of the  *)
(* bytes gone out before.                                                  *)
ThrowsAlive(bytes) ==
    /\ link \in {"up", "silent"}
    /\ Slips("write")
    /\ wire' \in IF link = "up" THEN {wire \o b : b \in Prefixes(bytes) \ {bytes}}
                               ELSE {wire}

Throws(bytes) ==
    /\ ThrowsGone \/ ThrowsAlive(bytes)
    /\ stage' = "idle"
    /\ todo' = <<>>

Joined == wbuf \o Head(todo)
FitsOneTooMany == Len(Joined) <= BufSize + 1
Fits == Len(Joined) <= BufSize
TwoSyscalls == Len(Joined) >= 2 * BufSize \/ wbuf = <<>>

(* TBufferBase::write, the fast path.                                      *)
WriteFast ==
    /\ stage = "writing" /\ todo # <<>>
    /\ Fits
    /\ wbuf' = Joined
    /\ todo' = Tail(todo)
    /\ UNCHANGED <<link, stage, calls, named, wire, replies, late, executed,
                   returned, spilled, slipped, faults>>

(* An exception of the socket leaves writeSlow() before wBase_ is reset.   *)
SlowThrows(bytes) ==
    /\ Throws(bytes)
    /\ spilled' = spilled \cup (IF wbuf = <<>> THEN {} ELSE {link})
    /\ UNCHANGED wbuf

(* writeSlow, two calls of the socket: first the buffer ...                *)
WriteBuffer ==
    /\ stage = "writing" /\ todo # <<>>
    /\ ~Fits /\ TwoSyscalls /\ wbuf # <<>>
    /\ \/ Sends(wbuf) /\ stage' = "half" /\ UNCHANGED <<wbuf, todo, spilled>>
       \/ SlowThrows(wbuf)
    /\ UNCHANGED <<calls, named, replies, late, executed, returned>>

(* ... then the piece.                                                     *)
WritePiece ==
    /\ \/ stage = "half"
       \/ stage = "writing" /\ todo # <<>> /\ ~Fits /\ wbuf = <<>>
    /\ \/ /\ Sends(Head(todo))
          /\ stage' = "writing"
          /\ wbuf' = <<>>
          /\ todo' = Tail(todo)
          /\ UNCHANGED spilled
       \/ SlowThrows(Head(todo))
    /\ UNCHANGED <<calls, named, replies, late, executed, returned>>

RestNotAdvanced == SubSeq(Head(todo), 1, Len(Joined) - BufSize)
Rest == SubSeq(Joined, BufSize + 1, Len(Joined))
Filled == SubSeq(Joined, 1, BufSize)

(* writeSlow, one call: the buffer is filled up, passed on, and takes the  *)
(* rest of the piece.                                                      *)
WriteFilled ==
    /\ stage = "writing" /\ todo # <<>>
    /\ ~Fits /\ ~TwoSyscalls
    /\ \/ /\ Sends(Filled)
          /\ wbuf' = Rest
          /\ todo' = Tail(todo)
          /\ UNCHANGED <<stage, spilled>>
       \/ SlowThrows(Filled)
    /\ UNCHANGED <<calls, named, replies, late, executed, returned>>

(* flush() resets wBase_ before it calls the socket.                       *)
FlushSkipped == UNCHANGED <<link, wire, wbuf, slipped, faults>>
FlushSendsAndKeeps == Sends(wbuf) /\ UNCHANGED wbuf
FlushSends == Sends(wbuf) /\ wbuf' = <<>>

FlushThrows == Throws(wbuf) /\ wbuf' = <<>>

Flush ==
    /\ stage = "writing" /\ todo = <<>>
    /\ \/ FlushSends /\ stage' = "waiting" /\ UNCHANGED todo
       \/ wbuf # <<>> /\ FlushThrows
    /\ UNCHANGED <<calls, named, replies, late, executed, returned, spilled>>

-----------------------------------------------------------------------------
(* The server's thread of the connection.                                  *)

(* A request is read by its header: that many bytes, whosever they are.    *)
Complete(bytes) == bytes # <<>> /\ bytes[1].pos = 1 /\ Len(bytes) >= bytes[1].of
After(bytes) == SubSeq(bytes, bytes[1].of + 1, Len(bytes))
Received(bytes) == IF Complete(bytes) THEN {bytes} ELSE {}

Parsed(bytes) ==
    [call |-> bytes[1].call, name |-> Name(bytes[1].of - 2),
     whole |-> \A i \in 1 .. bytes[1].of :
                  bytes[i].call = bytes[1].call /\ bytes[i].pos = i]

Reply(r) ==
    [i \in 1 .. 2 |-> [call |-> r.call, name |-> r.name,
                       part |-> IF i = 1 THEN "name" ELSE "rest"]]

(* A complete request is executed and answered.                            *)
Serve ==
    /\ link = "up"
    /\ Complete(wire)
    /\ executed' = Append(executed, Parsed(wire))
    /\ replies' = replies \o Reply(Parsed(wire))
    /\ wire' = After(wire)
    /\ UNCHANGED <<link, wbuf, todo, stage, calls, named, late, returned, spilled,
                   slipped, faults>>

(* The connection ends.  Of what the client has not read it keeps what is  *)
(* in rBuf_, or has arrived and can still be read.                         *)
Hangup ==
    /\ wire' = <<>>
    /\ replies' \in Prefixes(replies)

(* What stands where a header, or the end of a request, should be is not   *)
(* one: the parser throws, unless it takes the bytes for a length and      *)
(* waits for more.  The thread ends and closes the connection.             *)
ParseFails ==
    /\ link = "up"
    /\ wire # <<>>
    /\ \/ wire[1].pos # 1
       \/ Complete(wire) /\ ~Parsed(wire).whole
    /\ link' = "broken"
    /\ Hangup
    /\ UNCHANGED <<wbuf, todo, stage, calls, named, late, executed, returned,
                   spilled, slipped, faults>>

(* What the server had received before a connection was lost is executed   *)
(* now; the reply goes nowhere.                                            *)
ServeLate(bytes) ==
    /\ bytes \in late
    /\ executed' = Append(executed, Parsed(bytes))
    /\ late' = (late \ {bytes}) \cup Received(After(bytes))
    /\ UNCHANGED <<link, wbuf, todo, stage, calls, named, wire, replies, returned,
                   spilled, slipped, faults>>

-----------------------------------------------------------------------------
(* recv_<op>.  A reply is its function's name and the rest.                *)

Reading == {"waiting", "skipping", "result"}

Expected == IF stage = "waiting" THEN "name" ELSE "rest"

(* A reply is matched by its function's name.  One of another function is  *)
(* skipped, and what follows is read as the result.                        *)
Receive ==
    /\ stage \in Reading
    /\ replies # <<>>
    /\ replies' = Tail(replies)
    /\ LET p == Head(replies) IN
       \/ /\ p.part = Expected /\ stage = "waiting"
          /\ stage' = IF p.name = named THEN "result" ELSE "skipping"
          /\ UNCHANGED returned
       \/ /\ p.part = Expected /\ stage = "skipping"
          /\ stage' = "result"
          /\ UNCHANGED returned
       \/ /\ p.part = Expected /\ stage = "result"
          /\ stage' = "idle"
          /\ returned' = Append(returned, [call |-> calls, by |-> p.call])
       \/ /\ p.part # Expected           \* taken for a length, say, or throws
          /\ stage' \in {stage, "idle"}
          /\ UNCHANGED returned
    /\ UNCHANGED <<link, wbuf, todo, calls, named, wire, late, executed, spilled,
                   slipped, faults>>

(* The read meets the end of the connection and throws.                    *)
ReceiveFails ==
    /\ stage \in Reading
    /\ replies = <<>>
    /\ link = "broken"
    /\ stage' = "idle"
    /\ UNCHANGED <<link, wbuf, todo, calls, named, wire, replies, late, executed,
                   returned, spilled, slipped, faults>>

(* The read fails although there is, or will be, a reply, which stays; or  *)
(* the rest of one does, when its beginning has been read.                 *)
ReceiveSlips ==
    /\ stage \in Reading
    /\ Slips("read")
    /\ stage' = "idle"
    /\ \/ UNCHANGED replies
       \/ replies # <<>> /\ Head(replies).part = "name" /\ replies' = Tail(replies)
    /\ UNCHANGED <<wbuf, todo, calls, named, wire, late, executed, returned, spilled>>

-----------------------------------------------------------------------------
(* The connection is lost, and the client's system is told or not.  What   *)
(* the server has received by then may still be executed.                  *)
ConnectionLost ==
    /\ faults < MaxFaults
    /\ faults' = faults + 1
    /\ link = "up"
    /\ link' \in {"broken", "silent"}
    /\ Hangup
    /\ \E bytes \in Prefixes(wire) : late' = late \cup Received(bytes)
    /\ UNCHANGED <<wbuf, todo, stage, calls, named, executed, returned, spilled, slipped>>

(* No receive timeout and no keepalive is set: only what the client sends, *)
(* or a peer which is up again, brings it to light that one has gone.      *)
LossReported ==
    /\ link = "silent"
    /\ link' = "broken"
    /\ UNCHANGED <<wbuf, todo, stage, calls, named, wire, replies, late, executed,
                   returned, spilled, slipped, faults>>

Init ==
    /\ link = "up"
    /\ wbuf = <<>> /\ todo = <<>> /\ stage = "idle" /\ calls = 0 /\ named = "none"
    /\ wire = <<>> /\ replies = <<>> /\ late = {}
    /\ executed = <<>> /\ returned = <<>>
    /\ spilled = {} /\ slipped = {} /\ faults = 0

Writes == WriteFast \/ WriteBuffer \/ WritePiece \/ WriteFilled \/ Flush

Next ==
    \/ \E n \in DataLens : Begin(n)
    \/ WriteFast \/ WriteBuffer \/ WritePiece \/ WriteFilled \/ Flush
    \/ Serve \/ ParseFails
    \/ \E bytes \in late : ServeLate(bytes)
    \/ Receive \/ ReceiveFails \/ ReceiveSlips
    \/ ConnectionLost \/ LossReported

Spec == Init /\ [][Next]_vars

(* A call which has begun goes on, the server's thread reads the requests  *)
(* there are, and the read ends which has something to read or is told     *)
(* that nothing will come.  That it is told is not assumed.                *)
FairSpec ==
    /\ Spec
    /\ WF_vars(Writes)
    /\ WF_vars(Serve)
    /\ WF_vars(Receive \/ ReceiveFails)

-----------------------------------------------------------------------------
(* Properties.                                                             *)

Names == {"none", "StartPagePrinter", "WritePrinter"}

(* Every variable has its type, and the buffer never holds more than it    *)
(* can.                                                                    *)
TypeOK ==
    /\ link \in {"closed", "up", "broken", "silent"}
    /\ Len(wbuf) <= BufSize
    /\ \A s \in {wbuf, wire} \cup late : \A i \in DOMAIN s : s[i] \in Byte
    /\ stage \in {"idle", "writing", "half"} \cup Reading
    /\ calls \in 0 .. MaxCalls
    /\ named \in Names
    /\ spilled \subseteq {"up", "broken", "silent"} /\ slipped \subseteq {"read", "write"}
    /\ faults \in 0 .. MaxFaults

(* However the connection fails and is opened again, whatever is left on   *)
(* it and in the buffers, no call is executed twice: a byte is sent a      *)
(* second time only on another connection, and never the one which would   *)
(* complete a request the first one had.  Only writeSlow, when its socket  *)
(* fails on a living connection, sends its buffer there again.             *)
AtMostOnce ==
    "up" \notin spilled =>
        \A i, j \in DOMAIN executed : executed[i].call = executed[j].call => i = j

(* A request is put together of bytes of two calls only after a write has  *)
(* failed on a living connection, or writeSlow on any: failing reads leave *)
(* the requests whole, and so do connections which come and go, as long as *)
(* a call fits the buffer.                                                 *)
MixedOnlyAfterFailedWrite ==
    (\E i \in DOMAIN executed : ~executed[i].whole) =>
        spilled # {} \/ "write" \in slipped

Upset == spilled # {} \/ slipped # {}

(* Unless something has failed on a living connection, or writeSlow has    *)
(* left bytes behind, a result which a call returns answers that very      *)
(* call, which has been executed as it was made.                           *)
ResultsAreOwn ==
    ~Upset =>
        \A i \in DOMAIN returned :
            /\ returned[i].by = returned[i].call
            /\ \E j \in DOMAIN executed : executed[j].call = returned[i].call

(* When the underlying write throws, the internal buffer is left clean:    *)
(* a client outside of any call has no bytes in its write buffer.          *)
CleanBetweenCalls == stage = "idle" => wbuf = <<>>

(* The stream implements a remote call, which is executed at most once,    *)
(* reported as done only if it has been, and ends unless the server        *)
(* vanishes and nobody tells the client, until a call of the socket leaves *)
(* something behind.  Then the server may wait for the rest of a request   *)
(* the client has given up, or the client for a reply it has skipped.      *)
Abstract == INSTANCE RemoteCall WITH
    pending <- stage # "idle",
    executed <- {executed[i].call : i \in DOMAIN executed},
    returned <- {returned[i].call : i \in DOMAIN returned},
    void <- Upset,
    silent <- link = "silent"

ImplementsRemoteCall == Abstract!Spec

=============================================================================
