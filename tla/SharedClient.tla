---------------------------- MODULE SharedClient ----------------------------
(***************************************************************************)
(* The threads of one hooked process.  All their detours use one _api with *)
(* one TBufferedTransport and one TSocket (thriftlink_client.cpp), and one *)
(* std::list of remote handles (userdef_client.cpp); there is no lock.     *)
(*                                                                         *)
(* A request is two pieces in the write buffer, "head" (the function) and  *)
(* "args"; a reply two pieces of the stream, "name" and "result".  Where   *)
(* two threads race on wBase_, rBase_ or the nodes of the list, the        *)
(* outcome is any the race can have: a piece overwritten, sent twice or    *)
(* read twice, a node lost, a walk through freed memory.  Requests fit the *)
(* write buffer; RpcStream has those which do not, for one thread.  As     *)
(* there, a call of the socket may fail on a connection which lives on.    *)
(*                                                                         *)
(* Every thread opens a printer of its own; the handle it gets from the    *)
(* server is named after the thread.  "executed", "returned", "together",  *)
(* "sentTogether" and "slipped" are history.  FlushKeeps, ReadFailsOnly    *)
(* and NeverListed are mistakes the code could have made.                  *)
(***************************************************************************)
EXTENDS Naturals, Sequences, FiniteSets

CONSTANTS
    Threads,
    None,
    MaxCalls,    \* bound: calls of each thread
    MaxFaults    \* bound: connection losses, and failures without one

ASSUME ConstantsAssumption ==
    /\ None \notin Threads
    /\ MaxCalls \in Nat
    /\ MaxFaults \in Nat

VARIABLES
    link,         \* _socket: "closed", "up", "broken": valid and lost, or
                  \* "silent": likewise, and nobody has told this system
    wbuf,         \* the pieces wBuf_ .. wBase_
    stage,        \* where each thread is in its detour
    call,         \* the call each thread is in, or was in last
    holds,        \* the remote handle each thread's application has
    listed,       \* _bxprinters
    wire,         \* what the server has not read
    replies,      \* what the client has not read
    late,         \* requests received on lost connections, not yet executed
    executed,     \* the requests executed, in order
    returned,     \* the results returned
    together,     \* two threads have been in a call at the same time
    sentTogether, \* ... up to the flush of their requests
    slipped,      \* what has failed on a living connection: "write", "read"
    crashed,
    faults

vars == <<link, wbuf, stage, call, holds, listed, wire, replies, late, executed,
          returned, together, sentTogether, slipped, crashed, faults>>

Fns == {"OpenPrinterW", "StartPagePrinter", "ClosePrinter"}

Sending == {"opening", "looking", "head", "args", "flush"}
Writing == {"head", "args", "flush"}
Reading == {"name", "skip", "result"}

Racing(t, stages) == \E u \in Threads \ {t} : stage[u] \in stages

(* One of the outcomes, or, in a race, one of those as well.               *)
Either(normal, race, outcomes) == {normal} \cup (IF race THEN outcomes ELSE {})

-----------------------------------------------------------------------------
(* A thread enters a detour: ensure_connection().                          *)
Begin(t, fn) ==
    /\ stage[t] = "idle"
    /\ call[t].n < MaxCalls
    /\ fn = "OpenPrinterW" <=> holds[t] = None
    /\ call' = [call EXCEPT ![t] = [by |-> t, n |-> @.n + 1, fn |-> fn]]
    /\ stage' = [stage EXCEPT ![t] = IF link = "closed" THEN "opening" ELSE "looking"]
    /\ together' = (together \/ \E u \in Threads : stage[u] # "idle")
    /\ sentTogether' = (sentTogether \/ Racing(t, Sending))
    /\ UNCHANGED <<link, wbuf, holds, listed, wire, replies, late, executed,
                   returned, slipped, crashed, faults>>

Prefixes(q) == {SubSeq(q, 1, i) : i \in 0 .. Len(q)}

(* A function and what follows make a request, whosever they are.          *)
RequestAt(i) == [head |-> wire[i].call, args |-> wire[i + 1].call]

(* Those the server has received; any of them may still be executed when   *)
(* their connection is given up or lost.                                   *)
Received == {RequestAt(i) : i \in {j \in 1 .. Len(wire) - 1 : wire[j].part = "head"}}

KeptLate == \E q \in SUBSET Received : late' = late \cup q

(* TSocket::open() does nothing for a socket which is open; between its    *)
(* question and its assignment another thread may have opened one, which   *)
(* is then replaced.  The transport keeps what rBuf_ has of replies.       *)
Open(t) ==
    /\ stage[t] = "opening"
    /\ \/ link # "closed" /\ UNCHANGED <<link, wire, replies, late>>
       \/ link' = "up" /\ wire' = <<>> /\ replies' \in Prefixes(replies) /\ KeptLate
    /\ stage' = [stage EXCEPT ![t] = "looking"]
    /\ UNCHANGED <<wbuf, call, holds, listed, executed, returned, together,
                   sentTogether, slipped, crashed, faults>>

(* A thread walks through the list, or changes it, while another changes   *)
(* it, or walks.                                                           *)
Walks(t) ==
    \/ stage[t] = "adding"
    \/ stage[t] = "looking" /\ call[t].fn # "OpenPrinterW"
Changes(t) == Walks(t) /\ call[t].fn # "StartPagePrinter"
ListRace(t) == Walks(t) /\ \E u \in Threads \ {t} : Walks(u) /\ (Changes(t) \/ Changes(u))

Crash(t) ==
    /\ ListRace(t)
    /\ crashed' = TRUE
    /\ stage' = [u \in Threads |-> "idle"]
    /\ UNCHANGED <<link, wbuf, call, holds, listed, wire, replies, late, executed,
                   returned, together, sentTogether, slipped, faults>>

(* isBixolonPrinterByHandle(), and closeBixolonPrinter() before ClosePrinter *)
(* is forwarded.  OpenPrinterW asks for the printer's name instead.        *)
LookFor(t) ==
    /\ stage[t] = "looking"
    /\ \E found \in Either(call[t].fn = "OpenPrinterW" \/ holds[t] \in listed,
                           ListRace(t), BOOLEAN) :
          /\ stage' = [stage EXCEPT ![t] = IF found THEN "head" ELSE "idle"]
          /\ IF found /\ call[t].fn = "ClosePrinter"
             THEN /\ listed' \in Either(listed \ {holds[t]}, ListRace(t), {listed})
                  /\ holds' = [holds EXCEPT ![t] = None]
             ELSE UNCHANGED <<listed, holds>>
    /\ UNCHANGED <<link, wbuf, call, wire, replies, late, executed, returned,
                   together, sentTogether, slipped, crashed, faults>>

-----------------------------------------------------------------------------
(* send_<fn>: TBufferBase::write copies to wBase_ and then advances it.    *)
Overwritten(p) == IF wbuf = <<>> THEN wbuf ELSE [wbuf EXCEPT ![Len(wbuf)] = p]

Write(t) ==
    /\ stage[t] \in {"head", "args"}
    /\ LET p == [call |-> call[t], part |-> stage[t]] IN
       wbuf' \in Either(Append(wbuf, p), Racing(t, Writing), {wbuf, Overwritten(p)})
    /\ stage' = [stage EXCEPT ![t] = IF @ = "head" THEN "args" ELSE "flush"]
    /\ UNCHANGED <<link, call, holds, listed, wire, replies, late, executed,
                   returned, together, sentTogether, slipped, crashed, faults>>

(* flush() reads wBase_, resets it, and gives what was there to the socket.*)
FlushKeeps(t) == {wbuf}
Flushed(t) == Either(<<>>, Racing(t, Writing), {wbuf})

(* The socket fails although the connection lives on, and stays open.      *)
Slips(what) ==
    /\ faults < MaxFaults
    /\ faults' = faults + 1
    /\ slipped' = slipped \cup {what}
    /\ UNCHANGED link

Sends ==
    /\ link # "closed" \/ wbuf = <<>>
    /\ wire' = IF link = "up" THEN wire \o wbuf ELSE wire
    /\ UNCHANGED <<link, slipped, faults>>

(* A write throws when it is told that the connection has gone, and closes *)
(* the socket or not; or else after some of the request has gone out.      *)
Throws ==
    /\ wbuf # <<>>
    /\ \/ /\ link \in {"closed", "broken"}
          /\ link' \in {link, "closed"}
          /\ UNCHANGED <<wire, slipped, faults>>
       \/ /\ link \in {"up", "silent"}
          /\ Slips("write")
          /\ wire' \in IF link = "up" THEN {wire \o q : q \in Prefixes(wbuf) \ {wbuf}}
                                     ELSE {wire}

Flush(t) ==
    /\ stage[t] = "flush"
    /\ wbuf' \in Flushed(t)
    /\ \/ Sends /\ stage' = [stage EXCEPT ![t] = "name"]
       \/ Throws /\ stage' = [stage EXCEPT ![t] = "idle"]
    /\ UNCHANGED <<call, holds, listed, replies, late, executed, returned,
                   together, sentTogether, crashed>>

-----------------------------------------------------------------------------
(* The server's thread of the connection.                                  *)

Complete == Len(wire) >= 2 /\ wire[1].part = "head"
Parsed == RequestAt(1)

(* Where the arguments should be there may be another request, which is    *)
(* taken for them, if the bytes happen to allow it.                        *)
Serve ==
    /\ link = "up"
    /\ Complete
    /\ executed' = Append(executed, Parsed)
    /\ replies' = replies \o <<[call |-> Parsed.head, part |-> "name"],
                               [call |-> Parsed.head, part |-> "result"]>>
    /\ wire' = SubSeq(wire, 3, Len(wire))
    /\ UNCHANGED <<link, wbuf, stage, call, holds, listed, late, returned,
                   together, sentTogether, slipped, crashed, faults>>

(* What the client has not read may go with the connection.                *)
Hangup == wire' = <<>> /\ replies' \in Prefixes(replies)

(* Other pieces do not parse: the thread throws and closes the connection, *)
(* unless it waits for more.                                               *)
ParseFails ==
    /\ link = "up"
    /\ wire # <<>>
    /\ wire[1].part = "args" \/ (Len(wire) >= 2 /\ wire[2].part = "head")
    /\ link' = "broken"
    /\ Hangup
    /\ UNCHANGED <<wbuf, stage, call, holds, listed, late, executed, returned,
                   together, sentTogether, slipped, crashed, faults>>

ServeLate(r) ==
    /\ r \in late
    /\ late' = late \ {r}
    /\ executed' = Append(executed, r)
    /\ UNCHANGED <<link, wbuf, stage, call, holds, listed, wire, replies, returned,
                   together, sentTogether, slipped, crashed, faults>>

(* The client's system is told, or not.                                    *)
ConnectionLost ==
    /\ faults < MaxFaults
    /\ faults' = faults + 1
    /\ link = "up"
    /\ link' \in {"broken", "silent"}
    /\ Hangup
    /\ KeptLate
    /\ UNCHANGED <<wbuf, stage, call, holds, listed, executed, returned, together,
                   sentTogether, slipped, crashed>>

(* Only what the client sends, or a peer which is up again, may bring it   *)
(* to light: no receive timeout and no keepalive is set.                   *)
LossReported ==
    /\ link = "silent"
    /\ link' = "broken"
    /\ UNCHANGED <<wbuf, stage, call, holds, listed, wire, replies, late, executed,
                   returned, together, sentTogether, slipped, crashed, faults>>

-----------------------------------------------------------------------------
(* recv_<fn>.  A reply of another function is skipped, and what follows it *)
(* is read as the result.                                                  *)
NameMatches(t, p) == p.call.fn = call[t].fn

Expected(t, p) == p.part = IF stage[t] = "name" THEN "name" ELSE "result"

(* The result of OpenPrinterW is a handle, given to the application and    *)
(* then listed.                                                            *)
Result(t, p) ==
    /\ returned' = returned \cup {[call |-> call[t], by |-> p.call]}
    /\ IF call[t].fn = "OpenPrinterW"
       THEN /\ holds' = [holds EXCEPT ![t] = p.call.by]
            /\ stage' = [stage EXCEPT ![t] = "adding"]
       ELSE /\ stage' = [stage EXCEPT ![t] = "idle"]
            /\ UNCHANGED holds

NoResult(t, next) ==
    /\ stage' = [stage EXCEPT ![t] = next]
    /\ UNCHANGED <<returned, holds>>

Receive(t) ==
    /\ stage[t] \in Reading
    /\ replies # <<>>
    /\ replies' \in Either(Tail(replies), Racing(t, Reading), {replies})
    /\ LET p == Head(replies) IN
       \/ /\ Expected(t, p) /\ stage[t] = "name"
          /\ NoResult(t, IF NameMatches(t, p) THEN "result" ELSE "skip")
       \/ Expected(t, p) /\ stage[t] = "skip" /\ NoResult(t, "result")
       \/ Expected(t, p) /\ stage[t] = "result" /\ Result(t, p)
       \/ ~Expected(t, p) /\ NoResult(t, stage[t])  \* taken for a length, say
       \/ ~Expected(t, p) /\ NoResult(t, "idle")    \* throws
    /\ UNCHANGED <<link, wbuf, call, listed, wire, late, executed, together,
                   sentTogether, slipped, crashed, faults>>

ReadFailsOnly == link = "closed"
NoMoreReplies == link \in {"closed", "broken"}

(* The read meets the end of the connection.                               *)
ReceiveFails(t) ==
    /\ stage[t] \in Reading
    /\ replies = <<>>
    /\ NoMoreReplies
    /\ stage' = [stage EXCEPT ![t] = "idle"]
    /\ UNCHANGED <<link, wbuf, call, holds, listed, wire, replies, late, executed,
                   returned, together, sentTogether, slipped, crashed, faults>>

(* It fails although there is, or will be, a reply, which stays, or the    *)
(* rest of it does.                                                        *)
ReceiveSlips(t) ==
    /\ stage[t] \in Reading
    /\ Slips("read")
    /\ \/ UNCHANGED replies
       \/ replies # <<>> /\ Head(replies).part = "name" /\ replies' = Tail(replies)
    /\ stage' = [stage EXCEPT ![t] = "idle"]
    /\ UNCHANGED <<wbuf, call, holds, listed, wire, late, executed, returned,
                   together, sentTogether, crashed>>

(* addBixolonPrinter(): push_back.                                         *)
NeverListed(t) == {listed}
Added(t) == Either(listed \cup {holds[t]}, ListRace(t), {listed})

Add(t) ==
    /\ stage[t] = "adding"
    /\ listed' \in Added(t)
    /\ stage' = [stage EXCEPT ![t] = "idle"]
    /\ UNCHANGED <<link, wbuf, call, holds, wire, replies, late, executed, returned,
                   together, sentTogether, slipped, crashed, faults>>

-----------------------------------------------------------------------------
(* thrift_connect() in DllMain may have failed: the hooks are set all the  *)
(* same.                                                                   *)
Init ==
    /\ link \in {"up", "closed"} /\ wbuf = <<>> /\ wire = <<>> /\ replies = <<>> /\ late = {}
    /\ stage = [t \in Threads |-> "idle"]
    /\ call = [t \in Threads |-> [by |-> t, n |-> 0, fn |-> "none"]]
    /\ holds = [t \in Threads |-> None] /\ listed = {}
    /\ executed = <<>> /\ returned = {}
    /\ together = FALSE /\ sentTogether = FALSE /\ slipped = {}
    /\ crashed = FALSE /\ faults = 0

Steps(t) ==
    \/ Open(t) \/ LookFor(t) \/ Write(t) \/ Flush(t)
    \/ Receive(t) \/ ReceiveFails(t) \/ Add(t)

Next ==
    /\ ~crashed
    /\ \/ \E t \in Threads : (\E fn \in Fns : Begin(t, fn)) \/ Crash(t)
       \/ \E t \in Threads :
             \/ Open(t) \/ LookFor(t) \/ Write(t) \/ Flush(t)
             \/ Receive(t) \/ ReceiveFails(t) \/ ReceiveSlips(t) \/ Add(t)
       \/ Serve \/ ParseFails
       \/ \E r \in late : ServeLate(r)
       \/ ConnectionLost \/ LossReported

Spec == Init /\ [][Next]_vars

(* The threads run, the server's thread reads the requests there are, and  *)
(* a read ends which has something to read or is told that nothing will    *)
(* come.  That it is told of a lost connection is not assumed.             *)
FairSpec ==
    /\ Spec
    /\ \A t \in Threads : WF_vars(~crashed /\ Steps(t))
    /\ WF_vars(~crashed /\ Serve)

-----------------------------------------------------------------------------
(* Properties.                                                             *)

(* Threads may wait for replies at the same time, open the connection      *)
(* again under each other's feet, and leave replies or half a request on   *)
(* it: as long as no two have been sending, the server executes no call    *)
(* twice, and if no write has failed on a living connection, each as it    *)
(* was made.                                                               *)
WholeUnlessSentTogether ==
    ~sentTogether =>
        /\ \A i, j \in DOMAIN executed : executed[i].head = executed[j].head => i = j
        /\ "write" \notin slipped =>
              \A i \in DOMAIN executed : executed[i].head = executed[i].args

(* Threads which take turns do not crash.  As long as no read or write has *)
(* failed on a living connection, they get their own results, whatever     *)
(* connections are lost, and the handle each holds is its own and listed.  *)
TurnsAreSafe ==
    ~together =>
        /\ ~crashed
        /\ slipped = {} =>
              /\ \A r \in returned : r.call = r.by
              /\ \A t \in Threads :
                    /\ holds[t] \in {None, t}
                    /\ holds[t] = t /\ stage[t] # "adding" => t \in listed

(* Unless the server has vanished for good and nobody tells, a call which  *)
(* has begun ends, as long as it was alone and nothing has been left on a  *)
(* living connection, where it could be taken for its reply.               *)
CallsReturnUnlessTogether ==
    []<>(link # "silent") =>
        \A t \in Threads :
            stage[t] # "idle" ~> stage[t] = "idle" \/ together \/ slipped # {}

=============================================================================
