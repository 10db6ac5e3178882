------------------------- MODULE SharedClientProofs -------------------------
(***************************************************************************)
(* Proofs about SharedClient, for any threads and every bound: IInv, while *)
(* no two threads have been sending at the same time, and Turns, while no  *)
(* two have been in a call.                                                *)
(***************************************************************************)
EXTENDS SharedClient, SequenceTheorems, TLAPS

USE DEF Sending, Writing, Reading

-----------------------------------------------------------------------------
(* Types of what the server is sent.                                       *)

CallRec == [by : Threads, n : Nat, fn : Fns \cup {"none"}]
Request == [head : CallRec, args : CallRec]
Piece == [call : CallRec, part : {"head", "args"}]

Types ==
    /\ call \in [Threads -> CallRec] /\ \A t \in Threads : call[t].by = t
    /\ stage \in [Threads -> {"idle", "adding"} \cup Sending \cup Reading]
    /\ wbuf \in Seq(Piece) /\ wire \in Seq(Piece)
    /\ executed \in Seq(Request) /\ late \subseteq Request
    /\ sentTogether \in BOOLEAN
    /\ link \in {"closed", "up", "broken", "silent"}

LEMMA InitTypes == Init => Types
<1> SUFFICES ASSUME Init PROVE Types
  OBVIOUS
<1>1. \A t \in Threads : [by |-> t, n |-> 0, fn |-> "none"] \in CallRec
  BY DEF CallRec
<1>2. call \in [Threads -> CallRec] /\ \A t \in Threads : call[t].by = t
  BY <1>1 DEF Init
<1>3. <<>> \in Seq(Piece) /\ <<>> \in Seq(Request)
  OBVIOUS
<1>4. stage \in [Threads -> {"idle", "adding"} \cup Sending \cup Reading]
  BY DEF Init
<1> QED
  BY <1>2, <1>3, <1>4 DEF Init, Types

LEMMA PrefixElements ==
    ASSUME NEW S, NEW q \in Seq(S), NEW b \in Prefixes(q)
    PROVE  /\ b \in Seq(S) /\ Len(b) \in 0 .. Len(q)
           /\ \A i \in 1 .. Len(b) : b[i] = q[i]
<1>1. PICK k \in 0 .. Len(q) : b = SubSeq(q, 1, k)
  BY DEF Prefixes
<1>2. Len(q) \in Nat /\ k \in Nat /\ k <= Len(q)
  BY LenProperties
<1> QED
  BY <1>1, <1>2

LEMMA ReceivedTyped == Types => Received \subseteq Request
<1> SUFFICES ASSUME Types, NEW i \in 1 .. Len(wire) - 1
             PROVE  RequestAt(i) \in Request
  BY DEF Received
<1>1. wire[i] \in Piece /\ wire[i + 1] \in Piece
  BY DEF Types
<1> QED
  BY <1>1 DEF Piece, Request, RequestAt

(* What the thread t's own steps do to the variables of Types.             *)
LEMMA StageTyped ==
    ASSUME Types, NEW t \in Threads,
           NEW s \in {"idle", "adding"} \cup Sending \cup Reading,
           stage' = [stage EXCEPT ![t] = s], UNCHANGED <<call, sentTogether, executed>>,
           wbuf' \in Seq(Piece), wire' \in Seq(Piece), late' \subseteq Request,
           link' \in {"closed", "up", "broken", "silent"}
    PROVE  Types'
  BY DEF Types

(* What a flush may send: all there is in the buffer, or nothing, or, when *)
(* it fails on a living connection, the first pieces.                      *)
LEMMA FlushFacts ==
    ASSUME NEW t \in Threads, Flush(t)
    PROVE  /\ UNCHANGED <<call, late, executed>>
           /\ UNCHANGED <<holds, listed, replies, returned>>
           /\ UNCHANGED <<together, sentTogether, crashed>>
           /\ \E s \in {"name", "idle"} : stage' = [stage EXCEPT ![t] = s]
           /\ link' \in {link, "closed"} /\ slipped \subseteq slipped'
           /\ \/ wire' = wire
              \/ wire' = wire \o wbuf
              \/ /\ "write" \in slipped'
                 /\ \E q \in Prefixes(wbuf) : wire' = wire \o q
<1>1. CASE Sends /\ stage' = [stage EXCEPT ![t] = "name"]
  BY <1>1 DEF Flush, Sends
<1>2. CASE Throws /\ stage' = [stage EXCEPT ![t] = "idle"]
  <2>1. CASE link \in {"closed", "broken"} /\ link' \in {link, "closed"}
             /\ UNCHANGED <<wire, slipped, faults>>
    BY <1>2, <2>1 DEF Flush
  <2>2. CASE Slips("write") /\ wire' \in IF link = "up"
                                        THEN {wire \o q : q \in Prefixes(wbuf) \ {wbuf}}
                                        ELSE {wire}
    BY <1>2, <2>2 DEF Flush, Slips
  <2> QED
    BY <1>2, <2>1, <2>2 DEF Throws
<1> QED
  BY <1>1, <1>2 DEF Flush

LEMMA NextTypes == Types /\ [Next]_vars => Types'
<1> SUFFICES ASSUME Types, [Next]_vars PROVE Types'
  OBVIOUS
<1>i. /\ wbuf \in Seq(Piece) /\ wire \in Seq(Piece) /\ late \subseteq Request
      /\ executed \in Seq(Request) /\ call \in [Threads -> CallRec]
      /\ <<>> \in Seq(Piece) /\ link \in {"closed", "up", "broken", "silent"}
  BY DEF Types
<1>1. ASSUME NEW t \in Threads, NEW fn \in Fns, Begin(t, fn)
      PROVE  Types'
  <2>1. [by |-> t, n |-> call[t].n + 1, fn |-> fn] \in CallRec
    BY <1>i DEF CallRec
  <2>2. call' \in [Threads -> CallRec] /\ \A u \in Threads : call'[u].by = u
    BY <1>1, <2>1 DEF Begin, Types
  <2>3. stage' \in [Threads -> {"idle", "adding"} \cup Sending \cup Reading]
    BY <1>1 DEF Begin, Types
  <2>4. sentTogether' \in BOOLEAN
    BY <1>1 DEF Begin, Types
  <2> QED
    BY <1>1, <2>2, <2>3, <2>4 DEF Begin, Types
<1>2. ASSUME NEW t \in Threads, Open(t)
      PROVE  Types'
  <2>1. late' \subseteq Request
    BY <1>i, <1>2, ReceivedTyped DEF Open, KeptLate
  <2> QED
    BY <1>i, <1>2, <2>1, StageTyped DEF Open
<1>3. ASSUME NEW t \in Threads, LookFor(t)
      PROVE  Types'
  BY <1>i, <1>3, StageTyped DEF LookFor
<1>4. ASSUME NEW t \in Threads, Write(t)
      PROVE  Types'
  <2> DEFINE p == [call |-> call[t], part |-> stage[t]]
  <2>1. p \in Piece
    BY <1>i, <1>4 DEF Piece, Write
  <2>2. Append(wbuf, p) \in Seq(Piece) /\ Overwritten(p) \in Seq(Piece)
    BY <1>i, <2>1 DEF Overwritten
  <2>3. wbuf' \in {Append(wbuf, p), wbuf, Overwritten(p)}
    BY <1>4 DEF Write, Either
  <2> QED
    BY <1>i, <1>4, <2>2, <2>3, StageTyped DEF Write
<1>5. ASSUME NEW t \in Threads, Flush(t)
      PROVE  Types'
  <2>1. wbuf' \in {<<>>, wbuf} /\ UNCHANGED <<call, sentTogether, executed, late>>
    BY <1>5 DEF Flush, Flushed, Either
  <2>2. \/ wire' = wire
        \/ wire' = wire \o wbuf
        \/ \E q \in Prefixes(wbuf) : wire' = wire \o q
    BY <1>5, FlushFacts
  <2>3. \A q \in Prefixes(wbuf) : q \in Seq(Piece)
    BY <1>i, PrefixElements
  <2>4. \A q \in Seq(Piece) : wire \o q \in Seq(Piece)
    BY <1>i
  <2>5. wire' \in Seq(Piece)
    BY <1>i, <2>2, <2>3, <2>4
  <2>6. PICK s \in {"name", "idle"} : stage' = [stage EXCEPT ![t] = s]
    BY <1>5 DEF Flush
  <2>7. link' \in {link, "closed"}
    BY <1>5, FlushFacts
  <2> QED
    BY <1>i, <2>1, <2>5, <2>6, <2>7, StageTyped
<1>6. ASSUME NEW t \in Threads,
             Receive(t) \/ ReceiveFails(t) \/ ReceiveSlips(t) \/ Add(t)
      PROVE  Types'
  <2>1. PICK s \in {"idle", "adding"} \cup Sending \cup Reading :
           stage' = [stage EXCEPT ![t] = s]
    BY <1>6 DEF Receive, ReceiveFails, ReceiveSlips, Add, NoResult, Result, Types
  <2>2. UNCHANGED <<call, sentTogether, executed, wbuf, wire, late, link>>
    BY <1>6 DEF Receive, ReceiveFails, ReceiveSlips, Slips, Add
  <2> QED
    BY <1>i, <2>1, <2>2, StageTyped
<1>7. ASSUME NEW t \in Threads, Crash(t)
      PROVE  Types'
  BY <1>7 DEF Crash, Types
<1>8. CASE Serve
  <2>1. wire[1] \in Piece /\ wire[2] \in Piece
    BY <1>i, <1>8 DEF Serve, Complete
  <2>2. Parsed \in Request
    BY <2>1 DEF Piece, Parsed, Request, RequestAt
  <2>3. wire' \in Seq(Piece) /\ executed' \in Seq(Request)
    BY <1>i, <1>8, <2>2 DEF Serve, Complete
  <2> QED
    BY <1>8, <2>3 DEF Serve, Types
<1>9. CASE ParseFails
  BY <1>i, <1>9 DEF ParseFails, Hangup, Types
<1>10. ASSUME NEW r \in late, ServeLate(r)
       PROVE  Types'
  <2>1. executed' \in Seq(Request) /\ late' \subseteq Request
    BY <1>i, <1>10 DEF ServeLate
  <2> QED
    BY <1>10, <2>1 DEF ServeLate, Types
<1>11. CASE ConnectionLost
  <2>1. late' \subseteq Request
    BY <1>i, <1>11, ReceivedTyped DEF ConnectionLost, KeptLate
  <2> QED
    BY <1>i, <1>11, <2>1 DEF ConnectionLost, Hangup, Types
<1>12. CASE UNCHANGED vars
  BY <1>12 DEF vars, Types
<1>13. CASE LossReported
  BY <1>13 DEF LossReported, Types
<1> QED
  BY <1>1, <1>2, <1>3, <1>4, <1>5, <1>6, <1>7, <1>8, <1>9, <1>10, <1>11, <1>12,
     <1>13 DEF Next

-----------------------------------------------------------------------------
(* The inductive invariant: as long as no two threads have been sending at *)
(* the same time, the function of a request is in one place only; and the  *)
(* request is whole, unless a write has failed on a living connection.     *)

(* A call whose request has left the write buffer.                         *)
Past(c) ==
    /\ c.n <= call[c.by].n
    /\ stage[c.by] \in Sending => c.n < call[c.by].n

OneSender ==
    \A t, u \in Threads : stage[t] \in Sending /\ stage[u] \in Sending => t = u

PieceOf(c, p) == [call |-> c, part |-> p]

BufferIs ==
    /\ \A t \in Threads :
          /\ stage[t] = "args" => wbuf = <<PieceOf(call[t], "head")>>
          /\ stage[t] = "flush" =>
                wbuf = <<PieceOf(call[t], "head"), PieceOf(call[t], "args")>>
    /\ (\A t \in Threads : stage[t] \notin {"args", "flush"}) => wbuf = <<>>

(* The call's function is not on the connection.                           *)
Unsent(c) == \A k \in 1 .. Len(wire) : wire[k] # PieceOf(c, "head")

WireOnce ==
    \A i \in 1 .. Len(wire) :
       /\ Past(wire[i].call)
       /\ \A j \in 1 .. Len(wire) : wire[i] = wire[j] => i = j

ExecutedOnce ==
    \A i \in 1 .. Len(executed) :
       /\ Past(executed[i].head)
       /\ Unsent(executed[i].head)
       /\ \A r \in late : r.head # executed[i].head
       /\ \A j \in 1 .. Len(executed) : executed[i].head = executed[j].head => i = j

LateOnce ==
    \A r \in late :
       /\ Past(r.head)
       /\ Unsent(r.head)
       /\ \A s \in late : s.head = r.head => s = r

Once == WireOnce /\ ExecutedOnce /\ LateOnce

WirePaired ==
    \A i \in 1 .. Len(wire) :
       /\ wire[i].part = "head" =>
             i < Len(wire) /\ wire[i + 1] = PieceOf(wire[i].call, "args")
       /\ wire[i].part = "args" =>
             i > 1 /\ wire[i - 1] = PieceOf(wire[i].call, "head")

AsMade(r) == r.head = r.args

Whole ==
    /\ WirePaired
    /\ \A i \in 1 .. Len(executed) : AsMade(executed[i])
    /\ \A r \in late : AsMade(r)

StreamIs == Once /\ ("write" \notin slipped => Whole)

Apart == OneSender /\ (~crashed => BufferIs) /\ StreamIs

IInv == Types /\ (~sentTogether => Apart)

-----------------------------------------------------------------------------
(* Steps of the stream.                                                    *)

PastKept == \A c \in CallRec : Past(c) => Past(c)'

(* Calls stay past when no thread begins to send.                          *)
LEMMA PastStays ==
    ASSUME Types, call' = call,
           \A t \in Threads : stage'[t] \in Sending => stage[t] \in Sending
    PROVE  PastKept
<1> SUFFICES ASSUME NEW c \in CallRec, Past(c) PROVE Past(c)'
  BY DEF PastKept
<1>1. c.by \in Threads
  BY DEF CallRec
<1> QED
  BY <1>1 DEF Past

LEMMA CallsTyped ==
    ASSUME Types
    PROVE  /\ \A i \in 1 .. Len(wire) : wire[i] \in Piece /\ wire[i].call \in CallRec
           /\ \A i \in 1 .. Len(executed) :
                 executed[i] \in Request /\ executed[i].head \in CallRec
           /\ \A r \in late : r.head \in CallRec /\ r.args \in CallRec
<1>1. \A i \in 1 .. Len(wire) : wire[i] \in Piece
  BY DEF Types
<1>2. \A i \in 1 .. Len(executed) : executed[i] \in Request
  BY DEF Types
<1>3. \A r \in late : r \in Request
  BY DEF Types
<1>4. \A p \in Piece : p.call \in CallRec
  BY DEF Piece
<1>5. \A r \in Request : r.head \in CallRec /\ r.args \in CallRec
  BY DEF Request
<1> QED
  BY <1>1, <1>2, <1>3, <1>4, <1>5

(* Nothing is sent or executed; the connection may be gone.                *)
LEMMA StreamKept ==
    ASSUME Types, StreamIs, PastKept, executed' = executed, late' = late,
           wire' \in {wire, <<>>}, slipped \subseteq slipped'
    PROVE  StreamIs'
<1>1. WireOnce'
  BY CallsTyped DEF StreamIs, Once, WireOnce, PastKept
<1>2. \A c \in CallRec : Unsent(c) => Unsent(c)'
  BY DEF Unsent
<1>3. ExecutedOnce'
  BY <1>2, CallsTyped DEF StreamIs, Once, ExecutedOnce, PastKept
<1>4. LateOnce'
  BY <1>2, CallsTyped DEF StreamIs, Once, LateOnce, PastKept
<1>5. "write" \notin slipped' => Whole'
  BY DEF StreamIs, Whole, WirePaired, AsMade
<1> QED
  BY <1>1, <1>3, <1>4, <1>5 DEF StreamIs, Once

(* A request which the server has received.                                *)
LEMMA ReceivedIs ==
    ASSUME Types, StreamIs, NEW i \in 1 .. Len(wire) - 1, wire[i].part = "head"
    PROVE  /\ i \in 1 .. Len(wire) /\ RequestAt(i).head = wire[i].call
           /\ wire[i] = PieceOf(wire[i].call, "head")
           /\ Past(wire[i].call) /\ wire[i].call \in CallRec
           /\ \A k \in 1 .. Len(executed) : executed[k].head # wire[i].call
           /\ \A r \in late : r.head # wire[i].call
           /\ "write" \notin slipped => AsMade(RequestAt(i))
<1>1. Len(wire) \in Nat /\ i \in 1 .. Len(wire)
  BY DEF Types
<1>2. wire[i].call \in CallRec /\ wire[i] \in Piece
  BY <1>1, CallsTyped
<1>3. wire[i] = PieceOf(wire[i].call, "head")
  BY <1>2 DEF Piece, PieceOf
<1>4. RequestAt(i).head = wire[i].call /\ RequestAt(i).args = wire[i + 1].call
  BY DEF RequestAt
<1>5. Past(wire[i].call)
  BY <1>1 DEF StreamIs, Once, WireOnce
<1>6. \A k \in 1 .. Len(executed) : executed[k].head # wire[i].call
  BY <1>1, <1>3 DEF StreamIs, Once, ExecutedOnce, Unsent
<1>7. \A r \in late : r.head # wire[i].call
  BY <1>1, <1>3 DEF StreamIs, Once, LateOnce, Unsent
<1>8. ASSUME "write" \notin slipped
      PROVE  AsMade(RequestAt(i))
  <2>1. wire[i + 1] = PieceOf(wire[i].call, "args")
    BY <1>1, <1>8 DEF StreamIs, Whole, WirePaired
  <2>2. wire[i + 1].call = wire[i].call
    BY <2>1 DEF PieceOf
  <2> QED
    BY <1>4, <2>2 DEF AsMade
<1> QED
  BY <1>1, <1>2, <1>3, <1>4, <1>5, <1>6, <1>7, <1>8

(* The connection is gone; requests received may still be executed.        *)
LEMMA StreamLost ==
    ASSUME Types, StreamIs, PastKept, executed' = executed, KeptLate, wire' = <<>>,
           slipped \subseteq slipped'
    PROVE  StreamIs'
<1>1. \A r \in Received : \E i \in 1 .. Len(wire) - 1 :
         r = RequestAt(i) /\ wire[i].part = "head"
  BY DEF Received
<1>2. \A r \in Received : /\ Past(r.head) /\ r.head \in CallRec
                          /\ \A k \in 1 .. Len(executed) : executed[k].head # r.head
                          /\ \A s \in late : s.head # r.head
                          /\ "write" \notin slipped => AsMade(r)
  BY <1>1, ReceivedIs
<1>3. \A r, s \in Received : r.head = s.head => r = s
  <2> SUFFICES ASSUME NEW r \in Received, NEW s \in Received, r.head = s.head
               PROVE  r = s
    OBVIOUS
  <2>1. PICK i \in 1 .. Len(wire) - 1 : r = RequestAt(i) /\ wire[i].part = "head"
    BY <1>1
  <2>2. PICK j \in 1 .. Len(wire) - 1 : s = RequestAt(j) /\ wire[j].part = "head"
    BY <1>1
  <2>3. wire[i] = wire[j] /\ i \in 1 .. Len(wire) /\ j \in 1 .. Len(wire)
    BY <2>1, <2>2, ReceivedIs
  <2> QED
    BY <2>1, <2>2, <2>3 DEF StreamIs, Once, WireOnce
<1>4. PICK q \in SUBSET Received : late' = late \cup q
  BY DEF KeptLate
<1>5. WireOnce' /\ WirePaired' /\ \A c \in CallRec : Unsent(c)'
  BY DEF WireOnce, WirePaired, Unsent
<1>6. ExecutedOnce'
  BY <1>2, <1>4, <1>5, CallsTyped DEF StreamIs, Once, ExecutedOnce, PastKept
<1>7. LateOnce'
  <2> SUFFICES ASSUME NEW r \in late'
               PROVE  /\ Past(r.head)'
                      /\ Unsent(r.head)'
                      /\ \A s \in late' : s.head = r.head => s = r
    BY DEF LateOnce
  <2>1. CASE r \in late
    BY <1>2, <1>4, <1>5, <2>1, CallsTyped DEF StreamIs, Once, LateOnce, PastKept
  <2>2. CASE r \in q
    BY <1>2, <1>3, <1>4, <1>5, <2>2, CallsTyped DEF StreamIs, Once, LateOnce, PastKept
  <2> QED
    BY <1>4, <2>1, <2>2
<1>8. ASSUME "write" \notin slipped'
      PROVE  Whole'
  <2>1. \A r \in late' : r \in late \/ r \in Received
    BY <1>4
  <2>2. \A r \in late' : AsMade(r)
    BY <1>2, <1>8, <2>1 DEF StreamIs, Whole
  <2> QED
    BY <1>5, <1>8, <2>2 DEF StreamIs, Whole, AsMade
<1> QED
  BY <1>5, <1>6, <1>7, <1>8 DEF StreamIs, Once

(* The request of a call which is not past yet is sent, or, when the write *)
(* fails, its function alone.                                              *)
LEMMA StreamSent ==
    ASSUME Types, StreamIs, PastKept, executed' = executed, late' = late,
           slipped \subseteq slipped',
           NEW c \in CallRec, ~Past(c), Past(c)',
           NEW q, \/ q = <<PieceOf(c, "head"), PieceOf(c, "args")>>
                  \/ q = <<PieceOf(c, "head")>> /\ "write" \in slipped',
           wire' = wire \o q
    PROVE  StreamIs'
<1> DEFINE n == Len(wire)
           m == Len(q)
<1>1. /\ n \in Nat /\ m \in {1, 2} /\ Len(wire') = n + m
      /\ \A i \in 1 .. n : wire'[i] = wire[i]
      /\ m = 2 => wire'[n + 2] = PieceOf(c, "args")
      /\ m = 1 => "write" \in slipped'
  <2>1. wire \in Seq(Piece) /\ PieceOf(c, "head") \in Piece /\ PieceOf(c, "args") \in Piece
    BY DEF Types, Piece, PieceOf
  <2>2. CASE q = <<PieceOf(c, "head"), PieceOf(c, "args")>>
    BY <2>1, <2>2
  <2>3. CASE q = <<PieceOf(c, "head")>> /\ "write" \in slipped'
    BY <2>1, <2>3
  <2> QED
    BY <2>2, <2>3
<1>h. wire'[n + 1] = PieceOf(c, "head")
  <2>1. wire \in Seq(Piece) /\ PieceOf(c, "head") \in Piece /\ PieceOf(c, "args") \in Piece
    BY DEF Types, Piece, PieceOf
  <2>2. CASE q = <<PieceOf(c, "head"), PieceOf(c, "args")>>
    BY <2>1, <2>2
  <2>3. CASE q = <<PieceOf(c, "head")>>
    BY <2>1, <2>3
  <2> QED
    BY <2>2, <2>3
<1>2. \A i \in 1 .. n : wire[i].call # c
  BY DEF StreamIs, Once, WireOnce
<1>3. /\ PieceOf(c, "head").call = c /\ PieceOf(c, "args").call = c
      /\ PieceOf(c, "head").part = "head" /\ PieceOf(c, "args").part = "args"
  BY DEF PieceOf
<1>4. \A i \in 1 .. Len(wire') : i \in 1 .. n \/ i = n + 1 \/ (m = 2 /\ i = n + 2)
  <2>1. \A x \in Nat, y \in {1, 2} : \A i \in 1 .. x + y :
           i \in 1 .. x \/ i = x + 1 \/ (y = 2 /\ i = x + 2)
    OBVIOUS
  <2> QED
    BY <1>1, <2>1
<1>5. \A i \in 1 .. Len(wire') :
         \/ wire'[i].call = c
         \/ i \in 1 .. n /\ wire'[i] = wire[i]
  <2> TAKE i \in 1 .. Len(wire')
  <2>1. CASE i \in 1 .. n
    BY <1>1, <2>1
  <2>2. CASE i = n + 1
    BY <1>h, <1>3, <2>2
  <2>3. CASE m = 2 /\ i = n + 2
    BY <1>1, <1>3, <2>3
  <2> QED
    BY <1>4, <2>1, <2>2, <2>3
<1>6. WireOnce'
  <2> SUFFICES ASSUME NEW i \in 1 .. Len(wire')
               PROVE  /\ Past(wire[i].call)'
                      /\ \A j \in 1 .. Len(wire') : wire'[i] = wire'[j] => i = j
    BY DEF WireOnce
  <2>1. CASE i \in 1 .. n
    <3>1. wire'[i] = wire[i] /\ wire[i].call \in CallRec
      BY <1>1, <2>1, CallsTyped
    <3>2. Past(wire[i].call)'
      BY <2>1, <3>1 DEF StreamIs, Once, WireOnce, PastKept
    <3>3. \A j \in 1 .. Len(wire') : wire'[i] = wire'[j] => i = j
      BY <1>2, <1>5, <2>1, <3>1 DEF StreamIs, Once, WireOnce
    <3> QED
      BY <3>2, <3>3
  <2>2. CASE i = n + 1
    <3>1. \A j \in 1 .. Len(wire') : wire'[i] = wire'[j] => i = j
      BY <1>1, <1>h, <1>2, <1>3, <1>4, <2>2
    <3> QED
      BY <1>h, <1>3, <2>2, <3>1
  <2>3. CASE i = n + 2 /\ m = 2
    <3>1. \A j \in 1 .. Len(wire') : wire'[i] = wire'[j] => i = j
      BY <1>1, <1>h, <1>2, <1>3, <1>4, <2>3
    <3> QED
      BY <1>1, <1>3, <2>3, <3>1
  <2> QED
    BY <1>4, <2>1, <2>2, <2>3
<1>7. \A d \in CallRec : d # c /\ Unsent(d) => Unsent(d)'
  <2> SUFFICES ASSUME NEW d \in CallRec, d # c, Unsent(d), NEW k \in 1 .. Len(wire')
               PROVE  wire'[k] # PieceOf(d, "head")
    BY DEF Unsent
  <2>1. PieceOf(d, "head").call = d
    BY DEF PieceOf
  <2> QED
    BY <1>5, <2>1 DEF Unsent
<1>8. ExecutedOnce'
  <2>1. \A i \in 1 .. Len(executed) : executed[i].head # c
    BY DEF StreamIs, Once, ExecutedOnce
  <2> QED
    BY <1>7, <2>1, CallsTyped DEF StreamIs, Once, ExecutedOnce, PastKept
<1>9. LateOnce'
  <2>1. \A r \in late : r.head # c
    BY DEF StreamIs, Once, LateOnce
  <2> QED
    BY <1>7, <2>1, CallsTyped DEF StreamIs, Once, LateOnce, PastKept
<1>10. ASSUME "write" \notin slipped'
       PROVE  Whole'
  <2>1. m = 2 /\ Whole /\ Len(wire') = n + 2 /\ wire'[n + 2] = PieceOf(c, "args")
    BY <1>1, <1>10 DEF StreamIs
  <2>2. ASSUME NEW i \in 1 .. Len(wire')
        PROVE  /\ wire'[i].part = "head" =>
                     i < Len(wire') /\ wire'[i + 1] = PieceOf(wire'[i].call, "args")
               /\ wire'[i].part = "args" =>
                     i > 1 /\ wire'[i - 1] = PieceOf(wire'[i].call, "head")
    <3>1. CASE i \in 1 .. n
      <4>1. wire'[i] = wire[i]
        BY <1>1, <3>1
      <4>2. wire'[i].part = "head" =>
              i < Len(wire') /\ wire'[i + 1] = PieceOf(wire'[i].call, "args")
        BY <1>1, <2>1, <3>1, <4>1 DEF Whole, WirePaired
      <4>3. wire'[i].part = "args" =>
              i > 1 /\ wire'[i - 1] = PieceOf(wire'[i].call, "head")
        BY <1>1, <2>1, <3>1, <4>1 DEF Whole, WirePaired
      <4> QED
        BY <4>2, <4>3
    <3>2. CASE i = n + 1
      BY <1>1, <1>h, <1>3, <2>1, <3>2
    <3>3. CASE i = n + 2
      <4>1. i > 1 /\ i - 1 = n + 1
        BY <1>1, <3>3
      <4> QED
        BY <1>h, <1>3, <2>1, <3>3, <4>1
    <3> QED
      BY <1>4, <3>1, <3>2, <3>3
  <2>3. WirePaired'
    BY <2>2 DEF WirePaired
  <2> QED
    BY <2>1, <2>3 DEF Whole, AsMade
<1> QED
  BY <1>6, <1>8, <1>9, <1>10 DEF StreamIs, Once

(* The server executes the first request of the connection.                *)
LEMMA StreamServed ==
    ASSUME Types, StreamIs, PastKept, Serve
    PROVE  StreamIs'
<1> DEFINE n == Len(wire)
           m == Len(executed)
           c == wire[1].call
<1>1. /\ n \in Nat /\ n >= 2 /\ Len(wire') = n - 2
      /\ \A i \in 1 .. n - 2 : wire'[i] = wire[i + 2]
  <2>1. wire \in Seq(Piece) /\ n >= 2 /\ wire' = SubSeq(wire, 3, n)
    BY DEF Types, Serve, Complete
  <2>2. n \in Nat /\ \A i \in 3 .. n : wire[i] \in Piece
    BY <2>1
  <2>3. /\ Len(SubSeq(wire, 3, n)) = IF 3 <= n THEN n - 3 + 1 ELSE 0
        /\ \A i \in 1 .. n - 3 + 1 : SubSeq(wire, 3, n)[i] = wire[3 + i - 1]
    BY <2>2, SubSeqProperties
  <2>4. \A i \in 1 .. n - 2 : i \in 1 .. n - 3 + 1 /\ 3 + i - 1 = i + 2
    BY <2>2
  <2>5. Len(wire') = n - 2
    <3>1. (IF 3 <= n THEN n - 3 + 1 ELSE 0) = n - 2
      <4>1. \A k \in Nat : k >= 2 => (IF 3 <= k THEN k - 3 + 1 ELSE 0) = k - 2
        OBVIOUS
      <4> QED
        BY <2>1, <2>2, <4>1
    <3>2. Len(wire') = Len(SubSeq(wire, 3, n))
      BY <2>1, Zenon
    <3> QED
      BY <2>3, <3>1, <3>2, Zenon
  <2>6. \A i \in 1 .. n - 2 : wire'[i] = wire[i + 2]
    BY <2>1, <2>3, <2>4
  <2> QED
    BY <2>1, <2>2, <2>5, <2>6
<1>2. /\ 1 \in 1 .. n /\ 1 \in 1 .. n - 1 /\ wire[1].part = "head"
  BY <1>1 DEF Serve, Complete
<1>3. /\ Parsed.head = c /\ wire[1] = PieceOf(c, "head")
      /\ Past(c) /\ c \in CallRec
      /\ \A k \in 1 .. m : executed[k].head # c
      /\ \A r \in late : r.head # c
      /\ "write" \notin slipped => AsMade(Parsed)
  BY <1>2, ReceivedIs DEF Parsed
<1>4. /\ m \in Nat /\ Len(executed') = m + 1
      /\ \A i \in 1 .. m : executed'[i] = executed[i]
      /\ executed'[m + 1] = Parsed
      /\ UNCHANGED <<late, slipped>>
  BY DEF Types, Serve
<1>5. \A i \in 1 .. Len(wire') : i + 2 \in 1 .. n /\ i + 2 # 1 /\ wire'[i] = wire[i + 2]
  BY <1>1
<1>6. \A i \in 1 .. Len(wire') : wire'[i] # PieceOf(c, "head")
  BY <1>2, <1>3, <1>5 DEF StreamIs, Once, WireOnce
<1>7. \A d \in CallRec : Unsent(d) => Unsent(d)'
  BY <1>5 DEF Unsent
<1>8. WireOnce'
  <2> SUFFICES ASSUME NEW i \in 1 .. Len(wire')
               PROVE  /\ Past(wire[i].call)'
                      /\ \A j \in 1 .. Len(wire') : wire'[i] = wire'[j] => i = j
    BY DEF WireOnce
  <2>1. i \in Nat /\ i + 2 \in 1 .. n /\ wire'[i] = wire[i + 2] /\ wire[i + 2].call \in CallRec
    BY <1>1, <1>5, CallsTyped
  <2>2. Past(wire[i].call)'
    BY <2>1 DEF StreamIs, Once, WireOnce, PastKept
  <2>3. ASSUME NEW j \in 1 .. Len(wire'), wire'[i] = wire'[j]
        PROVE  i = j
    <3>1. wire[i + 2] = wire[j + 2] /\ j \in Nat /\ j + 2 \in 1 .. n
      BY <1>1, <1>5, <2>1, <2>3
    <3>2. i + 2 = j + 2
      BY <2>1, <3>1 DEF StreamIs, Once, WireOnce
    <3> QED
      BY <2>1, <3>1, <3>2
  <2> QED
    BY <2>2, <2>3
<1>9. ExecutedOnce'
  <2>1. \A i \in 1 .. Len(executed') : i \in 1 .. m \/ i = m + 1
    BY <1>4
  <2>2. ASSUME NEW i \in 1 .. Len(executed')
        PROVE  /\ Past(executed[i].head)'
               /\ Unsent(executed[i].head)'
               /\ \A r \in late' : r.head # executed'[i].head
               /\ \A j \in 1 .. Len(executed') : executed'[i].head = executed'[j].head => i = j
    <3>1. CASE i \in 1 .. m
      <4>1. executed'[i] = executed[i] /\ executed[i].head \in CallRec
        BY <1>4, <3>1, CallsTyped
      <4>2. \A j \in 1 .. Len(executed') : executed'[i].head = executed'[j].head => i = j
        BY <1>3, <1>4, <2>1, <3>1, <4>1 DEF StreamIs, Once, ExecutedOnce
      <4>3. Past(executed[i].head)' /\ Unsent(executed[i].head)'
        BY <1>7, <3>1, <4>1 DEF StreamIs, Once, ExecutedOnce, PastKept
      <4>4. \A r \in late' : r.head # executed'[i].head
        BY <1>4, <3>1, <4>1 DEF StreamIs, Once, ExecutedOnce
      <4> QED
        BY <4>2, <4>3, <4>4
    <3>2. CASE i = m + 1
      <4>1. executed'[i].head = c
        BY <1>3, <1>4, <3>2
      <4>2. \A j \in 1 .. Len(executed') : executed'[i].head = executed'[j].head => i = j
        BY <1>3, <1>4, <2>1, <3>2, <4>1
      <4>3. Past(executed[i].head)'
        BY <1>3, <4>1 DEF PastKept
      <4>4. Unsent(executed[i].head)'
        BY <1>6, <4>1 DEF Unsent
      <4> QED
        BY <1>3, <1>4, <4>1, <4>2, <4>3, <4>4
    <3> QED
      BY <2>1, <3>1, <3>2
  <2> QED
    BY <2>2 DEF ExecutedOnce
<1>10. LateOnce'
  BY <1>4, <1>7, CallsTyped DEF StreamIs, Once, LateOnce, PastKept
<1>11. ASSUME "write" \notin slipped'
       PROVE  Whole'
  <2>1. Whole /\ AsMade(Parsed)
    BY <1>3, <1>4, <1>11 DEF StreamIs
  <2>2. WirePaired'
    <3>1. wire[2] = PieceOf(c, "args")
      BY <1>2, <2>1 DEF Whole, WirePaired
    <3> SUFFICES ASSUME NEW i \in 1 .. Len(wire')
                 PROVE  /\ wire'[i].part = "head" =>
                              i < Len(wire') /\ wire'[i + 1] = PieceOf(wire'[i].call, "args")
                        /\ wire'[i].part = "args" =>
                              i > 1 /\ wire'[i - 1] = PieceOf(wire'[i].call, "head")
      BY DEF WirePaired
    <3>2. i \in Nat /\ i >= 1 /\ i <= n - 2 /\ wire'[i] = wire[i + 2] /\ i + 2 \in 1 .. n
      BY <1>1, <1>5
    <3>3. ASSUME wire'[i].part = "head"
          PROVE  i < Len(wire') /\ wire'[i + 1] = PieceOf(wire'[i].call, "args")
      <4>1. i + 2 < n /\ wire[(i + 2) + 1] = PieceOf(wire[i + 2].call, "args")
        BY <2>1, <3>2, <3>3 DEF Whole, WirePaired
      <4>2. i + 1 \in 1 .. n - 2 /\ (i + 2) + 1 = (i + 1) + 2
        BY <1>1, <3>2, <4>1
      <4> QED
        BY <1>1, <3>2, <4>1, <4>2
    <3>4. ASSUME wire'[i].part = "args"
          PROVE  i > 1 /\ wire'[i - 1] = PieceOf(wire'[i].call, "head")
      <4>1. wire[(i + 2) - 1] = PieceOf(wire[i + 2].call, "head")
        BY <2>1, <3>2, <3>4 DEF Whole, WirePaired
      <4>2. (i + 2) - 1 = i + 1
        BY <3>2
      <4>3. i # 1
        BY <3>1, <4>1, <4>2 DEF PieceOf
      <4>4. i - 1 \in 1 .. n - 2 /\ (i - 1) + 2 = i + 1
        BY <1>1, <3>2, <4>3
      <4> QED
        BY <1>1, <3>2, <4>1, <4>2, <4>3, <4>4
    <3> QED
      BY <3>3, <3>4
  <2>3. \A i \in 1 .. Len(executed') : AsMade(executed'[i])
    <3>1. \A i \in 1 .. Len(executed') : i \in 1 .. m \/ i = m + 1
      BY <1>4
    <3> QED
      BY <1>4, <2>1, <3>1 DEF Whole
  <2> QED
    BY <1>4, <2>1, <2>2, <2>3 DEF Whole, AsMade
<1> QED
  BY <1>8, <1>9, <1>10, <1>11 DEF StreamIs, Once

(* A request of a lost connection is executed.                             *)
LEMMA StreamServedLate ==
    ASSUME Types, StreamIs, PastKept, NEW r \in late, ServeLate(r)
    PROVE  StreamIs'
<1> DEFINE m == Len(executed)
<1>1. /\ m \in Nat /\ Len(executed') = m + 1
      /\ \A i \in 1 .. m : executed'[i] = executed[i]
      /\ executed'[m + 1] = r
  <2>1. executed \in Seq(Request) /\ r \in Request /\ executed' = Append(executed, r)
    BY DEF Types, ServeLate
  <2> QED
    BY <2>1
<1>2. UNCHANGED <<wire, slipped>> /\ late' = late \ {r}
  BY DEF ServeLate
<1>3. /\ Past(r.head)' /\ Unsent(r.head)' /\ \A s \in late' : s.head # r.head
      /\ \A i \in 1 .. m : executed[i].head # r.head
  BY <1>2, CallsTyped DEF StreamIs, Once, LateOnce, ExecutedOnce, PastKept, Unsent
<1>4. WireOnce'
  BY <1>2, CallsTyped DEF StreamIs, Once, WireOnce, PastKept
<1>5. \A d \in CallRec : Unsent(d) => Unsent(d)'
  BY <1>2 DEF Unsent
<1>6. LateOnce'
  BY <1>2, <1>5, CallsTyped DEF StreamIs, Once, LateOnce, PastKept
<1>7. \A i \in 1 .. Len(executed') : i \in 1 .. m \/ i = m + 1
  BY <1>1
<1>8. ExecutedOnce'
  <2>1. ASSUME NEW i \in 1 .. Len(executed')
        PROVE  /\ Past(executed[i].head)'
               /\ Unsent(executed[i].head)'
               /\ \A s \in late' : s.head # executed'[i].head
               /\ \A j \in 1 .. Len(executed') : executed'[i].head = executed'[j].head => i = j
    <3>1. CASE i \in 1 .. m
      <4>1. executed'[i] = executed[i] /\ executed[i].head \in CallRec
        BY <1>1, <3>1, CallsTyped
      <4>2. \A j \in 1 .. Len(executed') : executed'[i].head = executed'[j].head => i = j
        BY <1>1, <1>3, <1>7, <3>1, <4>1 DEF StreamIs, Once, ExecutedOnce
      <4>3. Past(executed[i].head)' /\ Unsent(executed[i].head)'
        BY <1>5, <3>1, <4>1 DEF StreamIs, Once, ExecutedOnce, PastKept
      <4>4. \A s \in late' : s.head # executed'[i].head
        BY <1>2, <3>1, <4>1 DEF StreamIs, Once, ExecutedOnce
      <4> QED
        BY <4>2, <4>3, <4>4
    <3>2. CASE i = m + 1
      <4>1. executed'[i] = r
        BY <1>1, <3>2
      <4>2. \A j \in 1 .. Len(executed') : executed'[i].head = executed'[j].head => i = j
        BY <1>1, <1>3, <1>7, <3>2, <4>1
      <4> QED
        BY <1>3, <4>1, <4>2
    <3> QED
      BY <1>7, <3>1, <3>2
  <2> QED
    BY <2>1 DEF ExecutedOnce
<1>9. "write" \notin slipped' => Whole'
  BY <1>1, <1>2, <1>7 DEF StreamIs, Whole, WirePaired, AsMade
<1> QED
  BY <1>4, <1>6, <1>8, <1>9 DEF StreamIs, Once

-----------------------------------------------------------------------------
(* Every step keeps the threads and the buffer apart.                      *)

LEMMA InitApart == Init => Apart
<1> SUFFICES ASSUME Init PROVE Apart
  OBVIOUS
<1>1. \A t \in Threads : stage[t] = "idle"
  BY DEF Init
<1>2. Len(wire) = 0 /\ Len(executed) = 0 /\ late = {} /\ wbuf = <<>>
  BY DEF Init
<1>3. StreamIs
  BY <1>2 DEF StreamIs, Once, WireOnce, ExecutedOnce, LateOnce, Whole, WirePaired
<1> QED
  BY <1>1, <1>2, <1>3 DEF Apart, OneSender, BufferIs

(* Senders which are one stay one when none begins to send.                *)
LEMMA OneSenderStays ==
    ASSUME OneSender, \A t \in Threads : stage'[t] \in Sending => stage[t] \in Sending
    PROVE  OneSender'
BY DEF OneSender

(* A step of a thread which neither writes nor flushes.                    *)
LEMMA BufferStays ==
    ASSUME Types, Apart, ~crashed, wbuf' = wbuf, call' = call,
           NEW t \in Threads, stage[t] \notin {"args", "flush"},
           NEW s, s \notin {"args", "flush"}, stage' = [stage EXCEPT ![t] = s]
    PROVE  BufferIs'
<1>1. BufferIs
  BY DEF Apart
<1>2. \A u \in Threads : stage'[u] = IF u = t THEN s ELSE stage[u]
  BY DEF Types
<1> QED
  BY <1>1, <1>2 DEF BufferIs

LEMMA BeginApart ==
    ASSUME Types, Apart, ~crashed, NEW t \in Threads, NEW fn \in Fns, Begin(t, fn),
           ~sentTogether'
    PROVE  Apart'
<1>1. ~sentTogether /\ \A u \in Threads \ {t} : stage[u] \notin Sending
  BY DEF Begin, Racing
<1>2. /\ \A u \in Threads \ {t} : stage'[u] = stage[u] /\ call'[u] = call[u]
      /\ stage[t] = "idle" /\ stage'[t] \in {"opening", "looking"}
      /\ call[t].n \in Nat /\ call'[t].n = call[t].n + 1
  BY DEF Begin, Types, CallRec
<1>3. PastKept
  <2> SUFFICES ASSUME NEW c \in CallRec, Past(c) PROVE Past(c)'
    BY DEF PastKept
  <2>1. c.by \in Threads /\ c.n \in Nat
    BY DEF CallRec
  <2>2. CASE c.by = t
    BY <1>2, <2>1, <2>2 DEF Past
  <2>3. CASE c.by # t
    BY <1>2, <2>1, <2>3 DEF Past
  <2> QED
    BY <2>2, <2>3
<1>4. OneSender'
  BY <1>1, <1>2 DEF OneSender
<1>5. BufferIs'
  <2>1. wbuf' = wbuf /\ wbuf = <<>>
    BY <1>1, <1>2 DEF Apart, BufferIs, Begin
  <2> QED
    BY <1>1, <1>2, <2>1 DEF BufferIs
<1>6. StreamIs'
  BY <1>3, StreamKept DEF Begin, Apart
<1> QED
  BY <1>4, <1>5, <1>6 DEF Apart

LEMMA WriteApart ==
    ASSUME Types, Apart, ~crashed, NEW t \in Threads, Write(t)
    PROVE  Apart'
<1>1. /\ stage[t] \in {"head", "args"}
      /\ \A u \in Threads \ {t} : stage[u] \notin Sending
  BY DEF Write, Apart, OneSender
<1>2. wbuf' = Append(wbuf, PieceOf(call[t], stage[t]))
  BY <1>1 DEF Write, Either, Racing, PieceOf
<1>3. \A u \in Threads : stage'[u] =
         IF u = t THEN IF stage[t] = "head" THEN "args" ELSE "flush" ELSE stage[u]
  BY DEF Write, Types
<1>4. UNCHANGED <<call, wire, late, executed, slipped>>
  BY DEF Write
<1>5. OneSender'
  BY <1>1, <1>3, OneSenderStays DEF Apart
<1>6. BufferIs'
  <2>1. CASE stage[t] = "head"
    <3>1. wbuf = <<>>
      BY <1>1, <2>1 DEF Apart, BufferIs
    <3>2. wbuf' = <<PieceOf(call[t], "head")>>
      BY <1>2, <2>1, <3>1
    <3> QED
      BY <1>1, <1>3, <1>4, <2>1, <3>2 DEF BufferIs
  <2>2. CASE stage[t] = "args"
    <3>1. wbuf = <<PieceOf(call[t], "head")>>
      BY <2>2 DEF Apart, BufferIs
    <3>2. wbuf' = <<PieceOf(call[t], "head"), PieceOf(call[t], "args")>>
      <4>1. ASSUME NEW p \in Piece, NEW q \in Piece
            PROVE  Append(<<p>>, q) = <<p, q>>
        <5>1. <<p>> \in Seq(Piece) /\ Len(<<p>>) = 1 /\ <<p>>[1] = p
          OBVIOUS
        <5>2. /\ Append(<<p>>, q) \in Seq(Piece) /\ Len(Append(<<p>>, q)) = 2
              /\ Append(<<p>>, q)[1] = p /\ Append(<<p>>, q)[2] = q
          BY <5>1, AppendProperties
        <5>3. <<p, q>> \in Seq(Piece) /\ Len(<<p, q>>) = 2 /\ <<p, q>>[1] = p /\ <<p, q>>[2] = q
          OBVIOUS
        <5>4. \A i \in 1 .. 2 : i = 1 \/ i = 2
          OBVIOUS
        <5>5. \A i \in 1 .. Len(Append(<<p>>, q)) : Append(<<p>>, q)[i] = <<p, q>>[i]
          BY <5>2, <5>3, <5>4, Zenon
        <5> QED
          BY <5>2, <5>3, <5>5, SeqEqual, Zenon
      <4>2. PieceOf(call[t], "head") \in Piece /\ PieceOf(call[t], "args") \in Piece
        BY DEF Types, Piece, PieceOf
      <4> QED
        BY <1>2, <2>2, <3>1, <4>1, <4>2, Zenon
    <3> QED
      BY <1>1, <1>3, <1>4, <2>2, <3>2 DEF BufferIs
  <2> QED
    BY <1>1, <2>1, <2>2
<1>7. PastKept
  BY <1>1, <1>3, <1>4, PastStays
<1>8. StreamIs'
  BY <1>4, <1>7, StreamKept DEF Apart
<1> QED
  BY <1>5, <1>6, <1>8 DEF Apart

LEMMA FlushApart ==
    ASSUME Types, Apart, ~crashed, NEW t \in Threads, Flush(t)
    PROVE  Apart'
<1>1. /\ stage[t] = "flush"
      /\ \A u \in Threads \ {t} : stage[u] \notin Sending
      /\ wbuf = <<PieceOf(call[t], "head"), PieceOf(call[t], "args")>>
  BY DEF Flush, Apart, OneSender, BufferIs
<1>2. wbuf' = <<>>
  BY <1>1 DEF Flush, Flushed, Either, Racing
<1>3. /\ \A u \in Threads \ {t} : stage'[u] = stage[u]
      /\ stage'[t] \in {"name", "idle"}
      /\ UNCHANGED <<call, late, executed>> /\ slipped \subseteq slipped'
  BY FlushFacts DEF Types
<1>4. \A u \in Threads : stage'[u] \in Sending => stage[u] \in Sending
  BY <1>3
<1>5. OneSender'
  BY <1>4, OneSenderStays DEF Apart
<1>6. BufferIs'
  BY <1>1, <1>2, <1>3 DEF BufferIs
<1>7. PastKept
  BY <1>3, <1>4, PastStays
<1>8. PICK c \in CallRec : c = call[t] /\ ~Past(c) /\ Past(c)'
  <2>1. call[t] \in CallRec /\ call[t].by = t /\ call[t].n \in Nat
    BY DEF Types, CallRec
  <2>2. ~Past(call[t])
    BY <1>1, <2>1 DEF Past
  <2>3. PICK c \in CallRec : c = call[t]
    BY <2>1
  <2>4. Past(c)'
    BY <1>3, <2>1, <2>3 DEF Past
  <2> QED
    BY <2>2, <2>3, <2>4
<1>9. wbuf = <<PieceOf(c, "head"), PieceOf(c, "args")>>
  BY <1>1, <1>8
<1>10. StreamIs'
  <2>1. CASE wire' = wire
    BY <1>3, <1>7, <2>1, StreamKept DEF Apart
  <2>2. CASE wire' = wire \o wbuf
    BY <1>3, <1>7, <1>8, <1>9, <2>2, StreamSent DEF Apart
  <2>3. ASSUME "write" \in slipped', NEW q \in Prefixes(wbuf), wire' = wire \o q
        PROVE  StreamIs'
    <3>1. q \in Seq(Piece) /\ Len(q) \in 0 .. 2 /\ \A i \in 1 .. Len(q) : q[i] = wbuf[i]
      <4>1. wbuf \in Seq(Piece) /\ Len(wbuf) = 2
        BY <1>9 DEF Types
      <4> QED
        BY <4>1, PrefixElements
    <3>2. CASE Len(q) = 0
      <4>1. wire' = wire
        BY <2>3, <3>1, <3>2 DEF Types
      <4> QED
        BY <2>1, <4>1
    <3>3. CASE Len(q) = 1
      <4>1. q = <<PieceOf(c, "head")>>
        BY <1>9, <3>1, <3>3
      <4> QED
        BY <1>3, <1>7, <1>8, <2>3, <4>1, StreamSent DEF Apart
    <3>4. CASE Len(q) = 2
      <4>1. q = <<PieceOf(c, "head"), PieceOf(c, "args")>>
        BY <1>9, <3>1, <3>4
      <4> QED
        BY <1>3, <1>7, <1>8, <2>3, <4>1, StreamSent DEF Apart
    <3> QED
      BY <3>1, <3>2, <3>3, <3>4
  <2> QED
    BY <2>1, <2>2, <2>3, FlushFacts
<1> QED
  BY <1>5, <1>6, <1>10 DEF Apart

(* A thread's step which writes nothing: the connection may go.            *)
LEMMA QuietApart ==
    ASSUME Types, Apart, ~crashed, NEW t \in Threads, stage[t] \notin {"args", "flush"},
           NEW s, s \notin {"args", "flush"}, stage' = [stage EXCEPT ![t] = s],
           s \in Sending => stage[t] \in Sending,
           UNCHANGED <<wbuf, call, executed>>, slipped \subseteq slipped',
           (wire' = wire /\ late' = late) \/ (wire' = <<>> /\ KeptLate)
    PROVE  Apart'
<1>1. \A u \in Threads : stage'[u] \in Sending => stage[u] \in Sending
  BY DEF Types
<1>2. OneSender'
  BY <1>1, OneSenderStays DEF Apart
<1>3. BufferIs'
  BY BufferStays
<1>4. PastKept
  BY <1>1, PastStays
<1>5. StreamIs'
  BY <1>4, StreamKept, StreamLost DEF Apart
<1> QED
  BY <1>2, <1>3, <1>5 DEF Apart

LEMMA NextIInv == IInv /\ [Next]_vars => IInv'
<1> SUFFICES ASSUME IInv, [Next]_vars, ~sentTogether' PROVE Apart'
  BY NextTypes DEF IInv
<1>i. Types
  BY DEF IInv
<1>1. CASE UNCHANGED vars
  <2>1. Apart
    BY <1>1 DEF IInv, vars
  <2>2. PastKept
    BY <1>i, <1>1, PastStays DEF vars
  <2>3. StreamIs'
    BY <1>i, <1>1, <2>1, <2>2, StreamKept DEF Apart, vars
  <2> QED
    BY <1>1, <2>1, <2>3 DEF Apart, OneSender, BufferIs, vars
<1>2. CASE Next
  <2>i. ~crashed
    BY <1>2 DEF Next
  <2>1. ASSUME NEW t \in Threads, NEW fn \in Fns, Begin(t, fn)
        PROVE  Apart'
    <3>1. Apart
      BY <2>1 DEF Begin, IInv
    <3> QED
      BY <1>i, <2>i, <2>1, <3>1, BeginApart
  <2> SUFFICES ASSUME Apart, sentTogether' = sentTogether,
                      ~(\E t \in Threads, fn \in Fns : Begin(t, fn))
               PROVE  Apart'
    <3>1. sentTogether' = sentTogether
      \/ \E t \in Threads, fn \in Fns : Begin(t, fn)
      BY <1>2 DEF Next, Crash, Open, LookFor, Write, Flush, Receive, ReceiveFails,
                  ReceiveSlips, Add, Serve, ParseFails, ServeLate, ConnectionLost, LossReported
    <3> QED
      BY <2>1, <3>1 DEF IInv
  <2>2. ASSUME NEW t \in Threads, Crash(t)
        PROVE  Apart'
    <3>1. \A u \in Threads : stage'[u] = "idle"
      BY <2>2 DEF Crash
    <3>2. PastKept
      BY <1>i, <2>2, <3>1, PastStays DEF Crash
    <3>3. StreamIs'
      BY <1>i, <2>2, <3>2, StreamKept DEF Apart, Crash
    <3> QED
      BY <2>2, <3>1, <3>3 DEF Apart, OneSender, Crash
  <2>3. ASSUME NEW t \in Threads, Open(t)
        PROVE  Apart'
    BY <1>i, <2>i, <2>3, QuietApart DEF Open
  <2>4. ASSUME NEW t \in Threads, LookFor(t)
        PROVE  Apart'
    BY <1>i, <2>i, <2>4, QuietApart DEF LookFor
  <2>5. ASSUME NEW t \in Threads, Write(t)
        PROVE  Apart'
    BY <1>i, <2>i, <2>5, WriteApart
  <2>6. ASSUME NEW t \in Threads, Flush(t)
        PROVE  Apart'
    BY <1>i, <2>i, <2>6, FlushApart
  <2>7. ASSUME NEW t \in Threads, Receive(t)
        PROVE  Apart'
    <3>1. PICK s \in {"idle", "adding"} \cup Reading : stage' = [stage EXCEPT ![t] = s]
      BY <2>7 DEF Receive, NoResult, Result
    <3> QED
      BY <1>i, <2>i, <2>7, <3>1, QuietApart DEF Receive
  <2>8. ASSUME NEW t \in Threads, ReceiveFails(t) \/ ReceiveSlips(t) \/ Add(t)
        PROVE  Apart'
    BY <1>i, <2>i, <2>8, QuietApart DEF ReceiveFails, ReceiveSlips, Slips, Add
  <2>9. ASSUME UNCHANGED <<stage, call, wbuf, crashed>>, PastKept => StreamIs'
        PROVE  Apart'
    <3>1. PastKept
      BY <1>i, <2>9, PastStays
    <3> QED
      BY <2>9, <3>1 DEF Apart, OneSender, BufferIs
  <2>10. CASE Serve
    BY <1>i, <2>9, <2>10, StreamServed DEF Apart, Serve
  <2>11. CASE ParseFails
    BY <1>i, <2>9, <2>11, StreamKept DEF Apart, ParseFails, Hangup
  <2>12. ASSUME NEW r \in late, ServeLate(r)
         PROVE  Apart'
    BY <1>i, <2>9, <2>12, StreamServedLate DEF Apart, ServeLate
  <2>13. CASE ConnectionLost
    BY <1>i, <2>9, <2>13, StreamLost DEF Apart, ConnectionLost, Hangup
  <2>14. CASE LossReported
    BY <1>i, <2>9, <2>14, StreamKept DEF Apart, LossReported
  <2> QED
    BY <1>2, <2>2, <2>3, <2>4, <2>5, <2>6, <2>7, <2>8, <2>10, <2>11, <2>12, <2>13,
       <2>14 DEF Next
<1> QED
  BY <1>1, <1>2

-----------------------------------------------------------------------------
(* For any number of threads, of calls and of failures: as long as no two  *)
(* threads have been sending at the same time, no call is executed twice,  *)
(* however their waiting for replies overlaps and whatever is left on the  *)
(* connections; and while no write has failed on a living one, each is     *)
(* executed as it was made (src/gen-cpp/SelfService.cpp: send_ and recv_   *)
(* functions over the one transport of thriftlink_client.cpp).             *)
THEOREM RequestsStayWhole == Spec => []WholeUnlessSentTogether
<1>1. Init => IInv
  BY InitTypes, InitApart DEF IInv
<1>2. IInv /\ [Next]_vars => IInv'
  BY NextIInv
<1>3. IInv => WholeUnlessSentTogether
  <2> SUFFICES ASSUME IInv, ~sentTogether PROVE WholeUnlessSentTogether
    BY DEF WholeUnlessSentTogether
  <2>1. StreamIs /\ DOMAIN executed = 1 .. Len(executed)
    BY DEF IInv, Apart, Types
  <2> QED
    BY <2>1 DEF StreamIs, Once, ExecutedOnce, Whole, AsMade, WholeUnlessSentTogether
<1> QED
  BY <1>1, <1>2, <1>3, PTL DEF Spec

-----------------------------------------------------------------------------
(* Threads which take turns.  As long as nothing has failed on a living    *)
(* connection, the one which is in a call has the transport to itself:     *)
(* what the server has not read is its request, whole, and what the client *)
(* has not read is the rest of the reply to it, or the beginning of that,  *)
(* when the connection has gone.  Nothing of it is left when the call      *)
(* ends, so that the next call starts on an empty stream.                  *)

OneCall == \A t, u \in Threads : stage[t] # "idle" /\ stage[u] # "idle" => t = u

Empty == wire = <<>> /\ replies = <<>>

RequestOf(c) == <<PieceOf(c, "head"), PieceOf(c, "args")>>
ReplyOf(c) == <<PieceOf(c, "name"), PieceOf(c, "result")>>

(* What the thread t has to read, when it reads.                           *)
Awaits(t) ==
    /\ stage[t] = "name" =>
          \/ wire = RequestOf(call[t]) /\ replies = <<>> /\ link = "up"
          \/ wire = <<>> /\ replies = ReplyOf(call[t])
          \/ wire = <<>> /\ replies = <<PieceOf(call[t], "name")>> /\ link # "up"
          \/ Empty /\ link # "up"
    /\ stage[t] = "result" =>
          \/ wire = <<>> /\ replies = <<PieceOf(call[t], "result")>>
          \/ Empty /\ link # "up"
    /\ stage[t] # "skip"

LineIs ==
    /\ \A t \in Threads : Awaits(t)
    /\ (\A t \in Threads : stage[t] \notin Reading) => Empty

OwnHandle(t) ==
    /\ holds[t] \in {None, t}
    /\ holds[t] = t /\ stage[t] # "adding" => t \in listed
    /\ stage[t] = "adding" => holds[t] = t

Handles == holds \in [Threads -> {None} \cup Threads] /\ \A t \in Threads : OwnHandle(t)

OwnResults == \A r \in returned : r.call = r.by

Alone == ~crashed /\ OneCall

Turns == Alone /\ LineIs /\ Handles /\ OwnResults

TInv ==
    /\ IInv
    /\ sentTogether => together
    /\ ~together => Alone /\ (slipped = {} => Turns)

-----------------------------------------------------------------------------
(* Every step of one thread's call, and of the server on it, keeps Turns.  *)

LEMMA OthersIdle ==
    ASSUME OneCall, NEW t \in Threads, stage[t] # "idle"
    PROVE  \A u \in Threads \ {t} : stage[u] = "idle"
BY DEF OneCall

(* A step of the one thread which is in a call.                            *)
LEMMA StaysAlone ==
    ASSUME Types, OneCall, NEW t \in Threads, stage[t] # "idle", NEW s,
           stage' = [stage EXCEPT ![t] = s]
    PROVE  /\ OneCall'
           /\ stage'[t] = s
           /\ \A u \in Threads \ {t} : stage[u] = "idle" /\ stage'[u] = "idle"
<1>1. \A u \in Threads : stage'[u] = IF u = t THEN s ELSE stage[u]
  BY DEF Types
<1> QED
  BY <1>1 DEF OneCall

(* Its call does not read yet, or no more.                                 *)
LEMMA LineEmpty ==
    ASSUME wire' = <<>>, replies' = <<>>, \A t \in Threads : stage'[t] \notin Reading
    PROVE  LineIs'
BY DEF LineIs, Awaits, Empty

(* The line, when no thread but t may be in a call.                        *)
LineOf(t) == Awaits(t) /\ (stage[t] \notin Reading => Empty)

LEMMA LineIsOf ==
    ASSUME LineIs, NEW t \in Threads, \A u \in Threads \ {t} : stage[u] = "idle"
    PROVE  LineOf(t)
BY DEF LineIs, LineOf

LEMMA OfIsLine ==
    ASSUME NEW t \in Threads, \A u \in Threads \ {t} : stage'[u] = "idle", LineOf(t)'
    PROVE  LineIs'
<1>1. \A u \in Threads : u = t \/ stage'[u] \notin {"name", "skip", "result"}
  OBVIOUS
<1> QED
  BY <1>1 DEF LineIs, LineOf, Awaits

(* The thread's step does not touch the handles.                           *)
LEMMA HandlesStay ==
    ASSUME Types, Handles, NEW t \in Threads, stage[t] # "adding", NEW s, s # "adding",
           stage' = [stage EXCEPT ![t] = s], UNCHANGED <<holds, listed>>
    PROVE  Handles'
<1>1. \A u \in Threads : stage'[u] = IF u = t THEN s ELSE stage[u]
  BY DEF Types
<1> QED
  BY <1>1 DEF Handles, OwnHandle

LEMMA OneWalks ==
    ASSUME OneCall, NEW t \in Threads, stage[t] # "idle"
    PROVE  ~ListRace(t) /\ ~Racing(t, Writing) /\ ~Racing(t, Reading)
<1>1. \A u \in Threads \ {t} : stage[u] = "idle"
  BY OthersIdle
<1>2. \A u \in Threads \ {t} : ~Walks(u)
  BY <1>1 DEF Walks
<1> QED
  BY <1>1, <1>2 DEF ListRace, Racing

LEMMA BeginTurns ==
    ASSUME Types, Turns, NEW t \in Threads, NEW fn \in Fns, Begin(t, fn), ~together'
    PROVE  Turns'
<1>1. \A u \in Threads : stage[u] = "idle"
  BY DEF Begin
<1>2. \A u \in Threads : stage'[u] = IF u = t THEN stage'[t] ELSE "idle"
  BY <1>1 DEF Begin, Types
<1>3. stage'[t] \in {"opening", "looking"}
  BY DEF Begin, Types
<1>4. OneCall'
  BY <1>2 DEF OneCall
<1>5. LineIs'
  <2>1. Empty
    BY <1>1 DEF Turns, Alone, LineIs
  <2>2. wire' = <<>> /\ replies' = <<>>
    BY <2>1 DEF Begin, Empty
  <2> QED
    BY <1>2, <1>3, <2>2, LineEmpty
<1>6. Handles'
  <2>1. UNCHANGED <<holds, listed>>
    BY DEF Begin
  <2> QED
    BY <1>1, <1>2, <1>3, <2>1 DEF Turns, Alone, Handles, OwnHandle
<1> QED
  BY <1>4, <1>5, <1>6 DEF Turns, Alone, OwnResults, Begin

(* What is kept of a short stream.                                         *)
LEMMA NothingKept == Prefixes(<<>>) = {<<>>}
<1>1. SubSeq(<<>>, 1, 0) = <<>> /\ 0 .. Len(<<>>) = {0}
  OBVIOUS
<1>2. \A q : q \in Prefixes(<<>>) <=> q = SubSeq(<<>>, 1, 0)
  BY <1>1 DEF Prefixes
<1> QED
  BY <1>1, <1>2

LEMMA OneKept ==
    ASSUME NEW a, NEW q \in Prefixes(<<a>>)
    PROVE  q \in {<<>>, <<a>>}
<1>1. q \in Seq({a}) /\ Len(q) \in 0 .. 1 /\ \A i \in 1 .. Len(q) : q[i] = <<a>>[i]
  <2>1. PICK w : w = <<a>>
    OBVIOUS
  <2>2. w \in Seq({a}) /\ Len(w) = 1 /\ q \in Prefixes(w)
    BY <2>1
  <2>3. q \in Seq({a}) /\ Len(q) \in 0 .. Len(w) /\ \A i \in 1 .. Len(q) : q[i] = w[i]
    BY <2>2, PrefixElements
  <2> QED
    BY <2>1, <2>2, <2>3
<1>2. CASE Len(q) = 0
  BY <1>1, <1>2
<1>3. CASE Len(q) = 1
  BY <1>1, <1>3
<1> QED
  BY <1>1, <1>2, <1>3

LEMMA TwoKept ==
    ASSUME NEW a, NEW b, NEW q \in Prefixes(<<a, b>>)
    PROVE  q \in {<<>>, <<a>>, <<a, b>>}
<1>1. q \in Seq({a, b}) /\ Len(q) \in 0 .. 2 /\ \A i \in 1 .. Len(q) : q[i] = <<a, b>>[i]
  <2>1. PICK w, S : w = <<a, b>> /\ S = {a, b}
    OBVIOUS
  <2>2. a \in S /\ b \in S
    BY <2>1
  <2>3. w \in Seq(S) /\ Len(w) = 2
    BY <2>1, <2>2
  <2>4. q \in Prefixes(w)
    BY <2>1
  <2>5. q \in Seq(S) /\ Len(q) \in 0 .. Len(w) /\ \A i \in 1 .. Len(q) : q[i] = w[i]
    BY <2>3, <2>4, PrefixElements
  <2> QED
    BY <2>1, <2>3, <2>5
<1>2. CASE Len(q) = 0
  BY <1>1, <1>2
<1>3. CASE Len(q) = 1
  BY <1>1, <1>3
<1>4. CASE Len(q) = 2
  BY <1>1, <1>4
<1> QED
  BY <1>1, <1>2, <1>3, <1>4

LEMMA OpenTurns ==
    ASSUME Types, Turns, NEW t \in Threads, Open(t)
    PROVE  Turns'
<1>1. /\ OneCall' /\ stage'[t] = "looking"
      /\ \A u \in Threads \ {t} : stage[u] = "idle" /\ stage'[u] = "idle"
  BY StaysAlone DEF Open, Turns, Alone
<1>2. LineIs'
  <2>1. Empty
    BY <1>1 DEF Turns, Alone, LineIs, Open
  <2>2. wire' = <<>> /\ replies' = <<>>
    BY <2>1, NothingKept DEF Open, Empty
  <2> QED
    BY <1>1, <2>2, LineEmpty
<1>3. Handles'
  BY HandlesStay DEF Open, Turns, Alone
<1> QED
  BY <1>1, <1>2, <1>3 DEF Turns, Alone, OwnResults, Open

LEMMA LookForTurns ==
    ASSUME Types, Turns, NEW t \in Threads, LookFor(t)
    PROVE  Turns'
<1>0. stage[t] = "looking" /\ ~ListRace(t)
  BY OneWalks DEF LookFor, Turns, Alone
<1>1. PICK s \in {"head", "idle"} : stage' = [stage EXCEPT ![t] = s]
  BY DEF LookFor
<1>2. /\ OneCall' /\ stage'[t] = s
      /\ \A u \in Threads \ {t} : stage[u] = "idle" /\ stage'[u] = "idle"
  BY <1>0, <1>1, StaysAlone DEF Turns, Alone
<1>3. LineIs'
  <2>1. Empty
    BY <1>0, <1>2 DEF Turns, Alone, LineIs
  <2>2. wire' = <<>> /\ replies' = <<>>
    BY <2>1 DEF LookFor, Empty
  <2>3. \A u \in Threads : stage'[u] \notin Reading
    BY <1>1, <1>2
  <2> QED
    BY <2>2, <2>3, LineEmpty
<1>4. Handles'
  <2>1. CASE UNCHANGED <<listed, holds>>
    BY <1>0, <1>1, <2>1, HandlesStay DEF Turns, Alone
  <2>2. CASE /\ listed' = listed \ {holds[t]}
             /\ holds' = [holds EXCEPT ![t] = None]
    <3>1. holds' \in [Threads -> {None} \cup Threads]
      BY <2>2 DEF Turns, Alone, Handles
    <3>2. holds'[t] = None /\ None # t
      BY <2>2, ConstantsAssumption DEF Turns, Alone, Handles
    <3>3. ASSUME NEW u \in Threads, u # t
          PROVE  OwnHandle(u)'
      <4>1. holds'[u] = holds[u] /\ stage'[u] = "idle" /\ stage[u] = "idle"
        BY <1>2, <2>2, <3>3 DEF Turns, Alone, Handles
      <4>2. u \in listed => u \in listed'
        BY <2>2, <3>3, ConstantsAssumption DEF Turns, Alone, Handles, OwnHandle
      <4> QED
        BY <4>1, <4>2 DEF Turns, Alone, Handles, OwnHandle
    <3>4. OwnHandle(t)'
      BY <1>2, <3>2 DEF OwnHandle
    <3> QED
      BY <3>1, <3>3, <3>4 DEF Handles
  <2> QED
    BY <1>0, <2>1, <2>2 DEF LookFor, Either
<1> QED
  BY <1>2, <1>3, <1>4 DEF Turns, Alone, OwnResults, LookFor

LEMMA WriteTurns ==
    ASSUME Types, Turns, NEW t \in Threads, Write(t)
    PROVE  Turns'
<1>1. PICK s \in {"args", "flush"} : stage' = [stage EXCEPT ![t] = s]
  BY DEF Write, Types
<1>2. /\ OneCall' /\ stage'[t] = s
      /\ \A u \in Threads \ {t} : stage[u] = "idle" /\ stage'[u] = "idle"
  BY <1>1, StaysAlone DEF Write, Turns, Alone
<1>3. LineIs'
  <2>1. Empty
    BY <1>2 DEF Turns, Alone, LineIs, Write
  <2>2. wire' = <<>> /\ replies' = <<>>
    BY <2>1 DEF Write, Empty
  <2>3. \A u \in Threads : stage'[u] \notin Reading
    BY <1>1, <1>2
  <2> QED
    BY <2>2, <2>3, LineEmpty
<1>4. Handles'
  BY <1>1, HandlesStay DEF Write, Turns, Alone
<1> QED
  BY <1>2, <1>3, <1>4 DEF Turns, Alone, OwnResults, Write

LEMMA FlushTurns ==
    ASSUME Types, Apart, Turns, NEW t \in Threads, Flush(t), slipped' = {}
    PROVE  Turns'
<1>1. PICK s \in {"name", "idle"} : stage' = [stage EXCEPT ![t] = s]
  BY DEF Flush
<1>2. /\ OneCall' /\ stage'[t] = s
      /\ \A u \in Threads \ {t} : stage[u] = "idle" /\ stage'[u] = "idle"
  BY <1>1, StaysAlone DEF Flush, Turns, Alone
<1>3. Empty
  BY <1>2 DEF Turns, Alone, LineIs, Flush
<1>4. wbuf = RequestOf(call[t])
  BY DEF RequestOf, Flush, Apart, Turns, Alone, BufferIs
<1>5. <<>> \o wbuf = wbuf
  BY DEF Types
<1>6. wbuf # <<>>
  BY <1>4 DEF RequestOf
<1>7. LineIs'
  <2>1. CASE stage' = [stage EXCEPT ![t] = "name"] /\ link' = link /\ link # "closed"
              /\ wire' = IF link = "up" THEN wire \o wbuf ELSE wire
    <3>1. replies' = <<>> /\ call' = call
      BY <1>3 DEF Flush, Empty
    <3>2. stage'[t] = "name"
      BY <2>1 DEF Types
    <3>3. CASE link = "up"
      <4>1. wire' = RequestOf(call[t])
        BY <1>3, <1>4, <1>5, <2>1, <3>3 DEF Empty
      <4> QED
        BY <1>2, <2>1, <3>1, <3>2, <3>3, <4>1, OfIsLine DEF LineOf, Awaits
    <3>4. CASE link # "up"
      <4>1. wire' = <<>> /\ link' # "up"
        BY <1>3, <2>1, <3>4 DEF Empty
      <4> QED
        BY <1>2, <3>1, <3>2, <4>1, OfIsLine DEF LineOf, Awaits, Empty
    <3> QED
      BY <3>3, <3>4
  <2>2. CASE stage' = [stage EXCEPT ![t] = "idle"] /\ wire' = wire
    <3>1. wire' = <<>> /\ replies' = <<>>
      BY <1>3, <2>2 DEF Flush, Empty
    <3>2. \A u \in Threads : stage'[u] \notin Reading
      BY <1>2, <2>2 DEF Types
    <3> QED
      BY <3>1, <3>2, LineEmpty
  <2> QED
    BY <1>6, <2>1, <2>2 DEF Flush, Sends, Throws, Slips
<1>8. Handles'
  BY <1>1, HandlesStay DEF Flush, Turns, Alone
<1> QED
  BY <1>2, <1>7, <1>8 DEF Turns, Alone, OwnResults, Flush

LEMMA ReceiveTurns ==
    ASSUME Types, Turns, NEW t \in Threads, Receive(t)
    PROVE  Turns'
<1>1. /\ stage[t] \in Reading /\ replies # <<>>
      /\ \A u \in Threads \ {t} : stage[u] = "idle"
  BY OthersIdle DEF Receive, Turns, Alone
<1>2. replies' = Tail(replies)
  BY <1>1, OneWalks DEF Receive, Either, Turns, Alone
<1>3. UNCHANGED <<link, call, listed, wire, crashed>>
  BY DEF Receive
<1>4. LineOf(t)
  BY <1>1, LineIsOf DEF Turns, Alone
<1>5. CASE stage[t] = "name"
  <2>1. /\ wire = <<>>
        /\ \/ replies = ReplyOf(call[t])
           \/ replies = <<PieceOf(call[t], "name")>> /\ link # "up"
    BY <1>1, <1>4, <1>5 DEF LineOf, Awaits, Empty
  <2>2. /\ Head(replies) = PieceOf(call[t], "name")
        /\ \/ Tail(replies) = <<PieceOf(call[t], "result")>>
           \/ Tail(replies) = <<>> /\ link # "up"
    <3>1. CASE replies = ReplyOf(call[t])
      BY <3>1 DEF ReplyOf
    <3>2. CASE replies = <<PieceOf(call[t], "name")>> /\ link # "up"
      BY <3>2
    <3> QED
      BY <2>1, <3>1, <3>2
  <2>3. Expected(t, Head(replies)) /\ NameMatches(t, Head(replies))
    BY <1>5, <2>2 DEF Expected, NameMatches, PieceOf
  <2>4. stage' = [stage EXCEPT ![t] = "result"] /\ UNCHANGED <<returned, holds>>
    BY <1>5, <2>3 DEF Receive, NoResult
  <2>5. /\ OneCall' /\ stage'[t] = "result"
        /\ \A u \in Threads \ {t} : stage'[u] = "idle"
    BY <1>1, <2>4, StaysAlone DEF Turns, Alone
  <2>6. LineIs'
    BY <1>2, <1>3, <2>1, <2>2, <2>5, OfIsLine DEF LineOf, Awaits, Empty
  <2>7. Handles'
    BY <1>3, <1>5, <2>4, HandlesStay DEF Turns, Alone
  <2> QED
    BY <1>3, <2>4, <2>5, <2>6, <2>7 DEF Turns, Alone, OwnResults
<1>6. CASE stage[t] = "result"
  <2>1. wire = <<>> /\ replies = <<PieceOf(call[t], "result")>>
    BY <1>1, <1>4, <1>6 DEF LineOf, Awaits, Empty
  <2>2. Head(replies) = PieceOf(call[t], "result") /\ Tail(replies) = <<>>
    BY <2>1
  <2>3. Expected(t, Head(replies)) /\ Head(replies).call = call[t]
    BY <1>6, <2>2 DEF Expected, PieceOf
  <2>4. Result(t, Head(replies))
    BY <1>6, <2>3 DEF Receive
  <2>5. PICK s \in {"adding", "idle"} :
           /\ stage' = [stage EXCEPT ![t] = s]
           /\ s = "adding" => holds' = [holds EXCEPT ![t] = t]
           /\ s = "idle" => holds' = holds
    BY <2>3, <2>4 DEF Result, Types
  <2>6. /\ OneCall' /\ stage'[t] = s
        /\ \A u \in Threads \ {t} : stage'[u] = "idle"
    BY <1>1, <2>5, StaysAlone DEF Turns, Alone
  <2>7. LineIs'
    <3>1. wire' = <<>> /\ replies' = <<>>
      BY <1>2, <1>3, <2>1, <2>2
    <3>2. \A u \in Threads : stage'[u] \notin Reading
      BY <2>6
    <3> QED
      BY <3>1, <3>2, LineEmpty
  <2>8. Handles'
    <3>1. CASE s = "idle"
      BY <1>3, <1>6, <2>5, <3>1, HandlesStay DEF Turns, Alone
    <3>2. CASE s = "adding"
      <4>1. holds' \in [Threads -> {None} \cup Threads] /\ holds'[t] = t
        BY <2>5, <3>2 DEF Turns, Alone, Handles
      <4>2. \A u \in Threads \ {t} : holds'[u] = holds[u]
        BY <2>5, <3>2 DEF Turns, Alone, Handles
      <4> QED
        BY <1>1, <1>3, <2>6, <3>2, <4>1, <4>2 DEF Turns, Alone, Handles, OwnHandle
    <3> QED
      BY <3>1, <3>2
  <2>9. OwnResults'
    BY <2>3, <2>4 DEF Result, Turns, Alone, OwnResults
  <2> QED
    BY <1>3, <2>6, <2>7, <2>8, <2>9 DEF Turns, Alone
<1> QED
  BY <1>1, <1>4, <1>5, <1>6 DEF LineOf, Awaits

LEMMA ReceiveFailsTurns ==
    ASSUME Types, Turns, NEW t \in Threads, ReceiveFails(t)
    PROVE  Turns'
<1>1. stage[t] \in Reading /\ replies = <<>> /\ link \in {"closed", "broken"}
  BY DEF ReceiveFails, NoMoreReplies
<1>2. /\ OneCall' /\ stage'[t] = "idle"
      /\ \A u \in Threads \ {t} : stage[u] = "idle" /\ stage'[u] = "idle"
  BY <1>1, StaysAlone DEF ReceiveFails, Turns, Alone
<1>3. LineOf(t)
  BY <1>2, LineIsOf DEF Turns, Alone
<1>4. LineIs'
  <2>1. replies' = <<>>
    BY <1>1 DEF ReceiveFails
  <2>2. wire' = <<>>
    BY <1>1, <1>3 DEF LineOf, Awaits, Empty, ReceiveFails, ReplyOf
  <2> QED
    BY <1>2, <2>1, <2>2, LineEmpty
<1>5. Handles'
  BY <1>1, HandlesStay DEF ReceiveFails, Turns, Alone
<1> QED
  BY <1>2, <1>4, <1>5 DEF Turns, Alone, OwnResults, ReceiveFails

LEMMA AddTurns ==
    ASSUME Types, Turns, NEW t \in Threads, Add(t)
    PROVE  Turns'
<1>1. stage[t] = "adding" /\ ~ListRace(t) /\ stage' = [stage EXCEPT ![t] = "idle"]
  BY OneWalks DEF Add, Turns, Alone
<1>2. /\ OneCall' /\ stage'[t] = "idle"
      /\ \A u \in Threads \ {t} : stage[u] = "idle" /\ stage'[u] = "idle"
  BY <1>1, StaysAlone DEF Turns, Alone
<1>3. LineIs'
  <2>1. LineOf(t)
    BY <1>2, LineIsOf DEF Turns, Alone
  <2>2. wire' = <<>> /\ replies' = <<>>
    BY <1>1, <2>1 DEF LineOf, Awaits, Empty, Add
  <2> QED
    BY <1>2, <2>2, LineEmpty
<1>4. Handles'
  <2>1. listed' = listed \cup {holds[t]} /\ holds' = holds /\ holds[t] = t
    BY <1>1 DEF Add, Added, Either, Turns, Alone, Handles, OwnHandle
  <2> QED
    BY <1>2, <2>1 DEF Turns, Alone, Handles, OwnHandle
<1> QED
  BY <1>2, <1>3, <1>4 DEF Turns, Alone, OwnResults, Add

(* While a request or a reply is on the connection, a thread reads.        *)
LEMMA OneReads ==
    ASSUME Turns, wire # <<>> \/ replies # <<>>
    PROVE  \E t \in Threads :
              /\ stage[t] \in {"name", "result"}
              /\ LineOf(t)
              /\ \A u \in Threads \ {t} : stage[u] = "idle"
<1>1. PICK t \in Threads : stage[t] \in Reading
  BY DEF Turns, Alone, LineIs, Empty
<1>2. \A u \in Threads \ {t} : stage[u] = "idle"
  BY <1>1, OthersIdle DEF Turns, Alone
<1>3. LineOf(t)
  BY <1>2, LineIsOf DEF Turns, Alone
<1> QED
  BY <1>1, <1>2, <1>3 DEF LineOf, Awaits

(* The threads and their handles are as they were.                         *)
LEMMA ThreadsStay ==
    ASSUME Turns, LineIs', UNCHANGED <<crashed, stage, holds, listed, returned>>
    PROVE  Turns'
BY DEF Turns, Alone, OneCall, Handles, OwnHandle, OwnResults

LEMMA ServeTurns ==
    ASSUME Types, Turns, Serve
    PROVE  Turns'
<1>1. wire # <<>> /\ wire \in Seq(Piece) /\ replies' = replies \o ReplyOf(Parsed.head)
  BY DEF Serve, Complete, Types, ReplyOf, PieceOf
<1>2. PICK t \in Threads : /\ stage[t] \in {"name", "result"}
                          /\ LineOf(t)
                          /\ \A u \in Threads \ {t} : stage[u] = "idle"
  BY <1>1, OneReads
<1>3. /\ stage[t] = "name" /\ wire = RequestOf(call[t]) /\ replies = <<>> /\ link = "up"
  BY <1>1, <1>2 DEF LineOf, Awaits, Empty
<1>4. Parsed.head = call[t] /\ Len(wire) = 2
  BY <1>3 DEF Parsed, RequestAt, RequestOf, PieceOf
<1>5. wire' = <<>>
  BY <1>1, <1>4 DEF Serve
<1>6. replies' = ReplyOf(call[t])
  BY <1>1, <1>3, <1>4 DEF ReplyOf
<1>7. LineIs'
  BY <1>2, <1>3, <1>5, <1>6, OfIsLine DEF LineOf, Awaits, Serve
<1> QED
  BY <1>7, ThreadsStay DEF Serve

(* What is on the connection parses.                                       *)
LEMMA NoParseFails ==
    ASSUME Turns, ParseFails
    PROVE  FALSE
<1>1. PICK t \in Threads : stage[t] \in {"name", "result"} /\ LineOf(t)
  BY OneReads DEF ParseFails
<1>2. wire = RequestOf(call[t])
  BY <1>1 DEF LineOf, Awaits, Empty, ParseFails
<1> QED
  BY <1>2 DEF ParseFails, RequestOf, PieceOf

LEMMA LostTurns ==
    ASSUME Turns, ConnectionLost
    PROVE  Turns'
<1>1. /\ link' # "up" /\ wire' = <<>> /\ replies' \in Prefixes(replies)
      /\ UNCHANGED <<call, stage>>
  BY DEF ConnectionLost, Hangup
<1>2. \A t \in Threads : Awaits(t)'
  <2> SUFFICES ASSUME NEW t \in Threads PROVE Awaits(t)'
    OBVIOUS
  <2>1. Awaits(t)
    BY DEF Turns, LineIs
  <2>2. replies = <<>> => replies' = <<>>
    BY <1>1, NothingKept
  <2>3. replies = <<PieceOf(call[t], "result")>> =>
           replies' \in {<<>>, <<PieceOf(call[t], "result")>>}
    BY <1>1, OneKept
  <2>4. replies = <<PieceOf(call[t], "name")>> =>
           replies' \in {<<>>, <<PieceOf(call[t], "name")>>}
    BY <1>1, OneKept
  <2>5. replies = ReplyOf(call[t]) =>
           replies' \in {<<>>, <<PieceOf(call[t], "name")>>, ReplyOf(call[t])}
    BY <1>1, TwoKept DEF ReplyOf
  <2> QED
    BY <1>1, <2>1, <2>2, <2>3, <2>4, <2>5 DEF Awaits, Empty, ReplyOf
<1>3. LineIs'
  <2>1. Empty => Empty'
    BY <1>1, NothingKept DEF Empty
  <2> QED
    BY <1>1, <1>2, <2>1 DEF Turns, LineIs
<1> QED
  BY <1>3, ThreadsStay DEF ConnectionLost

LEMMA ReportedTurns ==
    ASSUME Turns, LossReported
    PROVE  Turns'
<1>1. LineIs'
  BY DEF Turns, LineIs, Awaits, Empty, LossReported
<1> QED
  BY <1>1, ThreadsStay DEF LossReported

(* Whatever fails, one thread at a time is in a call.                      *)
LEMMA StepAlone ==
    ASSUME Types, Alone, NEW t \in Threads, Steps(t) \/ ReceiveSlips(t)
    PROVE  Alone'
<1>1. stage[t] # "idle" /\ crashed' = crashed
  BY DEF Steps, Open, LookFor, Write, Flush, Receive, ReceiveFails, ReceiveSlips, Add
<1>2. \E s : stage' = [stage EXCEPT ![t] = s]
  BY FlushFacts DEF Steps, Open, LookFor, Write, Receive, Result, NoResult, ReceiveFails,
                    ReceiveSlips, Add
<1> QED
  BY <1>1, <1>2, StaysAlone DEF Alone

LEMMA NextTInv == TInv /\ [Next]_vars => TInv'
<1> SUFFICES ASSUME TInv, [Next]_vars
             PROVE  /\ sentTogether' => together'
                    /\ ~together' => Alone' /\ (slipped' = {} => Turns')
  BY NextIInv DEF TInv
<1>1. CASE UNCHANGED vars
  BY <1>1 DEF TInv, Turns, Alone, OneCall, LineIs, Awaits, Empty, Handles, OwnHandle,
              OwnResults, vars
<1>2. CASE Next
  <2>1. ASSUME NEW t \in Threads, NEW fn \in Fns, Begin(t, fn)
        PROVE  /\ sentTogether' => together'
               /\ ~together' => Alone' /\ (slipped' = {} => Turns')
    <3>1. Racing(t, Sending) => \E u \in Threads : stage[u] # "idle"
      BY DEF Racing
    <3>2. sentTogether' => together'
      BY <2>1, <3>1 DEF Begin, TInv
    <3>3. ~together' => ~together /\ Alone /\ (slipped' = {} => Turns)
      BY <2>1 DEF Begin, TInv
    <3>4. ASSUME ~together'
          PROVE  Alone'
      <4>1. \A u \in Threads : stage[u] = "idle"
        BY <2>1, <3>4 DEF Begin
      <4>2. \A u \in Threads \ {t} : stage'[u] = "idle"
        BY <2>1, <4>1 DEF Begin, TInv, IInv, Types
      <4> QED
        BY <2>1, <3>3, <3>4, <4>2 DEF Begin, Alone, OneCall
    <3> QED
      BY <2>1, <3>2, <3>3, <3>4, BeginTurns DEF TInv, IInv
  <2> SUFFICES ASSUME UNCHANGED <<together, sentTogether>>, ~together,
                      ~(\E t \in Threads, fn \in Fns : Begin(t, fn))
               PROVE  Alone' /\ (slipped' = {} => Turns')
    <3>1. UNCHANGED <<together, sentTogether>>
      \/ \E t \in Threads, fn \in Fns : Begin(t, fn)
      BY <1>2 DEF Next, Crash, Open, LookFor, Write, Flush, Receive, ReceiveFails,
                  ReceiveSlips, Add, Serve, ParseFails, ServeLate, ConnectionLost, LossReported
    <3> QED
      BY <2>1, <3>1 DEF TInv
  <2>i. Types /\ Apart /\ Alone /\ (slipped = {} => Turns)
    BY DEF TInv, IInv
  <2>2. ASSUME NEW t \in Threads, Crash(t)
        PROVE  FALSE
    <3>1. ListRace(t) /\ stage[t] # "idle"
      BY <2>2 DEF Crash, ListRace, Walks
    <3> QED
      BY <2>i, <3>1, OneWalks DEF Alone
  <2>3. ASSUME NEW t \in Threads, Steps(t)
        PROVE  Alone' /\ (slipped' = {} => Turns')
    <3>1. Alone'
      BY <2>i, <2>3, StepAlone
    <3>2. ASSUME slipped' = {}
          PROVE  Turns'
      <4>1. slipped = {}
        <5>1. CASE Flush(t)
          BY <3>2, <5>1, FlushFacts
        <5>2. CASE ~Flush(t)
          BY <2>3, <3>2, <5>2
             DEF Steps, Open, LookFor, Write, Receive, ReceiveFails, Add
        <5> QED
          BY <5>1, <5>2
      <4> QED
        BY <2>i, <2>3, <3>2, <4>1, OpenTurns, LookForTurns, WriteTurns, FlushTurns,
           ReceiveTurns, ReceiveFailsTurns, AddTurns DEF Steps
    <3> QED
      BY <3>1, <3>2
  <2>4. ASSUME NEW t \in Threads, ReceiveSlips(t)
        PROVE  Alone' /\ slipped' # {}
    <3>1. Alone'
      BY <2>i, <2>4, StepAlone
    <3> QED
      BY <2>4, <3>1 DEF ReceiveSlips, Slips
  <2>5. ASSUME UNCHANGED <<stage, crashed, slipped>>, Turns => Turns'
        PROVE  Alone' /\ (slipped' = {} => Turns')
    BY <2>i, <2>5 DEF Alone, OneCall
  <2>6. ASSUME NEW q \in late, ServeLate(q)
        PROVE  UNCHANGED <<stage, crashed, slipped>> /\ (Turns => Turns')
    <3>1. Turns => LineIs'
      BY <2>6 DEF Turns, LineIs, Awaits, Empty, ServeLate
    <3> QED
      BY <2>6, <3>1, ThreadsStay DEF ServeLate
  <2>7. CASE Serve \/ ConnectionLost \/ LossReported
    <3>1. UNCHANGED <<stage, crashed, slipped>>
      BY <2>7 DEF Serve, ConnectionLost, LossReported
    <3> QED
      BY <2>i, <2>5, <2>7, <3>1, ServeTurns, LostTurns, ReportedTurns
  <2>8. CASE ParseFails
    <3>1. UNCHANGED <<stage, crashed, slipped>>
      BY <2>8 DEF ParseFails
    <3>2. ~Turns
      BY <2>8, NoParseFails
    <3> QED
      BY <2>5, <3>1, <3>2
  <2> QED
    BY <1>2, <2>2, <2>3, <2>4, <2>5, <2>6, <2>7, <2>8 DEF Next, Steps
<1> QED
  BY <1>1, <1>2

LEMMA InitTurns == Init => Turns
<1> SUFFICES ASSUME Init PROVE Turns
  OBVIOUS
<1>1. \A t \in Threads : stage[t] = "idle" /\ holds[t] = None /\ None # t
  BY ConstantsAssumption DEF Init
<1>2. OneCall /\ LineIs
  BY <1>1 DEF Init, OneCall, LineIs, Awaits, Empty
<1>3. Handles
  BY <1>1 DEF Init, Handles, OwnHandle
<1> QED
  BY <1>2, <1>3 DEF Init, Turns, Alone, OwnResults

(* For any number of threads, of calls and of failures: threads which have *)
(* taken turns so far, so that none entered a detour while another was in  *)
(* one, have not crashed.  As long as nothing has failed on a living       *)
(* connection, they have got the results of their own calls, and each      *)
(* holds no handle but its own, which the list has, whatever connections   *)
(* were lost (src/extension/userdef_client.cpp: the list;                  *)
(* thriftlink_client.cpp: the one _api; SelfService.cpp: send_ and recv_). *)
THEOREM TurnsStaySafe == Spec => []TurnsAreSafe
<1>1. Init => TInv
  BY InitTypes, InitApart, InitTurns DEF TInv, IInv, Init, Turns
<1>2. TInv /\ [Next]_vars => TInv'
  BY NextTInv
<1>3. TInv => TurnsAreSafe
  BY DEF TInv, Turns, Alone, Handles, OwnHandle, OwnResults, TurnsAreSafe
<1> QED
  BY <1>1, <1>2, <1>3, PTL DEF Spec

=============================================================================
