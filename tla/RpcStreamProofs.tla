-------------------------- MODULE RpcStreamProofs --------------------------
(* Proofs about RpcStream, for any size of the write buffer above 1, any   *)
(* sizes of data and every bound.                                          *)
EXTENDS RpcStream, SequenceTheorems, TLAPS

-----------------------------------------------------------------------------
(* What is still to be written of the present request, and with it the     *)
(* stream of the connection: all that the server may yet read of it.       *)

AheadOf(t) ==
    IF t = <<>> THEN <<>>
    ELSE Bytes(calls, Head(t)[1].of - 2, Head(t)[1].pos, Head(t)[1].of)

Ahead == AheadOf(todo)

(* What the client has to send if it has to send it on a new connection.   *)
Kept == wbuf \o Ahead

Unsent == IF stage = "half" THEN Ahead ELSE Kept

Stream == wire \o Unsent

(* The pieces of a request from some piece on.                             *)
TodoOf(k, n) ==
    {<<>>, <<Bytes(k, n, n + 2, n + 2)>>, Tail(Pieces(k, n)), Pieces(k, n)}

(* The headers in some bytes: the calls they start, and those of them for  *)
(* which as many bytes follow as the header announces.                     *)
Heads(s) == {i \in 1 .. Len(s) : s[i].pos = 1}
Starts(s) == {s[i].call : i \in Heads(s)}
Viable(s) == {s[i].call : i \in {h \in Heads(s) : h + s[h].of <= Len(s) + 1}}

(* No call starts twice.                                                   *)
Single(s) == \A i, j \in Heads(s) : s[i].call = s[j].call => i = j

(* All that there is of the request of each byte is where it belongs, and  *)
(* in a stream which is whole, there is all of it.                         *)
Belongs(s, i, q) ==
    LET x == i + q - s[i].pos IN
    x >= 1 /\ s[x].call = s[i].call /\ s[x].pos = q /\ s[x].of = s[i].of

InPlace(s) ==
    \A i \in 1 .. Len(s) :
        /\ s[i].pos <= s[i].of
        /\ \A q \in 1 .. s[i].of : i + q - s[i].pos <= Len(s) => Belongs(s, i, q)

InFull(s) ==
    /\ InPlace(s)
    /\ \A i \in 1 .. Len(s) : i + s[i].of - s[i].pos <= Len(s)

-----------------------------------------------------------------------------
(* The invariant.                                                          *)

CallNos == 1 .. MaxCalls
Requests == [call : CallNos, name : Names, whole : BOOLEAN]
ReplyParts == [call : CallNos, name : Names, part : {"name", "rest"}]

Types ==
    /\ link \in {"closed", "up", "broken", "silent"}
    /\ stage \in {"idle", "writing", "half"} \cup Reading
    /\ calls \in 0 .. MaxCalls
    /\ named \in Names
    /\ wbuf \in Seq(Byte) /\ wire \in Seq(Byte) /\ late \subseteq Seq(Byte)
    /\ executed \in Seq(Requests)
    /\ replies \in Seq(ReplyParts)
    /\ returned \in Seq([call : CallNos, by : CallNos])
    /\ spilled \subseteq {"up", "broken", "silent"} /\ slipped \subseteq {"read", "write"}
    /\ faults \in 0 .. MaxFaults
    /\ todo # <<>> => calls > 0 /\ \E n \in DataLens : todo \in TodoOf(calls, n)

Shape ==
    /\ Len(wbuf) <= BufSize
    /\ link # "up" => wire = <<>>
    /\ link = "closed" => stage = "idle"
    /\ todo # <<>> => stage \in {"writing", "half"}
    /\ stage = "half" => todo # <<>> /\ wbuf # <<>> /\ ~Fits
    /\ stage \in Reading => wbuf = <<>>
    /\ stage # "idle" => calls > 0
    /\ \A b \in late : Complete(b)

(* A header in the buffer announces more than the buffer can hold, unless  *)
(* it is the present request's, of which the rest is ahead.                *)
Residue ==
    \A i \in Heads(wbuf) :
        \/ i + wbuf[i].of > BufSize + 1
        \/ stage # "idle" /\ i + wbuf[i].of = Len(wbuf) + Len(Ahead) + 1

(* The calls which have been executed, or may be on a lost connection.     *)
Executed == {executed[i].call : i \in 1 .. Len(executed)}
Done == Executed \cup UNION {Viable(b) : b \in late}

(* Nothing belongs to a call which has not begun.                          *)
Past ==
    /\ Executed \subseteq 1 .. calls
    /\ \A s \in {wbuf, wire} \cup late : Starts(s) \subseteq 1 .. calls

(* Every header is in one place: it has been executed, or will be on one   *)
(* connection.  While writeSlow is half way, the buffer's are on the wire  *)
(* as well, where the server still waits for what follows.                 *)
Once ==
    /\ \A i, j \in 1 .. Len(executed) : executed[i].call = executed[j].call => i = j
    /\ \A b \in late :
          /\ Single(b) /\ Viable(b) \cap Executed = {}
          /\ \A c \in late : b # c => Viable(b) \cap Viable(c) = {}
    /\ Single(Kept) /\ Starts(Kept) \cap Done = {}
    /\ link = "up" =>
          /\ Single(Stream) /\ Starts(Stream) \cap Done = {}
          /\ stage = "half" => Starts(wbuf) \cap Viable(wire) = {}

(* Requests are whole.                                                     *)
Whole ==
    /\ stage = "idle" => wbuf = <<>>
    /\ link = "up" => InFull(Stream)
    /\ \A b \in late : InPlace(b)
    /\ \A i \in 1 .. Len(executed) : executed[i].whole

(* The stream is the present call's, and its reply follows the request.    *)
Own ==
    /\ link = "up" => \A i \in 1 .. Len(Stream) : Stream[i].call = calls
    /\ replies # <<>> \/ stage \in {"idle", "skipping", "result"} =>
          todo = <<>> /\ wbuf = <<>> /\ wire = <<>>
    /\ stage = "idle" => replies = <<>>
    /\ \A i \in 1 .. Len(replies) :
          /\ replies[i].call = calls
          /\ replies[i].part = IF i = 1 /\ stage \in {"writing", "waiting"}
                               THEN "name" ELSE "rest"
    /\ stage \in {"skipping", "result"} => Len(replies) <= 1
    /\ Len(replies) <= 2
    /\ replies # <<>> => calls \in Executed
    /\ \A i \in 1 .. Len(returned) :
          returned[i].by = returned[i].call /\ returned[i].call \in Executed

WritesFine == spilled = {} /\ "write" \notin slipped

IInv ==
    /\ Types /\ Shape /\ Residue /\ Past
    /\ "up" \notin spilled => Once
    /\ WritesFine => Whole
    /\ ~Upset => Own

-----------------------------------------------------------------------------
(* The bytes of a request, and its pieces.                                 *)

(* s are the bytes i .. j of call k, a request of n + 2.                   *)
AreBytes(s, k, n, i, j) ==
    /\ s \in Seq(Byte)
    /\ Len(s) = j + 1 - i
    /\ \A x \in 1 .. j + 1 - i :
          s[x].call = k /\ s[x].pos = x + i - 1 /\ s[x].of = n + 2

LEMMA BytesAre ==
    ASSUME NEW k \in CallNos, NEW n \in Nat, NEW i \in Nat \ {0}, NEW j \in Nat,
           i <= j + 1
    PROVE  AreBytes(Bytes(k, n, i, j), k, n, i, j)
<1> DEFINE e(x) == [call |-> k, pos |-> x + i - 1, of |-> n + 2]
           m == j + 1 - i
           s == [x \in 1 .. m |-> e(x)]
<1>1. m \in Nat /\ Bytes(k, n, i, j) = s
  BY DEF Bytes
<1>2. \A x \in 1 .. m : e(x) \in Byte
  BY <1>1 DEF Byte, CallNos
<1>3. s \in Seq(Byte)
  <2> HIDE DEF e, m
  <2> QED
    BY <1>1, <1>2, IsASeq
<1>4. Len(s) = m
  <2> HIDE DEF e, m
  <2> QED
    BY <1>1, <1>3, LenProperties
<1>5. \A x \in 1 .. m : s[x].call = k /\ s[x].pos = x + i - 1 /\ s[x].of = n + 2
  OBVIOUS
<1> HIDE DEF s
<1> QED
  BY <1>1, <1>3, <1>4, <1>5 DEF AreBytes

LEMMA SameBytes ==
    ASSUME NEW k, NEW n, NEW i \in Int, NEW j \in Int, NEW s, NEW t,
           AreBytes(s, k, n, i, j), AreBytes(t, k, n, i, j)
    PROVE  s = t
<1>1. /\ s \in Seq(Byte) /\ t \in Seq(Byte) /\ Len(s) = Len(t)
      /\ \A x \in 1 .. Len(s) : /\ s[x].call = t[x].call
                                /\ s[x].pos = t[x].pos
                                /\ s[x].of = t[x].of
  BY DEF AreBytes
<1>2. \A x \in 1 .. Len(s) : s[x] \in Byte /\ t[x] \in Byte
  BY <1>1, ElementOfSeq
<1>3. \A b, c \in Byte : b.call = c.call /\ b.pos = c.pos /\ b.of = c.of => b = c
  BY DEF Byte
<1>4. \A x \in 1 .. Len(s) : s[x] = t[x]
  BY <1>1, <1>2, <1>3
<1> QED
  BY <1>1, <1>4, SeqEqual

LEMMA BytesJoin ==
    ASSUME NEW k \in CallNos, NEW n \in Nat, NEW i \in Nat \ {0}, NEW j \in Nat,
           NEW h \in Nat, NEW m \in Nat, i <= j + 1, j <= m, h = j + 1
    PROVE  Bytes(k, n, i, j) \o Bytes(k, n, h, m) = Bytes(k, n, i, m)
<1> DEFINE a == Bytes(k, n, i, j)
           b == Bytes(k, n, h, m)
           c == Bytes(k, n, i, m)
<1>1. AreBytes(a, k, n, i, j)
  BY BytesAre
<1>2. AreBytes(b, k, n, j + 1, m)
  <2>1. h \in Nat \ {0} /\ h <= m + 1 /\ h = j + 1
    OBVIOUS
  <2> QED
    BY <2>1, BytesAre
<1>3. AreBytes(c, k, n, i, m)
  <2>1. i <= m + 1
    OBVIOUS
  <2> QED
    BY <2>1, BytesAre
<1> HIDE DEF a, b, c
<1>4. /\ a \o b \in Seq(Byte) /\ Len(a \o b) = Len(a) + Len(b)
      /\ \A x \in 1 .. Len(a) + Len(b) :
            (a \o b)[x] = IF x <= Len(a) THEN a[x] ELSE b[x - Len(a)]
  BY <1>1, <1>2, ConcatProperties DEF AreBytes
<1>5. Len(a) = j + 1 - i /\ Len(b) = m - j /\ Len(a) + Len(b) = m + 1 - i
  BY <1>1, <1>2 DEF AreBytes
<1>6. ASSUME NEW x \in 1 .. m + 1 - i
      PROVE  /\ (a \o b)[x].call = k
             /\ (a \o b)[x].pos = x + i - 1
             /\ (a \o b)[x].of = n + 2
  <2>1. CASE x <= Len(a)
    <3>1. x \in 1 .. j + 1 - i /\ (a \o b)[x] = a[x]
      BY <1>4, <1>5, <2>1
    <3> QED
      BY <1>1, <3>1 DEF AreBytes
  <2>2. CASE ~(x <= Len(a))
    <3> DEFINE y == x - Len(a)
    <3>1. /\ y \in 1 .. m + 1 - (j + 1) /\ y + (j + 1) - 1 = x + i - 1
          /\ (a \o b)[x] = b[y]
      BY <1>4, <1>5, <2>2
    <3> HIDE DEF y
    <3> QED
      BY <1>2, <3>1 DEF AreBytes
  <2> QED
    BY <2>1, <2>2
<1>7. AreBytes(a \o b, k, n, i, m)
  BY <1>4, <1>5, <1>6 DEF AreBytes
<1>8. a \o b = c
  <2>1. i \in Int /\ m \in Int
    OBVIOUS
  <2> QED
    BY <1>3, <1>7, <2>1, SameBytes
<1> QED
  BY <1>8 DEF a, b, c

(* The next piece: bytes p .. q of a request of n + 2.                     *)
NextIs(n, p, q) ==
    /\ n \in DataLens /\ n \in Nat /\ p \in Nat \ {0} /\ q \in Nat
    /\ calls \in CallNos
    /\ p <= q /\ q <= n + 2 /\ (p = 1 => q = 1)
    /\ Head(todo) = Bytes(calls, n, p, q)
    /\ Ahead = Bytes(calls, n, p, n + 2)
    /\ AheadOf(Tail(todo)) = Bytes(calls, n, q + 1, n + 2)
    /\ Tail(todo) \in TodoOf(calls, n)
    /\ Tail(todo) = <<>> <=> q = n + 2

LEMMA NoBytes ==
    ASSUME NEW k \in CallNos, NEW n \in Nat, NEW i \in Nat
    PROVE  Bytes(k, n, i + 1, i) = <<>>
<1>1. i + 1 \in Nat \ {0} /\ i + 1 <= i + 1 /\ i + 1 - (i + 1) = 0
  OBVIOUS
<1>2. AreBytes(Bytes(k, n, i + 1, i), k, n, i + 1, i)
  BY <1>1, BytesAre
<1> QED
  BY <1>1, <1>2, EmptySeq DEF AreBytes

LEMMA AheadFrom ==
    ASSUME NEW n \in Nat, NEW p \in Nat \ {0}, NEW q \in Nat, p <= q, calls \in CallNos,
           NEW t, t # <<>>, Head(t) = Bytes(calls, n, p, q)
    PROVE  AheadOf(t) = Bytes(calls, n, p, n + 2)
<1>1. AreBytes(Head(t), calls, n, p, q)
  BY BytesAre
<1>2. Head(t)[1].pos = p /\ Head(t)[1].of = n + 2
  <2>1. 1 \in 1 .. q + 1 - p /\ 1 + p - 1 = p
    OBVIOUS
  <2> QED
    BY <1>1, <2>1 DEF AreBytes
<1>3. (n + 2) - 2 = n
  OBVIOUS
<1> QED
  BY <1>2, <1>3 DEF AheadOf

LEMMA NextPiece ==
    ASSUME Types, todo # <<>>
    PROVE  \E n \in Nat, p \in Nat \ {0}, q \in Nat : NextIs(n, p, q)
<1>1. PICK n \in DataLens : todo \in TodoOf(calls, n)
  BY DEF Types
<1>2. n \in Nat /\ calls \in CallNos
  BY ConstantsAssumption DEF Types, CallNos
<1> DEFINE h == Bytes(calls, n, 1, 1)
           d == Bytes(calls, n, 2, n + 1)
           l == Bytes(calls, n, n + 2, n + 2)
<1>3. AheadOf(<<>>) = Bytes(calls, n, (n + 2) + 1, n + 2)
  BY <1>2, NoBytes DEF AheadOf
<1>4. n = 0 => Pieces(calls, n) = <<h, l>>
  BY DEF Pieces
<1>5. n # 0 => Pieces(calls, n) = <<h, d, l>>
  BY DEF Pieces
<1>6. n = 0 => TodoOf(calls, n) = {<<>>, <<l>>, <<h, l>>}
  <2>1. TodoOf(calls, n) = {<<>>, <<l>>, Tail(Pieces(calls, n)), Pieces(calls, n)}
    BY DEF TodoOf
  <2> HIDE DEF h, d, l
  <2>2. Tail(<<h, l>>) = <<l>>
    OBVIOUS
  <2> QED
    BY <1>4, <2>1, <2>2
<1>7. n # 0 => TodoOf(calls, n) = {<<>>, <<l>>, <<d, l>>, <<h, d, l>>}
  <2>1. TodoOf(calls, n) = {<<>>, <<l>>, Tail(Pieces(calls, n)), Pieces(calls, n)}
    BY DEF TodoOf
  <2> HIDE DEF h, d, l
  <2>2. Tail(<<h, d, l>>) = <<d, l>>
    OBVIOUS
  <2> QED
    BY <1>5, <2>1, <2>2
<1>8. AheadOf(<<l>>) = Bytes(calls, n, n + 2, n + 2)
  BY <1>2, AheadFrom
<1>9. CASE todo = <<l>>
  <2>1. Head(todo) = l /\ Tail(todo) = <<>> /\ n + 2 \in Nat \ {0}
    BY <1>2, <1>9
  <2>2. NextIs(n, n + 2, n + 2)
    <3> HIDE DEF l
    <3> QED BY <1>2, <1>3, <1>6, <1>7, <1>8, <1>9, <2>1 DEF NextIs, Ahead, l
  <2> QED
    BY <1>2, <2>2
<1>10. CASE n # 0 /\ todo = <<d, l>>
  <2>1. Head(todo) = d /\ Tail(todo) = <<l>> /\ (n + 1) + 1 = n + 2
    BY <1>2, <1>10
  <2>2. Ahead = Bytes(calls, n, 2, n + 2)
    BY <1>2, <1>10, <2>1, AheadFrom DEF Ahead
  <2>3. NextIs(n, 2, n + 1)
    BY <1>2, <1>7, <1>8, <1>10, <2>1, <2>2 DEF NextIs
  <2> QED
    BY <1>2, <2>3
<1>11. CASE n # 0 /\ todo = <<h, d, l>>
  <2>1. Head(todo) = h /\ Tail(todo) = <<d, l>>
    BY <1>11
  <2>2. AheadOf(<<d, l>>) = Bytes(calls, n, 2, n + 2)
    BY <1>2, <1>11, AheadFrom
  <2>3. Ahead = Bytes(calls, n, 1, n + 2)
    BY <1>2, <1>11, <2>1, AheadFrom DEF Ahead
  <2>4. NextIs(n, 1, 1)
    BY <1>2, <1>7, <1>11, <2>1, <2>2, <2>3 DEF NextIs
  <2> QED
    BY <1>2, <2>4
<1>12. CASE n = 0 /\ todo = <<h, l>>
  <2>1. Head(todo) = h /\ Tail(todo) = <<l>>
    BY <1>12
  <2>2. Ahead = Bytes(calls, n, 1, n + 2)
    BY <1>2, <1>12, <2>1, AheadFrom DEF Ahead
  <2>3. NextIs(n, 1, 1)
    BY <1>2, <1>6, <1>8, <1>12, <2>1, <2>2 DEF NextIs
  <2> QED
    BY <1>2, <2>3
<1> QED
  BY <1>1, <1>6, <1>7, <1>9, <1>10, <1>11, <1>12

LEMMA PieceBytes ==
    ASSUME NEW n \in Nat, NEW p \in Nat \ {0}, NEW q \in Nat, NextIs(n, p, q)
    PROVE  /\ AreBytes(Head(todo), calls, n, p, q)
           /\ AreBytes(Ahead, calls, n, p, n + 2)
           /\ AreBytes(AheadOf(Tail(todo)), calls, n, q + 1, n + 2)
           /\ Head(todo) \o AheadOf(Tail(todo)) = Ahead
<1>1. /\ n \in Nat /\ p \in Nat \ {0} /\ q \in Nat /\ n + 2 \in Nat
      /\ p <= q /\ q <= n + 2 /\ p <= q + 1 /\ p <= n + 2 + 1
      /\ q + 1 \in Nat \ {0} /\ q + 1 <= n + 2 + 1
      /\ calls \in CallNos
  BY DEF NextIs
<1>2. /\ Head(todo) = Bytes(calls, n, p, q)
      /\ Ahead = Bytes(calls, n, p, n + 2)
      /\ AheadOf(Tail(todo)) = Bytes(calls, n, q + 1, n + 2)
  BY DEF NextIs
<1> HIDE DEF NextIs
<1>3. AreBytes(Bytes(calls, n, p, q), calls, n, p, q)
  BY <1>1, BytesAre
<1>4. AreBytes(Bytes(calls, n, p, n + 2), calls, n, p, n + 2)
  BY <1>1, BytesAre
<1>5. AreBytes(Bytes(calls, n, q + 1, n + 2), calls, n, q + 1, n + 2)
  BY <1>1, BytesAre
<1>6. Bytes(calls, n, p, q) \o Bytes(calls, n, q + 1, n + 2) = Bytes(calls, n, p, n + 2)
  <2>1. ASSUME NEW k \in CallNos, NEW h \in Nat, NEW m \in Nat, h = q + 1, q <= m
        PROVE  Bytes(k, n, p, q) \o Bytes(k, n, h, m) = Bytes(k, n, p, m)
    BY SMTT(30), <1>1, <2>1, BytesJoin
  <2> QED
    BY <1>1, <2>1
<1> QED
  BY <1>2, <1>3, <1>4, <1>5, <1>6

(* Sequences of bytes, joined: what stands in front.                       *)
LEMMA Joining ==
    ASSUME NEW s \in Seq(Byte), NEW t \in Seq(Byte)
    PROVE  /\ s \o t \in Seq(Byte)
           /\ Len(s) \in Nat /\ Len(t) \in Nat /\ Len(s \o t) = Len(s) + Len(t)
           /\ s = <<>> <=> Len(s) = 0
           /\ s = <<>> => s \o t = t
           /\ t = <<>> => s \o t = s
           /\ s # <<>> => s \o t # <<>> /\ (s \o t)[1] = s[1]
           /\ \A i \in 1 .. Len(s) : (s \o t)[i] = s[i]
           /\ \A i \in 1 .. Len(t) : (s \o t)[Len(s) + i] = t[i]
<1>1. /\ s \o t \in Seq(Byte) /\ Len(s \o t) = Len(s) + Len(t)
      /\ \A i \in 1 .. Len(s) + Len(t) :
            (s \o t)[i] = IF i <= Len(s) THEN s[i] ELSE t[i - Len(s)]
  BY ConcatProperties
<1>2. Len(s) \in Nat /\ Len(t) \in Nat
  BY LenProperties
<1>3. s = <<>> <=> Len(s) = 0
  <2>1. Len(<<>>) = 0
    BY EmptySeq
  <2>2. s # <<>> => Len(s) \in Nat \ {0}
    BY EmptySeq
  <2> QED
    BY <2>1, <2>2
<1>4. s = <<>> => s \o t = t
  BY ConcatEmptySeq
<1>5. t = <<>> => s \o t = s
  BY ConcatEmptySeq
<1>6. \A i \in 1 .. Len(s) : (s \o t)[i] = s[i]
  BY <1>1, <1>2
<1>7. \A i \in 1 .. Len(t) : (s \o t)[Len(s) + i] = t[i]
  BY <1>1, <1>2
<1>8. s # <<>> => s \o t # <<>> /\ (s \o t)[1] = s[1]
  <2>1. SUFFICES ASSUME s # <<>>
                 PROVE  s \o t # <<>> /\ (s \o t)[1] = s[1]
    OBVIOUS
  <2>2. 1 \in 1 .. Len(s) /\ Len(s \o t) # 0
    BY <1>1, <1>2, <1>3, <2>1
  <2>3. Len(<<>>) = 0
    BY EmptySeq
  <2> QED
    BY <1>6, <2>2, <2>3
<1> QED
  BY <1>1, <1>2, <1>3, <1>4, <1>5, <1>6, <1>7, <1>8

LEMMA JoiningThree ==
    ASSUME NEW s \in Seq(Byte), NEW t \in Seq(Byte), NEW u \in Seq(Byte)
    PROVE  (s \o t) \o u = s \o (t \o u)
BY SMTT(30), ConcatAssociative

LEMMA AheadTypes ==
    ASSUME Types
    PROVE  Ahead \in Seq(Byte) /\ (todo = <<>> <=> Ahead = <<>>)
<1>1. CASE todo = <<>>
  BY <1>1, EmptySeq DEF Ahead, AheadOf
<1>2. CASE todo # <<>>
  <2>1. PICK n \in Nat, p \in Nat \ {0}, q \in Nat : NextIs(n, p, q)
    BY <1>2, NextPiece
  <2>2. AreBytes(Ahead, calls, n, p, n + 2)
    BY <2>1, PieceBytes
  <2>3. Ahead \in Seq(Byte) /\ Len(Ahead) = n + 2 + 1 - p
    BY <2>2 DEF AreBytes
  <2>4. n + 2 + 1 - p # 0
    BY <2>1 DEF NextIs
  <2>5. Len(<<>>) = 0
    BY EmptySeq
  <2> QED
    BY <1>2, <2>3, <2>4, <2>5
<1> QED
  BY <1>1, <1>2
LEMMA Splitting ==
    ASSUME NEW s \in Seq(Byte), NEW b \in Nat, b <= Len(s)
    PROVE  /\ SubSeq(s, 1, b) \in Seq(Byte) /\ SubSeq(s, b + 1, Len(s)) \in Seq(Byte)
           /\ Len(SubSeq(s, 1, b)) = b /\ Len(SubSeq(s, b + 1, Len(s))) = Len(s) - b
           /\ SubSeq(s, 1, b) \o SubSeq(s, b + 1, Len(s)) = s
           /\ \A i \in 1 .. b : SubSeq(s, 1, b)[i] = s[i]
           /\ \A i \in 1 .. Len(s) - b : SubSeq(s, b + 1, Len(s))[i] = s[b + i]
<1>1. Len(s) \in Nat /\ \A i \in 1 .. Len(s) : s[i] \in Byte
  BY LenProperties, ElementOfSeq
<1>2. /\ SubSeq(s, 1, b) \in Seq(Byte) /\ Len(SubSeq(s, 1, b)) = b
      /\ \A i \in 1 .. b : SubSeq(s, 1, b)[i] = s[i]
  <2>1. \A i \in 1 .. b : s[i] \in Byte
    BY <1>1
  <2> QED
    BY <2>1, SubSeqProperties
<1>3. /\ SubSeq(s, b + 1, Len(s)) \in Seq(Byte)
      /\ Len(SubSeq(s, b + 1, Len(s))) = Len(s) - b
      /\ \A i \in 1 .. Len(s) - b : SubSeq(s, b + 1, Len(s))[i] = s[b + i]
  <2> DEFINE m == b + 1
             k == Len(s)
  <2>1. m \in Int /\ k \in Int /\ \A i \in m .. k : s[i] \in Byte
    BY <1>1
  <2>2. k - m + 1 = k - b /\ (~(m <= k) => k - b = 0) /\ \A i \in Int : m + i - 1 = b + i
    BY <1>1
  <2> HIDE DEF m, k
  <2>3. /\ SubSeq(s, m, k) \in Seq(Byte)
        /\ Len(SubSeq(s, m, k)) = IF m <= k THEN k - m + 1 ELSE 0
        /\ \A i \in 1 .. k - m + 1 : SubSeq(s, m, k)[i] = s[m + i - 1]
    BY SMTT(30), <2>1, SubSeqProperties
  <2>4. Len(SubSeq(s, m, k)) = k - b
    BY <2>2, <2>3
  <2>5. \A i \in 1 .. k - b : SubSeq(s, m, k)[i] = s[b + i]
    BY <2>2, <2>3
  <2> QED
    BY <2>3, <2>4, <2>5 DEF m, k
<1>4. SubSeq(s, 1, b) \o SubSeq(s, b + 1, Len(s)) = s
  <2> DEFINE x == SubSeq(s, 1, b)
             y == SubSeq(s, b + 1, Len(s))
  <2>1. /\ x \in Seq(Byte) /\ y \in Seq(Byte) /\ Len(x) = b /\ Len(y) = Len(s) - b
        /\ \A i \in 1 .. b : x[i] = s[i]
        /\ \A i \in 1 .. Len(s) - b : y[i] = s[b + i]
    BY <1>2, <1>3
  <2> HIDE DEF x, y
  <2>2. /\ x \o y \in Seq(Byte) /\ Len(x \o y) = Len(s)
        /\ \A i \in 1 .. Len(s) : (x \o y)[i] = IF i <= b THEN x[i] ELSE y[i - b]
    <3>1. Len(x) + Len(y) = Len(s)
      BY <1>1, <2>1
    <3>2. /\ x \o y \in Seq(Byte) /\ Len(x \o y) = Len(x) + Len(y)
          /\ \A i \in 1 .. Len(x) + Len(y) :
                (x \o y)[i] = IF i <= Len(x) THEN x[i] ELSE y[i - Len(x)]
      BY <2>1, ConcatProperties
    <3> QED
      BY <2>1, <3>1, <3>2
  <2>3. ASSUME NEW i \in 1 .. Len(s) PROVE (x \o y)[i] = s[i]
    <3>1. CASE i <= b
      BY <1>1, <2>1, <2>2, <3>1
    <3>2. CASE ~(i <= b)
      <4>1. i - b \in 1 .. Len(s) - b /\ b + (i - b) = i
        BY <1>1, <3>2
      <4> QED
        BY <2>1, <2>2, <3>2, <4>1
    <3> QED
      BY <3>1, <3>2
  <2>4. x \o y = s
    BY <2>2, <2>3, SeqEqual
  <2> QED
    BY <2>4 DEF x, y
<1> QED
  BY <1>2, <1>3, <1>4
-----------------------------------------------------------------------------
(* Which calls start in a sequence of bytes.                               *)

(* A place in two sequences joined is a place in one of them.              *)
LEMMA Places ==
    ASSUME NEW s \in Seq(Byte), NEW t \in Seq(Byte), NEW i \in 1 .. Len(s \o t)
    PROVE  \/ i \in 1 .. Len(s) /\ (s \o t)[i] = s[i]
           \/ i - Len(s) \in 1 .. Len(t) /\ (s \o t)[i] = t[i - Len(s)]
<1>1. /\ Len(s) \in Nat /\ Len(t) \in Nat /\ Len(s \o t) = Len(s) + Len(t)
      /\ \A x \in 1 .. Len(s) : (s \o t)[x] = s[x]
      /\ \A x \in 1 .. Len(t) : (s \o t)[Len(s) + x] = t[x]
  BY Joining
<1>2. CASE i <= Len(s)
  BY <1>1, <1>2
<1>3. CASE ~(i <= Len(s))
  <2>1. i - Len(s) \in 1 .. Len(t) /\ Len(s) + (i - Len(s)) = i
    BY <1>1, <1>3
  <2> QED
    BY <1>1, <2>1
<1> QED
  BY <1>2, <1>3

LEMMA HeadsJoin ==
    ASSUME NEW s \in Seq(Byte), NEW t \in Seq(Byte)
    PROVE  /\ \A i \in Heads(s) : i \in Heads(s \o t) /\ (s \o t)[i] = s[i]
           /\ \A i \in Heads(t) : Len(s) + i \in Heads(s \o t) /\ (s \o t)[Len(s) + i] = t[i]
           /\ \A i \in Heads(s \o t) :
                 \/ i \in Heads(s) /\ (s \o t)[i] = s[i]
                 \/ i - Len(s) \in Heads(t) /\ (s \o t)[i] = t[i - Len(s)]
<1>1. /\ Len(s) \in Nat /\ Len(t) \in Nat /\ Len(s \o t) = Len(s) + Len(t)
      /\ \A x \in 1 .. Len(s) : (s \o t)[x] = s[x]
      /\ \A x \in 1 .. Len(t) : (s \o t)[Len(s) + x] = t[x]
  BY Joining
<1>2. \A i \in Heads(s) : i \in Heads(s \o t) /\ (s \o t)[i] = s[i]
  BY <1>1 DEF Heads
<1>3. \A i \in Heads(t) : Len(s) + i \in Heads(s \o t) /\ (s \o t)[Len(s) + i] = t[i]
  BY <1>1 DEF Heads
<1>4. ASSUME NEW i \in Heads(s \o t)
      PROVE  \/ i \in Heads(s) /\ (s \o t)[i] = s[i]
             \/ i - Len(s) \in Heads(t) /\ (s \o t)[i] = t[i - Len(s)]
  <2>1. i \in 1 .. Len(s \o t) /\ (s \o t)[i].pos = 1
    BY DEF Heads
  <2>2. \/ i \in 1 .. Len(s) /\ (s \o t)[i] = s[i]
        \/ i - Len(s) \in 1 .. Len(t) /\ (s \o t)[i] = t[i - Len(s)]
    BY <2>1, Places
  <2> QED
    BY <2>1, <2>2 DEF Heads
<1> QED
  BY <1>2, <1>3, <1>4

LEMMA HeadTypes ==
    ASSUME NEW s \in Seq(Byte)
    PROVE  /\ Len(s) \in Nat
           /\ \A i \in 1 .. Len(s) : s[i] \in Byte
           /\ \A i \in Heads(s) : i \in 1 .. Len(s) /\ s[i] \in Byte /\ s[i].of \in Nat \ {0, 1}
<1>1. Len(s) \in Nat /\ \A i \in 1 .. Len(s) : s[i] \in Byte
  BY LenProperties, ElementOfSeq
<1> QED
  BY <1>1 DEF Heads, Byte

LEMMA NoStarts ==
    Heads(<<>>) = {} /\ Starts(<<>>) = {} /\ Viable(<<>>) = {} /\ Single(<<>>)
<1>1. Len(<<>>) = 0
  BY EmptySeq
<1>2. Heads(<<>>) = {}
  BY <1>1 DEF Heads
<1> QED
  BY <1>2 DEF Starts, Viable, Single

LEMMA StartsJoin ==
    ASSUME NEW s \in Seq(Byte), NEW t \in Seq(Byte)
    PROVE  Starts(s \o t) = Starts(s) \cup Starts(t)
<1> DEFINE u == s \o t
<1>1. /\ \A i \in Heads(s) : i \in Heads(u) /\ u[i] = s[i]
      /\ \A i \in Heads(t) : Len(s) + i \in Heads(u) /\ u[Len(s) + i] = t[i]
      /\ \A i \in Heads(u) :
            \/ i \in Heads(s) /\ u[i] = s[i]
            \/ i - Len(s) \in Heads(t) /\ u[i] = t[i - Len(s)]
  BY HeadsJoin
<1> HIDE DEF u
<1>2. Starts(s) \subseteq Starts(u) /\ Starts(t) \subseteq Starts(u)
  BY <1>1 DEF Starts
<1>3. ASSUME NEW k \in Starts(u) PROVE k \in Starts(s) \cup Starts(t)
  <2>1. PICK i \in Heads(u) : k = u[i].call
    BY DEF Starts
  <2> QED
    BY <1>1, <2>1 DEF Starts
<1>4. Starts(u) = Starts(s) \cup Starts(t)
  BY <1>2, <1>3
<1> QED
  BY <1>4 DEF u

LEMMA SingleJoin ==
    ASSUME NEW s \in Seq(Byte), NEW t \in Seq(Byte)
    PROVE  Single(s \o t) <=> Single(s) /\ Single(t) /\ Starts(s) \cap Starts(t) = {}
<1> DEFINE u == s \o t
<1>1. /\ \A i \in Heads(s) : i \in Heads(u) /\ u[i] = s[i]
      /\ \A i \in Heads(t) : Len(s) + i \in Heads(u) /\ u[Len(s) + i] = t[i]
      /\ \A i \in Heads(u) :
            \/ i \in Heads(s) /\ u[i] = s[i]
            \/ i - Len(s) \in Heads(t) /\ u[i] = t[i - Len(s)]
  BY HeadsJoin
<1>2. /\ Len(s) \in Nat /\ \A i \in Heads(s) : i \in 1 .. Len(s)
      /\ \A i \in Heads(t) : i \in 1 .. Len(t)
      /\ \A i \in Heads(u) : i \in 1 .. Len(u)
      /\ Len(t) \in Nat /\ Len(u) \in Nat
  <2>1. u \in Seq(Byte)
    BY Joining
  <2> QED
    BY <2>1, HeadTypes
<1> HIDE DEF u
<1>3. ASSUME Single(u) PROVE Single(s) /\ Single(t) /\ Starts(s) \cap Starts(t) = {}
  <2>1. Single(s)
    BY <1>1, <1>3 DEF Single
  <2>2. Single(t)
    <3>1. SUFFICES ASSUME NEW i \in Heads(t), NEW j \in Heads(t), t[i].call = t[j].call
                   PROVE  i = j
      BY DEF Single
    <3> DEFINE x == Len(s) + i
               y == Len(s) + j
    <3>2. x \in Heads(u) /\ u[x] = t[i] /\ y \in Heads(u) /\ u[y] = t[j]
      BY <1>1
    <3>3. i \in Nat /\ j \in Nat /\ Len(s) \in Nat
      BY <1>2
    <3>4. x = y => i = j
      BY <3>3
    <3> HIDE DEF x, y
    <3>5. x = y
      BY <1>3, <3>1, <3>2 DEF Single
    <3> QED
      BY <3>4, <3>5
  <2>3. ASSUME NEW k \in Starts(s), k \in Starts(t) PROVE FALSE
    <3>1. PICK i \in Heads(s), j \in Heads(t) : k = s[i].call /\ k = t[j].call
      BY <2>3 DEF Starts
    <3> DEFINE y == Len(s) + j
    <3>2. i \in Heads(u) /\ u[i] = s[i] /\ y \in Heads(u) /\ u[y] = t[j]
      BY <1>1
    <3>3. i \in 1 .. Len(s) /\ j \in 1 .. Len(t) /\ Len(s) \in Nat /\ Len(t) \in Nat
      BY <1>2
    <3>4. i # y
      BY <3>3
    <3> HIDE DEF y
    <3> QED
      BY <1>3, <3>1, <3>2, <3>4 DEF Single
  <2> QED
    BY <2>1, <2>2, <2>3
<1>4. ASSUME Single(s), Single(t), Starts(s) \cap Starts(t) = {} PROVE Single(u)
  <2>1. SUFFICES ASSUME NEW i \in Heads(u), NEW j \in Heads(u), u[i].call = u[j].call
                 PROVE  i = j
    BY DEF Single
  <2>2. CASE i \in Heads(s) /\ u[i] = s[i] /\ j \in Heads(s) /\ u[j] = s[j]
    BY <1>4, <2>1, <2>2 DEF Single
  <2>3. CASE /\ i - Len(s) \in Heads(t) /\ u[i] = t[i - Len(s)]
             /\ j - Len(s) \in Heads(t) /\ u[j] = t[j - Len(s)]
    <3>1. i - Len(s) = j - Len(s)
      BY <1>4, <2>1, <2>3 DEF Single
    <3> QED
      BY <1>2, <3>1
  <2>4. CASE i \in Heads(s) /\ u[i] = s[i] /\ j - Len(s) \in Heads(t) /\ u[j] = t[j - Len(s)]
    <3>1. u[i].call \in Starts(s) /\ u[j].call \in Starts(t)
      BY <2>4 DEF Starts
    <3> QED
      BY <1>4, <2>1, <3>1
  <2>5. CASE j \in Heads(s) /\ u[j] = s[j] /\ i - Len(s) \in Heads(t) /\ u[i] = t[i - Len(s)]
    <3>1. u[j].call \in Starts(s) /\ u[i].call \in Starts(t)
      BY <2>5 DEF Starts
    <3> QED
      BY <1>4, <2>1, <3>1
  <2> QED
    BY <1>1, <2>2, <2>3, <2>4, <2>5
<1>5. Single(u) <=> Single(s) /\ Single(t) /\ Starts(s) \cap Starts(t) = {}
  BY <1>3, <1>4
<1> QED
  BY <1>5 DEF u

LEMMA ViableStarts ==
    ASSUME NEW s \in Seq(Byte)
    PROVE  Viable(s) \subseteq Starts(s)
BY DEF Viable, Starts

(* A header has no fewer bytes after it when more are added.               *)
LEMMA ViableJoin ==
    ASSUME NEW s \in Seq(Byte), NEW t \in Seq(Byte)
    PROVE  /\ Viable(s) \subseteq Viable(s \o t)
           /\ Viable(t) \subseteq Viable(s \o t)
           /\ Viable(s \o t) \subseteq Starts(s) \cup Viable(t)
<1> DEFINE u == s \o t
<1>1. /\ \A i \in Heads(s) : i \in Heads(u) /\ u[i] = s[i]
      /\ \A i \in Heads(t) : Len(s) + i \in Heads(u) /\ u[Len(s) + i] = t[i]
      /\ \A i \in Heads(u) :
            \/ i \in Heads(s) /\ u[i] = s[i]
            \/ i - Len(s) \in Heads(t) /\ u[i] = t[i - Len(s)]
  BY HeadsJoin
<1>2. u \in Seq(Byte) /\ Len(u) = Len(s) + Len(t)
  BY Joining
<1>3. /\ Len(s) \in Nat /\ Len(t) \in Nat
      /\ \A i \in Heads(s) : i \in 1 .. Len(s) /\ s[i].of \in Nat
      /\ \A i \in Heads(t) : i \in 1 .. Len(t) /\ t[i].of \in Nat
      /\ \A i \in Heads(u) : i \in 1 .. Len(u) /\ u[i].of \in Nat
  <2>1. Nat \ {0, 1} \subseteq Nat
    OBVIOUS
  <2> QED
    BY <1>2, <2>1, HeadTypes
<1> HIDE DEF u
<1>4. ASSUME NEW k \in Viable(s) PROVE k \in Viable(u)
  <2>1. PICK i \in Heads(s) : k = s[i].call /\ i + s[i].of <= Len(s) + 1
    BY DEF Viable
  <2>2. i \in Heads(u) /\ u[i] = s[i] /\ i + u[i].of <= Len(u) + 1
    BY <1>1, <1>2, <1>3, <2>1
  <2> QED
    BY <2>1, <2>2 DEF Viable
<1>5. ASSUME NEW k \in Viable(t) PROVE k \in Viable(u)
  <2>1. PICK i \in Heads(t) : k = t[i].call /\ i + t[i].of <= Len(t) + 1
    BY DEF Viable
  <2>2. /\ Len(s) + i \in Heads(u) /\ u[Len(s) + i] = t[i]
        /\ (Len(s) + i) + u[Len(s) + i].of <= Len(u) + 1
    BY SMTT(30), <1>1, <1>2, <1>3, <2>1
  <2> QED
    BY <2>1, <2>2 DEF Viable
<1>6. ASSUME NEW k \in Viable(u) PROVE k \in Starts(s) \cup Viable(t)
  <2>1. PICK i \in Heads(u) : k = u[i].call /\ i + u[i].of <= Len(u) + 1
    BY DEF Viable
  <2>2. CASE i \in Heads(s) /\ u[i] = s[i]
    BY <2>1, <2>2 DEF Starts
  <2>3. CASE i - Len(s) \in Heads(t) /\ u[i] = t[i - Len(s)]
    <3>1. (i - Len(s)) + t[i - Len(s)].of <= Len(t) + 1
      BY SMTT(30), <1>2, <1>3, <2>1, <2>3
    <3> QED
      BY <2>1, <2>3, <3>1 DEF Viable
  <2> QED
    BY <1>1, <2>2, <2>3
<1>7. /\ Viable(s) \subseteq Viable(u) /\ Viable(t) \subseteq Viable(u)
      /\ Viable(u) \subseteq Starts(s) \cup Viable(t)
  BY <1>4, <1>5, <1>6
<1> QED
  BY <1>7 DEF u

(* A prefix of some bytes is what comes before the rest of them.           *)
LEMMA PrefixOf ==
    ASSUME NEW s \in Seq(Byte), NEW b \in Prefixes(s)
    PROVE  \E t \in Seq(Byte) : b \in Seq(Byte) /\ b \o t = s
<1>1. PICK i \in 0 .. Len(s) : b = SubSeq(s, 1, i)
  BY DEF Prefixes
<1>2. i \in Nat /\ i <= Len(s)
  BY <1>1, LenProperties
<1> QED
  BY <1>1, <1>2, Splitting

(* The first request of some bytes, and what comes after it.               *)
LEMMA FirstRequest ==
    ASSUME NEW s \in Seq(Byte), Complete(s)
    PROVE  \E h \in Seq(Byte) :
              /\ After(s) \in Seq(Byte) /\ h \o After(s) = s
              /\ Len(h) = s[1].of /\ s[1].of \in Nat \ {0, 1}
              /\ 1 \in 1 .. Len(s) /\ s[1] \in Byte /\ s[1].pos = 1
              /\ s[1].call \in Starts(h) /\ s[1].call \in Viable(h)
<1>1. s # <<>> /\ s[1].pos = 1 /\ Len(s) >= s[1].of
  BY DEF Complete
<1>2. Len(s) \in Nat /\ Len(s) # 0
  BY <1>1, Joining
<1>3. 1 \in 1 .. Len(s) /\ s[1] \in Byte /\ s[1].of \in Nat \ {0, 1}
  <2>1. 1 \in 1 .. Len(s)
    BY <1>2
  <2>2. s[1] \in Byte
    BY <2>1, HeadTypes
  <2> QED
    BY <2>1, <2>2 DEF Byte
<1> DEFINE n == s[1].of
           h == SubSeq(s, 1, n)
<1>4. /\ h \in Seq(Byte) /\ After(s) \in Seq(Byte) /\ Len(h) = n /\ h \o After(s) = s
      /\ \A i \in 1 .. n : h[i] = s[i]
  <2>1. n \in Nat /\ n <= Len(s)
    BY <1>1, <1>2, <1>3
  <2> QED
    BY <2>1, Splitting DEF After
<1>5. 1 \in Heads(h) /\ h[1] = s[1] /\ 1 + h[1].of <= Len(h) + 1
  <2>1. 1 \in 1 .. n
    BY <1>3
  <2>2. h[1] = s[1] /\ 1 \in 1 .. Len(h) /\ Len(h) = n
    BY <1>4, <2>1
  <2>3. 1 + n <= n + 1
    BY <1>3
  <2> HIDE DEF n, h
  <2>4. h[1].of = n /\ h[1].pos = 1
    BY <1>1, <2>2 DEF n
  <2> QED
    BY <2>2, <2>3, <2>4 DEF Heads
<1>6. s[1].call \in Starts(h) /\ s[1].call \in Viable(h)
  BY <1>5 DEF Starts, Viable
<1> QED
  BY <1>1, <1>3, <1>4, <1>6

LEMMA AfterFirst ==
    ASSUME NEW s \in Seq(Byte), Complete(s)
    PROVE  /\ After(s) \in Seq(Byte)
           /\ Starts(After(s)) \subseteq Starts(s) /\ Viable(After(s)) \subseteq Viable(s)
           /\ s[1].call \in Starts(s) /\ s[1].call \in Viable(s)
           /\ Single(s) => Single(After(s)) /\ s[1].call \notin Starts(After(s))
<1>1. PICK h \in Seq(Byte) :
              /\ After(s) \in Seq(Byte) /\ h \o After(s) = s
              /\ s[1].call \in Starts(h) /\ s[1].call \in Viable(h)
  BY FirstRequest
<1>2. Starts(s) = Starts(h) \cup Starts(After(s))
  BY <1>1, StartsJoin
<1>3. Single(s) => Single(After(s)) /\ Starts(h) \cap Starts(After(s)) = {}
  <2> DEFINE a == After(s)
  <2> HIDE DEF a
  <2>1. a \in Seq(Byte) /\ h \o a = s
    BY <1>1 DEF a
  <2>2. Single(h \o a) => Single(a) /\ Starts(h) \cap Starts(a) = {}
    BY <2>1, SingleJoin
  <2> QED
    BY <2>1, <2>2 DEF a
<1>4. Viable(h) \subseteq Viable(s) /\ Viable(After(s)) \subseteq Viable(s)
  BY <1>1, ViableJoin
<1> QED
  BY <1>1, <1>2, <1>3, <1>4

-----------------------------------------------------------------------------
(* Requests which are in their places.                                     *)

LEMMA PlacesTypes ==
    ASSUME NEW s \in Seq(Byte), NEW i \in 1 .. Len(s)
    PROVE  s[i].pos \in Nat \ {0} /\ s[i].of \in Nat \ {0, 1} /\ i \in Nat /\ Len(s) \in Nat
<1>1. s[i] \in Byte /\ Len(s) \in Nat
  BY HeadTypes
<1> QED
  BY SMTT(30), <1>1 DEF Byte

LEMMA InPlaceFront ==
    ASSUME NEW s \in Seq(Byte), NEW t \in Seq(Byte), InPlace(s \o t)
    PROVE  InPlace(s)
<1> DEFINE u == s \o t
<1>1. /\ Len(s) \in Nat /\ Len(t) \in Nat /\ Len(u) = Len(s) + Len(t)
      /\ \A i \in 1 .. Len(s) : u[i] = s[i]
  BY Joining
<1>2. InPlace(u)
  OBVIOUS
<1> HIDE DEF u
<1>3. ASSUME NEW i \in 1 .. Len(s)
      PROVE  /\ s[i].pos <= s[i].of
             /\ \A q \in 1 .. s[i].of : i + q - s[i].pos <= Len(s) => Belongs(s, i, q)
  <2>1. i \in 1 .. Len(u) /\ u[i] = s[i]
    BY <1>1
  <2>2. s[i].pos \in Nat /\ s[i].of \in Nat /\ i \in Nat
    BY PlacesTypes
  <2>3. ASSUME NEW q \in 1 .. s[i].of, i + q - s[i].pos <= Len(s)
        PROVE  Belongs(s, i, q)
    <3> DEFINE x == i + q - s[i].pos
    <3>1. x \in Int /\ x <= Len(s) /\ x <= Len(u)
      BY SMTT(30), <1>1, <2>2, <2>3
    <3>2. q \in 1 .. u[i].of /\ i + q - u[i].pos <= Len(u)
      BY <2>1, <3>1
    <3>3. Belongs(u, i, q)
      BY <1>2, <2>1, <3>2 DEF InPlace
    <3>4. x >= 1 /\ u[x].call = s[i].call /\ u[x].pos = q /\ u[x].of = s[i].of
      BY <2>1, <3>3 DEF Belongs
    <3>5. u[x] = s[x]
      BY <1>1, <3>1, <3>4
    <3> QED
      BY <3>4, <3>5 DEF Belongs
  <2>4. s[i].pos <= s[i].of
    BY <1>2, <2>1 DEF InPlace
  <2> QED
    BY <2>3, <2>4
<1> QED
  BY <1>3 DEF InPlace

LEMMA InFullJoin ==
    ASSUME NEW s \in Seq(Byte), NEW t \in Seq(Byte), InFull(s), InFull(t)
    PROVE  InFull(s \o t)
<1> DEFINE u == s \o t
<1>1. /\ Len(s) \in Nat /\ Len(t) \in Nat /\ Len(u) = Len(s) + Len(t)
      /\ \A i \in 1 .. Len(s) : u[i] = s[i]
      /\ \A i \in 1 .. Len(t) : u[Len(s) + i] = t[i]
  BY Joining
<1>2. \A i \in 1 .. Len(u) : \/ i \in 1 .. Len(s) /\ u[i] = s[i]
                             \/ i - Len(s) \in 1 .. Len(t) /\ u[i] = t[i - Len(s)]
  BY Places
<1> HIDE DEF u
<1> DEFINE Fine(i) ==
               /\ u[i].pos <= u[i].of
               /\ \A q \in 1 .. u[i].of : Belongs(u, i, q)
               /\ i + u[i].of - u[i].pos <= Len(u)
<1>3. ASSUME NEW i \in 1 .. Len(s), u[i] = s[i] PROVE Fine(i)
  <2>1. s[i].pos \in Nat /\ s[i].of \in Nat /\ i \in Nat
    BY PlacesTypes
  <2>2. /\ s[i].pos <= s[i].of /\ i + s[i].of - s[i].pos <= Len(s)
        /\ \A q \in 1 .. s[i].of : i + q - s[i].pos <= Len(s) => Belongs(s, i, q)
    BY DEF InFull, InPlace
  <2>3. ASSUME NEW q \in 1 .. s[i].of PROVE Belongs(u, i, q)
    <3> DEFINE x == i + q - s[i].pos
    <3>1. x \in Int /\ x <= Len(s)
      BY SMTT(30), <1>1, <2>1, <2>2
    <3>2. x >= 1 /\ s[x].call = s[i].call /\ s[x].pos = q /\ s[x].of = s[i].of
      BY <2>2, <3>1 DEF Belongs
    <3>3. u[x] = s[x]
      BY <1>1, <3>1, <3>2
    <3> QED
      BY <1>3, <3>2, <3>3 DEF Belongs
  <2>4. i + s[i].of - s[i].pos <= Len(u)
    BY <1>1, <2>1, <2>2
  <2> QED
    BY <1>3, <2>2, <2>3, <2>4
<1>4. ASSUME NEW i \in 1 .. Len(u), i - Len(s) \in 1 .. Len(t), u[i] = t[i - Len(s)]
      PROVE  Fine(i)
  <2> DEFINE j == i - Len(s)
  <2>1. t[j].pos \in Nat /\ t[j].of \in Nat /\ j \in Nat /\ i = Len(s) + j /\ j \in 1 .. Len(t)
    BY <1>1, <1>4, PlacesTypes
  <2>2. u[i] = t[j]
    BY <1>4
  <2> HIDE DEF j
  <2>3. /\ t[j].pos <= t[j].of /\ j + t[j].of - t[j].pos <= Len(t)
        /\ \A q \in 1 .. t[j].of : j + q - t[j].pos <= Len(t) => Belongs(t, j, q)
    BY <2>1 DEF InFull, InPlace
  <2>4. ASSUME NEW q \in 1 .. t[j].of PROVE Belongs(u, i, q)
    <3> DEFINE x == j + q - t[j].pos
    <3>1. x \in Int /\ x <= Len(t) /\ i + q - t[j].pos = Len(s) + x
      <4>1. j + t[j].of - t[j].pos <= Len(t) /\ q \in Nat /\ q <= t[j].of
        BY <2>1, <2>3
      <4>2. Len(s) \in Nat /\ Len(t) \in Nat
        BY <1>1
      <4> DEFINE l == Len(t)
                 m == Len(s)
                 p == t[j].pos
                 o == t[j].of
      <4>3. /\ l \in Nat /\ m \in Nat /\ p \in Nat /\ o \in Nat /\ q \in Nat /\ j \in Nat
            /\ j + o - p <= l /\ q <= o /\ i = m + j
        BY <2>1, <4>1, <4>2
      <4> HIDE DEF l, m, p, o
      <4>4. j + q - p \in Int /\ j + q - p <= l /\ i + q - p = m + (j + q - p)
        BY <4>3
      <4> QED
        BY <4>4 DEF l, m, p, o
    <3>2. x >= 1 /\ t[x].call = t[j].call /\ t[x].pos = q /\ t[x].of = t[j].of
      BY <2>3, <3>1 DEF Belongs
    <3>3. u[Len(s) + x] = t[x] /\ Len(s) + x >= 1
      BY SMTT(30), <1>1, <3>1, <3>2
    <3> QED
      BY <2>2, <3>1, <3>2, <3>3 DEF Belongs
  <2>5. i + t[j].of - t[j].pos <= Len(u)
    BY SMTT(30), <1>1, <2>1, <2>3
  <2> QED
    BY <2>2, <2>3, <2>4, <2>5
<1>5. \A i \in 1 .. Len(u) : Fine(i)
  <2>1. TAKE i \in 1 .. Len(u)
  <2> HIDE DEF Fine
  <2> QED
    BY <1>2, <1>3, <1>4
<1>6. InFull(u)
  BY <1>5 DEF InFull, InPlace
<1> QED
  BY <1>6 DEF u

(* The bytes of one request, all of them.                                  *)
LEMMA NewRequest ==
    ASSUME NEW k \in CallNos, NEW n \in Nat, NEW s, AreBytes(s, k, n, 1, n + 2)
    PROVE  InFull(s) /\ Single(s) /\ Starts(s) = {k} /\ s \in Seq(Byte) /\ Len(s) = n + 2
<1>1. /\ s \in Seq(Byte) /\ Len(s) = n + 2
      /\ \A x \in 1 .. n + 2 : s[x].call = k /\ s[x].pos = x /\ s[x].of = n + 2
  <2>1. n + 2 + 1 - 1 = n + 2 /\ \A x \in Int : x + 1 - 1 = x
    OBVIOUS
  <2> QED
    BY <2>1 DEF AreBytes
<1>2. Heads(s) = {1}
  BY <1>1 DEF Heads
<1>3. 1 \in 1 .. n + 2
  OBVIOUS
<1>4. Starts(s) = {k} /\ Single(s)
  BY <1>1, <1>2, <1>3 DEF Starts, Single
<1>5. InFull(s)
  BY <1>1 DEF InFull, InPlace, Belongs
<1> QED
  BY <1>1, <1>4, <1>5

(* Bytes which are in full begin with a header.                            *)
LEMMA InFullBegins ==
    ASSUME NEW s \in Seq(Byte), InFull(s), s # <<>>
    PROVE  1 \in 1 .. Len(s) /\ s[1].pos = 1 /\ s[1].call \in Starts(s)
<1>1. 1 \in 1 .. Len(s)
  <2>1. Len(s) \in Nat /\ Len(s) # 0
    BY Joining
  <2> QED
    BY <2>1
<1>2. s[1].pos \in Nat \ {0} /\ s[1].of \in Nat \ {0, 1} /\ Len(s) \in Nat
  BY <1>1, PlacesTypes
<1>3. 1 \in 1 .. s[1].of /\ 1 + 1 - s[1].pos <= Len(s)
  BY <1>1, <1>2
<1>4. Belongs(s, 1, 1)
  BY <1>1, <1>3 DEF InFull, InPlace
<1>5. s[1].pos = 1
  BY <1>2, <1>4 DEF Belongs
<1>6. 1 \in Heads(s)
  BY <1>1, <1>5 DEF Heads
<1> QED
  BY <1>1, <1>5, <1>6 DEF Starts

(* A request which is read off bytes in their places is whole, and leaves  *)
(* the others in theirs.                                                   *)
LEMMA FirstIsWhole ==
    ASSUME NEW s \in Seq(Byte), Complete(s), InPlace(s)
    PROVE  /\ Parsed(s).whole /\ InPlace(After(s))
           /\ InFull(s) => InFull(After(s))
<1> DEFINE a == After(s)
           n == s[1].of
<1>1. PICK h \in Seq(Byte) :
              /\ a \in Seq(Byte) /\ h \o a = s /\ Len(h) = n /\ n \in Nat \ {0, 1}
              /\ 1 \in 1 .. Len(s) /\ s[1].pos = 1
  BY FirstRequest
<1>2. Len(s) = n + Len(a) /\ Len(a) \in Nat /\ Len(s) \in Nat
  BY <1>1, Joining, HeadTypes
<1>3. ASSUME NEW i \in 1 .. Len(a) PROVE n + i \in 1 .. Len(s) /\ s[n + i] = a[i]
  <2>1. (h \o a)[n + i] = a[i]
    <3> HIDE DEF a, n
    <3>1. h \in Seq(Byte) /\ a \in Seq(Byte) /\ Len(h) = n
      BY <1>1
    <3>2. \A x \in 1 .. Len(a) : (h \o a)[Len(h) + x] = a[x]
      BY <3>1, Joining
    <3> QED
      BY <3>1, <3>2
  <2> QED
    BY SMTT(30), <1>1, <1>2, <2>1
<1>4. ASSUME NEW q \in 1 .. n
      PROVE  s[q].call = s[1].call /\ s[q].pos = q /\ s[q].of = n
  <2>1. q \in Nat /\ 1 + q - 1 = q /\ q <= Len(s)
    BY <1>1, <1>2
  <2>2. 1 + q - s[1].pos <= Len(s) /\ q \in 1 .. s[1].of
    BY <1>1, <2>1
  <2>3. Belongs(s, 1, q)
    BY <1>1, <2>2 DEF InPlace
  <2> QED
    BY <1>1, <2>1, <2>3 DEF Belongs
<1>5. Parsed(s).whole
  BY <1>4 DEF Parsed
<1> HIDE DEF a, n
<1>6. ASSUME NEW i \in 1 .. Len(a)
      PROVE  /\ a[i].pos <= a[i].of
             /\ \A q \in 1 .. a[i].of : i + q - a[i].pos <= Len(a) => Belongs(a, i, q)
  <2>1. a[i].pos \in Nat \ {0} /\ a[i].of \in Nat /\ i \in Nat
    BY <1>1, PlacesTypes
  <2> DEFINE j == n + i
  <2>2. j \in 1 .. Len(s) /\ s[j] = a[i]
    BY <1>3
  <2>3. j \in Nat /\ j = n + i /\ j > n
    BY <1>1, <2>1
  <2> HIDE DEF j
  <2>4. /\ s[j].pos <= s[j].of
        /\ \A q \in 1 .. s[j].of : j + q - s[j].pos <= Len(s) => Belongs(s, j, q)
    BY <2>2 DEF InPlace
  <2>5. ASSUME NEW q \in 1 .. a[i].of, i + q - a[i].pos <= Len(a)
        PROVE  Belongs(a, i, q)
    <3> DEFINE x == j + q - a[i].pos
    <3>1. x \in Int /\ x <= Len(s) /\ x - n = i + q - a[i].pos /\ q \in Nat /\ x - n \in Int
      <4>1. q \in Nat /\ n \in Nat
        BY <1>1, <2>1
      <4>2. \A l, y, p \in Int :
               y + q - p <= l =>
                  /\ (n + y) + q - p \in Int /\ (n + y) + q - p <= n + l
                  /\ ((n + y) + q - p) - n = y + q - p
                  /\ ((n + y) + q - p) - n \in Int
        BY <4>1
      <4>3. i \in Int /\ Len(a) \in Int /\ a[i].pos \in Int
        BY <1>2, <2>1
      <4>4. j = n + i /\ i + q - a[i].pos <= Len(a) /\ Len(s) = n + Len(a)
        BY <1>2, <2>3, <2>5
      <4> QED
        BY SMTT(30), <4>1, <4>2, <4>3, <4>4
    <3>2. q \in 1 .. s[j].of /\ j + q - s[j].pos <= Len(s)
      BY <2>2, <3>1
    <3>3. x >= 1 /\ s[x].call = a[i].call /\ s[x].pos = q /\ s[x].of = a[i].of
      BY <2>2, <2>4, <3>2 DEF Belongs
    <3>4. x > n
      <4>1. SUFFICES ASSUME x <= n PROVE FALSE
        BY <1>1, <3>1
      <4>2. x \in 1 .. n
        BY <3>1, <3>3, <4>1
      <4>3. q = x /\ a[i].of = n
        BY <1>4, <3>3, <4>2
      <4>4. a[i].pos = j
        <5>1. q = j + q - a[i].pos /\ q \in Nat
          BY <3>1, <4>3
        <5> QED
          BY <2>1, <2>3, <5>1
      <4>5. a[i].pos <= a[i].of
        BY <2>2, <2>4
      <4>6. n \in Nat
        BY <1>1
      <4> QED
        BY <2>3, <4>3, <4>4, <4>5, <4>6
    <3>5. x - n \in 1 .. Len(a) /\ n + (x - n) = x
      <4>1. x \in Int /\ x <= Len(s) /\ x > n
        BY <3>1, <3>4
      <4>2. n \in Nat /\ Len(a) \in Nat /\ Len(s) = n + Len(a)
        BY <1>1, <1>2
      <4> HIDE DEF x
      <4> QED
        BY <4>1, <4>2
    <3>6. s[x] = a[x - n]
      BY <1>3, <3>5
    <3>7. /\ x - n >= 1 /\ a[x - n].call = a[i].call
          /\ a[x - n].pos = q /\ a[x - n].of = a[i].of
      BY <3>3, <3>5, <3>6
    <3> HIDE DEF x
    <3>8. x - n = i + q - a[i].pos
      BY <3>1 DEF x
    <3> QED
      BY <3>7, <3>8 DEF Belongs
  <2> QED
    BY <2>2, <2>4, <2>5
<1>7. InPlace(a)
  BY <1>6 DEF InPlace
<1>8. ASSUME InFull(s), NEW i \in 1 .. Len(a)
      PROVE  i + a[i].of - a[i].pos <= Len(a)
  <2>1. a[i].pos \in Nat /\ a[i].of \in Nat /\ i \in Nat
    BY <1>1, PlacesTypes
  <2>2. (n + i) + s[n + i].of - s[n + i].pos <= Len(s) /\ s[n + i] = a[i]
    BY <1>3, <1>8 DEF InFull
  <2> QED
    BY SMTT(30), <1>1, <1>2, <2>1, <2>2
<1> QED
  BY <1>5, <1>7, <1>8 DEF InFull, a

-----------------------------------------------------------------------------
(* What the client holds and what is on the connection.                    *)

LEMMA StreamTypes ==
    ASSUME Types
    PROVE  /\ Ahead \in Seq(Byte) /\ Kept \in Seq(Byte) /\ Unsent \in Seq(Byte)
           /\ Stream \in Seq(Byte) /\ wire \in Seq(Byte) /\ wbuf \in Seq(Byte)
<1>1. Ahead \in Seq(Byte)
  BY AheadTypes
<1>2. wire \in Seq(Byte) /\ wbuf \in Seq(Byte)
  BY DEF Types
<1>3. Kept \in Seq(Byte)
  BY <1>1, <1>2, Joining DEF Kept
<1>4. Unsent \in Seq(Byte)
  BY <1>1, <1>3 DEF Unsent
<1>5. Stream \in Seq(Byte)
  BY <1>2, <1>4, Joining DEF Stream
<1> QED
  BY <1>1, <1>2, <1>3, <1>4, <1>5

LEMMA StreamStarts ==
    ASSUME Types
    PROVE  /\ Starts(Kept) = Starts(wbuf) \cup Starts(Ahead)
           /\ Starts(Stream) = Starts(wire) \cup Starts(Unsent)
           /\ Starts(Unsent) \subseteq Starts(Kept)
           /\ Single(Kept) => Single(wbuf) /\ Single(Ahead)
           /\ Single(Stream) => /\ Single(wire) /\ Single(Unsent)
                                /\ Starts(wire) \cap Starts(Unsent) = {}
<1>1. /\ Ahead \in Seq(Byte) /\ Kept \in Seq(Byte) /\ Unsent \in Seq(Byte)
      /\ wire \in Seq(Byte) /\ wbuf \in Seq(Byte)
  BY StreamTypes
<1>2. Starts(Kept) = Starts(wbuf) \cup Starts(Ahead)
  BY <1>1, StartsJoin DEF Kept
<1>3. Starts(Stream) = Starts(wire) \cup Starts(Unsent)
  BY <1>1, StartsJoin DEF Stream
<1>4. Unsent = Ahead \/ Unsent = Kept
  BY DEF Unsent
<1>5. Single(Kept) => Single(wbuf) /\ Single(Ahead)
  BY <1>1, SingleJoin DEF Kept
<1>6. Single(Stream) => Single(wire) /\ Single(Unsent) /\ Starts(wire) \cap Starts(Unsent) = {}
  BY <1>1, SingleJoin DEF Stream
<1>7. Starts(Unsent) \subseteq Starts(Kept)
  BY <1>2, <1>4
<1> QED
  BY <1>2, <1>3, <1>5, <1>6, <1>7

LEMMA StartsPast ==
    ASSUME Types, Past
    PROVE  /\ Starts(Ahead) \subseteq 1 .. calls /\ Starts(Kept) \subseteq 1 .. calls
           /\ Starts(Stream) \subseteq 1 .. calls
           /\ Starts(wire) \subseteq 1 .. calls /\ Starts(wbuf) \subseteq 1 .. calls
           /\ Done \subseteq 1 .. calls
<1>1. Starts(wire) \subseteq 1 .. calls /\ Starts(wbuf) \subseteq 1 .. calls
  BY DEF Past
<1>2. Starts(Ahead) \subseteq 1 .. calls
  <2>1. CASE todo = <<>>
    <3>1. Ahead = <<>>
      BY <2>1, AheadTypes
    <3> QED
      BY <3>1, NoStarts
  <2>2. CASE todo # <<>>
    <3>1. PICK n \in Nat, p \in Nat \ {0}, q \in Nat : NextIs(n, p, q)
      BY <2>2, NextPiece
    <3>2. /\ Ahead \in Seq(Byte)
          /\ \A i \in 1 .. Len(Ahead) : Ahead[i].call = calls
      BY <3>1, PieceBytes DEF AreBytes
    <3>3. \A i \in Heads(Ahead) : Ahead[i].call = calls
      BY <3>2 DEF Heads
    <3>4. calls \in 1 .. calls
      BY <2>2 DEF Types
    <3> QED
      BY <3>3, <3>4 DEF Starts
  <2> QED
    BY <2>1, <2>2
<1>3. Starts(Kept) \subseteq 1 .. calls
  BY <1>1, <1>2, StreamStarts
<1>4. Starts(Stream) \subseteq 1 .. calls
  BY <1>1, <1>3, StreamStarts
<1>5. \A b \in late : Viable(b) \subseteq 1 .. calls
  <2>1. \A b \in late : b \in Seq(Byte) /\ Starts(b) \subseteq 1 .. calls
    BY DEF Past, Types
  <2> QED
    BY <2>1, ViableStarts
<1>6. Done \subseteq 1 .. calls
  BY <1>5 DEF Done, Past
<1> QED
  BY <1>1, <1>2, <1>3, <1>4, <1>6

(* What changes neither the executed requests nor those on lost            *)
(* connections keeps every header in one place if it brings none of theirs *)
(* into the buffer or the stream.                                          *)
LEMMA OnceKept ==
    ASSUME Once, executed' = executed, late' = late,
           Single(Kept'), Starts(Kept') \cap Done = {},
           link' = "up" =>
              /\ Single(Stream') /\ Starts(Stream') \cap Done = {}
              /\ stage' = "half" => Starts(wbuf') \cap Viable(wire') = {}
    PROVE  Once'
<1>1. Executed' = Executed /\ Done' = Done
  BY DEF Executed, Done
<1>2. Starts(Kept') \cap Done' = {}
  BY <1>1 DEF Once
<1> QED
  BY <1>1, <1>2 DEF Once

LEMMA PastKept ==
    ASSUME Past, executed' = executed, late' = late, calls' = calls,
           Starts(wbuf') \subseteq 1 .. calls, Starts(wire') \subseteq 1 .. calls
    PROVE  Past'
<1>1. Executed' = Executed
  BY DEF Executed
<1> QED
  BY <1>1 DEF Past

(* Something goes out of what is unsent, and what is still kept is the end *)
(* of what was.                                                            *)
Moves(out) ==
    /\ stage \in {"writing", "half"} /\ stage' \in {"writing", "half", "waiting"}
    /\ out \in Seq(Byte) /\ Ahead' \in Seq(Byte)
    /\ wire' = IF link = "up" THEN wire \o out ELSE wire
    /\ out \o Unsent' = Unsent
    /\ \E f \in Seq(Byte) : f \o Kept' = Kept
    /\ todo = <<>> /\ wbuf = <<>> => todo' = <<>> /\ wbuf' = <<>> /\ out = <<>>
    /\ UNCHANGED <<link, calls, named, replies, late, executed, returned, spilled,
                   slipped, faults>>

LEMMA MoveTypes ==
    ASSUME Types, Shape, NEW out, Moves(out), wbuf' \in Seq(Byte),
           todo' # <<>> => \E n \in DataLens : todo' \in TodoOf(calls, n)
    PROVE  Types'
<1>1. wire' \in Seq(Byte)
  BY Joining DEF Types, Moves
<1>2. todo' # <<>> => calls > 0
  BY DEF Moves, Shape
<1> QED
  BY <1>1, <1>2 DEF Types, Moves, Reading, TodoOf

LEMMA MoveKeeps ==
    ASSUME IInv, NEW out, Moves(out), Types', Shape', Residue',
           stage' = "half" /\ link = "up" /\ "up" \notin spilled =>
              Starts(wbuf') \cap Viable(wire') = {}
    PROVE  IInv'
<1>1. Types /\ Shape /\ Past
  BY DEF IInv
<1>2. /\ Kept \in Seq(Byte) /\ Unsent \in Seq(Byte) /\ wire \in Seq(Byte)
      /\ wbuf' \in Seq(Byte) /\ Ahead' \in Seq(Byte)
      /\ Kept' \in Seq(Byte) /\ Unsent' \in Seq(Byte) /\ out \in Seq(Byte)
  <2>1. wbuf' \in Seq(Byte) /\ Ahead' \in Seq(Byte)
    BY DEF Types, Moves
  <2>2. Kept' \in Seq(Byte)
    BY <2>1, Joining DEF Kept
  <2>3. Unsent' \in Seq(Byte)
    BY <2>1, <2>2 DEF Unsent
  <2> QED
    BY <1>1, <2>1, <2>2, <2>3, StreamTypes DEF Moves
<1>3. link = "up" => Stream' = Stream
  <2>1. SUFFICES ASSUME link = "up" PROVE Stream' = Stream
    OBVIOUS
  <2>2. Stream' = (wire \o out) \o Unsent'
    BY <2>1 DEF Stream, Moves
  <2>3. (wire \o out) \o Unsent' = wire \o (out \o Unsent')
    <3>1. \A a, b \in Seq(Byte) : (wire \o a) \o b = wire \o (a \o b)
      BY <1>2, JoiningThree
    <3> QED
      BY <1>2, <3>1
  <2> QED
    BY <2>2, <2>3 DEF Stream, Moves
<1>4. PICK f \in Seq(Byte) : f \o Kept' = Kept
  BY DEF Moves
<1>5. /\ Starts(Kept) = Starts(f) \cup Starts(Kept')
      /\ Single(Kept) => Single(Kept')
  <2>1. /\ Starts(f \o Kept') = Starts(f) \cup Starts(Kept')
        /\ Single(f \o Kept') => Single(Kept')
    BY <1>2, StartsJoin, SingleJoin
  <2> QED
    BY <1>4, <2>1
<1>6. Past'
  <2>1. Starts(Unsent) = Starts(out) \cup Starts(Unsent')
    <3>1. Starts(out \o Unsent') = Starts(out) \cup Starts(Unsent')
      BY <1>2, StartsJoin
    <3> QED
      BY <3>1 DEF Moves
  <2>2. Starts(wire') \subseteq Starts(wire) \cup Starts(out)
    BY <1>2, StartsJoin DEF Moves
  <2>3. Starts(Kept') = Starts(wbuf') \cup Starts(Ahead')
    BY <1>2, StartsJoin DEF Kept
  <2>4. /\ Starts(Kept) \subseteq 1 .. calls /\ Starts(wire) \subseteq 1 .. calls
        /\ Starts(Unsent) \subseteq Starts(Kept)
    BY <1>1, StartsPast, StreamStarts
  <2>5. Starts(wbuf') \subseteq 1 .. calls /\ Starts(wire') \subseteq 1 .. calls
    BY <1>5, <2>1, <2>2, <2>3, <2>4
  <2> QED
    BY <1>1, <2>5, PastKept DEF Moves
<1>7. ("up" \notin spilled => Once)'
  <2>1. SUFFICES ASSUME "up" \notin spilled PROVE Once'
    BY DEF Moves
  <2>2. Once
    BY <2>1 DEF IInv
  <2>3. link' = link /\ executed' = executed /\ late' = late
    BY DEF Moves
  <2>4. Single(Kept') /\ Starts(Kept') \cap Done = {}
    BY <1>5, <2>2 DEF Once
  <2>5. link' = "up" =>
           /\ Single(Stream') /\ Starts(Stream') \cap Done = {}
           /\ stage' = "half" => Starts(wbuf') \cap Viable(wire') = {}
    BY <1>3, <2>1, <2>2, <2>3 DEF Once
  <2> QED
    BY <2>2, <2>3, <2>4, <2>5, OnceKept
<1>8. (WritesFine => Whole)'
  <2>1. SUFFICES ASSUME WritesFine PROVE Whole'
    BY DEF WritesFine, Moves
  <2>2. Whole
    BY <2>1 DEF IInv
  <2> QED
    BY <1>3, <2>2 DEF Whole, Moves
<1>9. (~Upset => Own)'
  <2>1. SUFFICES ASSUME ~Upset PROVE Own'
    BY DEF Upset, Moves
  <2>2. Own
    BY <2>1 DEF IInv
  <2>3. Executed' = Executed
    BY DEF Executed, Moves
  <2>4. replies' = replies /\ returned' = returned /\ calls' = calls /\ link' = link
    BY DEF Moves
  <2>5. link' = "up" => \A i \in 1 .. Len(Stream') : Stream'[i].call = calls'
    BY <1>3, <2>2, <2>4 DEF Own
  <2>6. replies # <<>> => /\ todo = <<>> /\ wbuf = <<>> /\ wire = <<>>
                          /\ todo' = <<>> /\ wbuf' = <<>> /\ wire' = <<>>
    <3>1. SUFFICES ASSUME replies # <<>>
                   PROVE  /\ todo = <<>> /\ wbuf = <<>> /\ wire = <<>>
                          /\ todo' = <<>> /\ wbuf' = <<>> /\ wire' = <<>>
      OBVIOUS
    <3>2. todo = <<>> /\ wbuf = <<>> /\ wire = <<>>
      BY <2>2, <3>1 DEF Own
    <3>3. todo' = <<>> /\ wbuf' = <<>> /\ out = <<>>
      BY <3>2 DEF Moves
    <3>4. <<>> \o <<>> = <<>>
      BY <1>2, <3>3, Joining
    <3> QED
      BY <3>2, <3>3, <3>4 DEF Moves
  <2>7. stage' \notin {"idle", "skipping", "result"} /\ stage \notin {"idle", "skipping", "result"}
    BY DEF Moves
  <2>8. replies # <<>> => stage = "writing" /\ stage' \in {"writing", "waiting"}
    BY <1>1, <2>6 DEF Moves, Shape
  <2>9. replies = <<>> \/ (stage = "writing" /\ stage' \in {"writing", "waiting"})
    BY <2>8
  <2>10. \A i \in 1 .. Len(replies) :
            /\ replies[i].call = calls
            /\ replies[i].part = IF i = 1 /\ stage' \in {"writing", "waiting"}
                                 THEN "name" ELSE "rest"
    <3>1. CASE replies = <<>>
      <4>1. Len(replies) = 0
        BY <3>1, EmptySeq
      <4> QED
        BY <4>1
    <3>2. CASE stage = "writing" /\ stage' \in {"writing", "waiting"}
      BY <2>2, <3>2 DEF Own
    <3> QED
      BY <2>9, <3>1, <3>2
  <2> HIDE DEF Moves
  <2> QED
    BY <2>2, <2>3, <2>4, <2>5, <2>6, <2>7, <2>10 DEF Own
<1> QED
  BY <1>6, <1>7, <1>8, <1>9 DEF IInv

-----------------------------------------------------------------------------
(* The writing actions when the socket does not fail.                      *)

(* The next piece and what comes after it.  A header is a piece of its own *)
(* and announces all that is ahead.                                        *)
LEMMA PieceFacts ==
    ASSUME Types, todo # <<>>
    PROVE  /\ Head(todo) \in Seq(Byte) /\ Len(Head(todo)) \in Nat \ {0}
           /\ AheadOf(Tail(todo)) \in Seq(Byte) /\ Len(AheadOf(Tail(todo))) \in Nat
           /\ Ahead \in Seq(Byte) /\ Head(todo) \o AheadOf(Tail(todo)) = Ahead
           /\ Len(Ahead) = Len(Head(todo)) + Len(AheadOf(Tail(todo)))
           /\ \A i \in Heads(Head(todo)) :
                 i = 1 /\ Len(Head(todo)) = 1 /\ Head(todo)[i].of = Len(Ahead)
           /\ Tail(todo) # <<>> => \E n \in DataLens : Tail(todo) \in TodoOf(calls, n)
<1>1. PICK n \in Nat, p \in Nat \ {0}, q \in Nat : NextIs(n, p, q)
  BY NextPiece
<1> DEFINE h == Head(todo)
           a == AheadOf(Tail(todo))
<1>2. /\ AreBytes(h, calls, n, p, q) /\ AreBytes(Ahead, calls, n, p, n + 2)
      /\ AreBytes(a, calls, n, q + 1, n + 2) /\ h \o a = Ahead
  BY <1>1, PieceBytes
<1>3. p <= q /\ q <= n + 2 /\ (p = 1 => q = 1)
  BY <1>1 DEF NextIs
<1>4. /\ h \in Seq(Byte) /\ a \in Seq(Byte) /\ Ahead \in Seq(Byte)
      /\ Len(h) = q + 1 - p /\ Len(Ahead) = n + 2 + 1 - p /\ Len(a) = n + 2 + 1 - (q + 1)
      /\ \A i \in 1 .. q + 1 - p : h[i].pos = i + p - 1 /\ h[i].of = n + 2
  BY <1>2 DEF AreBytes
<1>5. Len(h) \in Nat \ {0} /\ Len(a) \in Nat /\ Len(Ahead) = Len(h) + Len(a)
  <2>1. /\ q + 1 - p \in Nat \ {0} /\ n + 2 + 1 - (q + 1) \in Nat
        /\ n + 2 + 1 - p = (q + 1 - p) + (n + 2 + 1 - (q + 1))
    BY <1>3
  <2> QED
    BY <1>4, <2>1
<1>6. ASSUME NEW i \in Heads(h) PROVE i = 1 /\ Len(h) = 1 /\ h[i].of = Len(Ahead)
  <2>1. i \in 1 .. Len(h) /\ h[i].pos = 1
    BY DEF Heads
  <2>2. i \in 1 .. q + 1 - p /\ i + p - 1 = 1 /\ h[i].of = n + 2
    BY <1>4, <2>1
  <2>3. i = 1 /\ p = 1
    BY <1>3, <2>2
  <2> QED
    BY <1>3, <1>4, <2>2, <2>3
<1>7. Tail(todo) \in TodoOf(calls, n) /\ n \in DataLens
  BY <1>1 DEF NextIs
<1> QED
  BY <1>2, <1>4, <1>5, <1>6, <1>7

(* Where a header which is kept is followed by all it announces.           *)
LEMMA ResidueKept ==
    ASSUME Types, Shape, Residue, NEW i \in Heads(wbuf)
    PROVE  /\ i \in 1 .. Len(wbuf) /\ wbuf[i].of \in Nat /\ Len(wbuf) \in Nat
           /\ \/ i + wbuf[i].of > BufSize + 1
              \/ stage # "idle" /\ i + wbuf[i].of = Len(wbuf) + Len(Ahead) + 1
<1>1. wbuf \in Seq(Byte)
  BY DEF Types
<1>2. i \in 1 .. Len(wbuf) /\ wbuf[i].of \in Nat \ {0, 1} /\ Len(wbuf) \in Nat
  BY <1>1, HeadTypes
<1> QED
  BY <1>2 DEF Residue

LEMMA WriteFastStep ==
    ASSUME IInv, WriteFast
    PROVE  IInv'
<1> DEFINE h == Head(todo)
           a == AheadOf(Tail(todo))
<1>1. /\ Types /\ Shape /\ Residue /\ stage = "writing" /\ todo # <<>>
      /\ stage' = "writing" /\ todo' = Tail(todo) /\ wbuf' = wbuf \o h
      /\ UNCHANGED <<link, calls, named, wire, replies, late, executed, returned,
                     spilled, slipped, faults>>
  BY DEF IInv, WriteFast, Joined
<1>2. /\ h \in Seq(Byte) /\ Len(h) \in Nat \ {0} /\ a \in Seq(Byte) /\ Len(a) \in Nat
      /\ Ahead \in Seq(Byte) /\ h \o a = Ahead /\ Len(Ahead) = Len(h) + Len(a)
      /\ \A i \in Heads(h) : i = 1 /\ Len(h) = 1 /\ h[i].of = Len(Ahead)
      /\ todo' # <<>> => \E n \in DataLens : todo' \in TodoOf(calls, n)
  BY <1>1, PieceFacts
<1>3. Ahead' = a
  BY <1>1 DEF Ahead, AheadOf
<1>4. wbuf \in Seq(Byte) /\ wire \in Seq(Byte) /\ Len(wbuf) \in Nat /\ <<>> \in Seq(Byte)
  BY <1>1, LenProperties DEF Types
<1> HIDE DEF h, a
<1>5. wbuf' \in Seq(Byte) /\ Len(wbuf') = Len(wbuf) + Len(h)
  BY <1>1, <1>2, <1>4, Joining
<1>6. Kept' = Kept /\ Unsent' = Kept /\ Unsent = Kept /\ Kept \in Seq(Byte)
  <2>1. (wbuf \o h) \o a = wbuf \o (h \o a)
    <3>1. \A s, t \in Seq(Byte) : (wbuf \o s) \o t = wbuf \o (s \o t)
      BY <1>4, JoiningThree
    <3> QED
      BY <1>2, <3>1
  <2>2. Kept' = Kept
    BY <1>1, <1>2, <1>3, <2>1 DEF Kept
  <2> QED
    BY <1>1, <2>2, StreamTypes DEF Unsent
<1>7. Moves(<<>>)
  <2>1. <<>> \o Kept = Kept /\ wire \o <<>> = wire
    BY <1>4, <1>6, Joining
  <2> QED
    BY <1>1, <1>2, <1>3, <1>4, <1>6, <2>1 DEF Moves
<1>8. Types'
  BY <1>1, <1>2, <1>4, <1>5, <1>7, MoveTypes
<1>9. Shape'
  <2>1. Len(wbuf') <= BufSize
    BY <1>1 DEF WriteFast, Fits, Joined
  <2> QED
    BY <1>1, <2>1 DEF Shape, Reading
<1>10. Residue'
  <2>1. SUFFICES ASSUME NEW i \in Heads(wbuf')
                 PROVE  \/ i + wbuf'[i].of > BufSize + 1
                        \/ i + wbuf'[i].of = Len(wbuf') + Len(Ahead') + 1
    BY <1>1 DEF Residue
  <2>2. \/ i \in Heads(wbuf) /\ wbuf'[i] = wbuf[i]
        \/ i - Len(wbuf) \in Heads(h) /\ wbuf'[i] = h[i - Len(wbuf)]
    <3>1. \A x \in Heads(wbuf \o h) :
             \/ x \in Heads(wbuf) /\ (wbuf \o h)[x] = wbuf[x]
             \/ x - Len(wbuf) \in Heads(h) /\ (wbuf \o h)[x] = h[x - Len(wbuf)]
      BY <1>2, <1>4, HeadsJoin
    <3> QED
      BY <1>1, <2>1, <3>1
  <2>3. CASE i \in Heads(wbuf) /\ wbuf'[i] = wbuf[i]
    <3>1. \/ i + wbuf[i].of > BufSize + 1
          \/ i + wbuf[i].of = Len(wbuf) + Len(Ahead) + 1
      BY <1>1, <2>3, ResidueKept
    <3>2. Len(wbuf) + Len(Ahead) + 1 = Len(wbuf') + Len(Ahead') + 1
      BY <1>2, <1>3, <1>4, <1>5
    <3> QED
      BY <2>3, <3>1, <3>2
  <2>4. CASE i - Len(wbuf) \in Heads(h) /\ wbuf'[i] = h[i - Len(wbuf)]
    <3>1. i - Len(wbuf) = 1 /\ Len(h) = 1 /\ wbuf'[i].of = Len(Ahead)
      BY <1>2, <2>4
    <3>2. i \in Nat
      BY <1>5, HeadTypes
    <3>3. Len(Ahead) = 1 + Len(Ahead') /\ Len(wbuf') = Len(wbuf) + 1 /\ i = Len(wbuf) + 1
      BY <1>2, <1>3, <1>4, <1>5, <3>1, <3>2
    <3>4. Len(Ahead') \in Nat /\ Len(wbuf) \in Nat
      BY <1>2, <1>3, <1>4
    <3>5. i + Len(Ahead) = Len(wbuf') + Len(Ahead') + 1
      BY <3>3, <3>4
    <3> QED
      BY <3>1, <3>5
  <2> QED
    BY <2>2, <2>3, <2>4
<1> QED
  BY <1>1, <1>7, <1>8, <1>9, <1>10, MoveKeeps

LEMMA PieceSentStep ==
    ASSUME IInv, stage = "half" \/ (stage = "writing" /\ todo # <<>> /\ wbuf = <<>>),
           Sends(Head(todo)), stage' = "writing", wbuf' = <<>>, todo' = Tail(todo),
           UNCHANGED <<calls, named, replies, late, executed, returned, spilled>>
    PROVE  IInv'
<1> DEFINE h == Head(todo)
           a == AheadOf(Tail(todo))
<1>1. /\ Types /\ Shape /\ Residue /\ stage \in {"writing", "half"} /\ todo # <<>>
      /\ wire' = (IF link = "up" THEN wire \o h ELSE wire)
      /\ UNCHANGED <<link, slipped, faults>>
  BY DEF IInv, Shape, Sends
<1>2. /\ h \in Seq(Byte) /\ a \in Seq(Byte) /\ Ahead \in Seq(Byte) /\ h \o a = Ahead
      /\ todo' # <<>> => \E n \in DataLens : todo' \in TodoOf(calls, n)
  BY <1>1, PieceFacts
<1>3. Ahead' = a
  BY DEF Ahead, AheadOf
<1>4. wbuf \in Seq(Byte) /\ <<>> \in Seq(Byte)
  BY <1>1 DEF Types
<1> HIDE DEF h, a
<1>5. Kept' = a /\ Unsent' = a
  BY <1>2, <1>3, <1>4, Joining DEF Kept, Unsent
<1>6. Unsent = Ahead
  BY ZenonT(60), <1>1, <1>2, <1>4, Joining DEF Kept, Unsent
<1>7. Moves(h)
  <2>1. wbuf \o h \in Seq(Byte) /\ (wbuf \o h) \o a = Kept
    <3>1. \A s, t \in Seq(Byte) : (wbuf \o s) \o t = wbuf \o (s \o t)
      BY <1>4, JoiningThree
    <3>2. (wbuf \o h) \o a = wbuf \o (h \o a)
      BY <1>2, <3>1
    <3> QED
      BY <1>2, <1>4, <3>2, Joining DEF Kept
  <2> QED
    BY <1>1, <1>2, <1>3, <1>5, <1>6, <2>1 DEF Moves
<1>8. Types'
  BY <1>1, <1>2, <1>4, <1>7, MoveTypes
<1>9. Shape'
  <2>1. Len(wbuf') = 0
    BY EmptySeq
  <2> QED
    BY <1>1, <2>1, ConstantsAssumption DEF Shape, Reading
<1>10. Residue'
  BY NoStarts DEF Residue
<1> QED
  BY <1>7, <1>8, <1>9, <1>10, MoveKeeps

(* The buffer is passed on before a piece which does not fit.  Whatever    *)
(* header is in it, the server waits for more than the buffer.             *)
LEMMA BufferSentStep ==
    ASSUME IInv, stage = "writing", todo # <<>>, ~Fits, wbuf # <<>>, Sends(wbuf),
           stage' = "half", UNCHANGED <<wbuf, todo, spilled>>,
           UNCHANGED <<calls, named, replies, late, executed, returned>>
    PROVE  IInv'
<1>1. /\ Types /\ Shape /\ Residue
      /\ wire' = (IF link = "up" THEN wire \o wbuf ELSE wire)
      /\ UNCHANGED <<link, slipped, faults>>
  BY DEF IInv, Sends
<1>2. /\ wbuf \in Seq(Byte) /\ Ahead \in Seq(Byte) /\ wire \in Seq(Byte)
      /\ Kept \in Seq(Byte) /\ <<>> \in Seq(Byte)
  BY <1>1, StreamTypes
<1>3. Ahead' = Ahead /\ Kept' = Kept /\ Unsent' = Ahead /\ Unsent = wbuf \o Ahead
  BY DEF Ahead, AheadOf, Kept, Unsent
<1>4. Moves(wbuf)
  <2>1. <<>> \o Kept = Kept
    BY <1>2, Joining
  <2> QED
    BY <1>1, <1>2, <1>3, <2>1 DEF Moves
<1>5. Types'
  <2>1. todo' # <<>> => \E n \in DataLens : todo' \in TodoOf(calls, n)
    BY <1>1 DEF Types
  <2> QED
    BY <1>1, <1>2, <1>4, <2>1, MoveTypes
<1>6. Shape'
  BY <1>1 DEF Shape, Reading, Fits, Joined
<1>7. Residue'
  BY <1>1, <1>3 DEF Residue
<1>8. ASSUME link = "up", "up" \notin spilled PROVE Starts(wbuf) \cap Viable(wire \o wbuf) = {}
  <2>1. Once
    BY <1>8 DEF IInv
  <2>2. Single(wire \o Kept) /\ Kept = wbuf \o Ahead
    BY <1>3, <1>8, <2>1 DEF Once, Stream, Kept
  <2>3. Starts(wire) \cap Starts(Kept) = {} /\ Single(Kept)
    BY <1>2, <2>2, SingleJoin
  <2>4. Single(wbuf) /\ Starts(wbuf) \subseteq Starts(Kept)
    BY <1>2, <2>2, <2>3, SingleJoin, StartsJoin
  <2>5. Viable(wire \o wbuf) \subseteq Starts(wire) \cup Viable(wbuf)
    BY <1>2, ViableJoin
  <2>6. Viable(wbuf) = {}
    <3>1. SUFFICES ASSUME NEW i \in Heads(wbuf), i + wbuf[i].of <= Len(wbuf) + 1
                   PROVE  FALSE
      BY DEF Viable
    <3>2. /\ i \in 1 .. Len(wbuf) /\ wbuf[i].of \in Nat /\ Len(wbuf) \in Nat
          /\ \/ i + wbuf[i].of > BufSize + 1
             \/ i + wbuf[i].of = Len(wbuf) + Len(Ahead) + 1
      BY <1>1, ResidueKept
    <3>3. Len(wbuf) <= BufSize
      BY <1>1 DEF Shape
    <3>4. Len(Ahead) \in Nat \ {0}
      BY <1>1, PieceFacts
    <3> QED
      BY <3>1, <3>2, <3>3, <3>4, ConstantsAssumption
  <2> QED
    BY <2>3, <2>4, <2>5, <2>6
<1> QED
  BY <1>1, <1>4, <1>5, <1>6, <1>7, <1>8, MoveKeeps

LEMMA FilledSentStep ==
    ASSUME IInv, stage = "writing", todo # <<>>, ~Fits, ~TwoSyscalls,
           Sends(Filled), wbuf' = Rest, todo' = Tail(todo), UNCHANGED <<stage, spilled>>,
           UNCHANGED <<calls, named, replies, late, executed, returned>>
    PROVE  IInv'
<1> DEFINE h == Head(todo)
           a == AheadOf(Tail(todo))
<1>1. /\ Types /\ Shape /\ Residue /\ stage' = "writing"
      /\ wire' = (IF link = "up" THEN wire \o Filled ELSE wire)
      /\ UNCHANGED <<link, slipped, faults>>
  BY DEF IInv, Sends
<1>2. /\ h \in Seq(Byte) /\ Len(h) \in Nat \ {0} /\ a \in Seq(Byte) /\ Len(a) \in Nat
      /\ Ahead \in Seq(Byte) /\ h \o a = Ahead /\ Len(Ahead) = Len(h) + Len(a)
      /\ \A i \in Heads(h) : i = 1 /\ Len(h) = 1 /\ h[i].of = Len(Ahead)
      /\ todo' # <<>> => \E n \in DataLens : todo' \in TodoOf(calls, n)
  BY <1>1, PieceFacts
<1>3. Ahead' = a
  BY DEF Ahead, AheadOf
<1>4. wbuf \in Seq(Byte) /\ wire \in Seq(Byte) /\ Len(wbuf) \in Nat /\ Len(wbuf) <= BufSize
  BY <1>1, LenProperties DEF Types, Shape
<1>5. Joined = wbuf \o h
  BY DEF Joined
<1> HIDE DEF h, a
<1>6. Joined \in Seq(Byte) /\ Len(Joined) = Len(wbuf) + Len(h)
  BY <1>2, <1>4, <1>5, Joining
<1>7. BufSize \in Nat /\ BufSize < Len(Joined) /\ Len(Joined) < 2 * BufSize
  BY <1>2, <1>4, <1>6, ConstantsAssumption DEF Fits, TwoSyscalls
<1>8. /\ Filled \in Seq(Byte) /\ Rest \in Seq(Byte) /\ Filled \o Rest = Joined
      /\ Len(Rest) = Len(Joined) - BufSize
      /\ \A i \in 1 .. Len(Joined) - BufSize : Rest[i] = Joined[BufSize + i]
  <2> DEFINE j == Joined
  <2> HIDE DEF j
  <2>1. j \in Seq(Byte) /\ BufSize \in Nat /\ BufSize <= Len(j) /\ j = Joined
    BY <1>6, <1>7 DEF j
  <2>2. /\ SubSeq(j, 1, BufSize) \in Seq(Byte)
        /\ SubSeq(j, BufSize + 1, Len(j)) \in Seq(Byte)
        /\ SubSeq(j, 1, BufSize) \o SubSeq(j, BufSize + 1, Len(j)) = j
        /\ Len(SubSeq(j, BufSize + 1, Len(j))) = Len(j) - BufSize
        /\ \A i \in 1 .. Len(j) - BufSize : SubSeq(j, BufSize + 1, Len(j))[i] = j[BufSize + i]
    BY <2>1, Splitting
  <2> QED
    BY <2>1, <2>2 DEF Filled, Rest
<1>9. Unsent = Kept /\ Unsent' = Kept' /\ Kept' = Rest \o a
  BY <1>1, <1>3 DEF Unsent, Kept
<1>10. Filled \o (Rest \o a) = Kept
  <2>1. Filled \o (Rest \o a) = (Filled \o Rest) \o a
    <3>1. \A s, t \in Seq(Byte) : (Filled \o s) \o t = Filled \o (s \o t)
      BY <1>8, JoiningThree
    <3> QED
      BY <1>2, <1>8, <3>1
  <2>2. (wbuf \o h) \o a = wbuf \o (h \o a)
    <3>1. \A s, t \in Seq(Byte) : (wbuf \o s) \o t = wbuf \o (s \o t)
      BY <1>4, JoiningThree
    <3> QED
      BY <1>2, <3>1
  <2> QED
    BY <1>2, <1>5, <1>8, <2>1, <2>2 DEF Kept
<1>11. Moves(Filled)
  <2> HIDE DEF Filled, Rest
  <2> QED
    BY <1>1, <1>2, <1>3, <1>8, <1>9, <1>10 DEF Moves
<1>12. Types'
  BY <1>1, <1>2, <1>8, <1>11, MoveTypes
<1>13. Shape'
  <2>1. Len(wbuf') <= BufSize
    BY <1>7, <1>8
  <2> QED
    BY <1>1, <2>1 DEF Shape, Reading
<1>14. Residue'
  <2>1. SUFFICES ASSUME NEW i \in Heads(Rest)
                 PROVE  i + Rest[i].of = Len(Rest) + Len(a) + 1
    BY <1>1, <1>3 DEF Residue
  <2> HIDE DEF Filled, Rest
  <2>2. i \in 1 .. Len(Joined) - BufSize /\ Rest[i].pos = 1 /\ Rest[i] = Joined[BufSize + i]
    BY <1>8, <2>1 DEF Heads
  <2>3. BufSize + i \in 1 .. Len(Joined) /\ i \in Nat /\ i # 0
    BY <1>6, <1>7, <2>2
  <2>4. BufSize + i \in Heads(wbuf \o h)
    BY <1>5, <2>2, <2>3 DEF Heads
  <2>5. \/ BufSize + i \in Heads(wbuf)
        \/ (BufSize + i) - Len(wbuf) \in Heads(h) /\ Joined[BufSize + i] = h[(BufSize + i) - Len(wbuf)]
    <3>1. \A x \in Heads(wbuf \o h) :
             \/ x \in Heads(wbuf)
             \/ x - Len(wbuf) \in Heads(h) /\ (wbuf \o h)[x] = h[x - Len(wbuf)]
      <4>1. h \in Seq(Byte) /\ wbuf \in Seq(Byte)
        BY <1>2, <1>4
      <4> QED
        BY <4>1, HeadsJoin
    <3> DEFINE x == BufSize + i
    <3> HIDE DEF x
    <3>2. x \in Heads(wbuf \o h)
      BY <2>4 DEF x
    <3>3. x \in Heads(wbuf) \/ (x - Len(wbuf) \in Heads(h) /\ Joined[x] = h[x - Len(wbuf)])
      BY <1>5, <3>1, <3>2
    <3> QED
      BY <3>3 DEF x
  <2>6. BufSize + i \notin Heads(wbuf)
    <3>1. BufSize + i \notin 1 .. Len(wbuf)
      BY <1>4, <1>7, <2>3
    <3> QED
      BY <3>1 DEF Heads
  <2>7. (BufSize + i) - Len(wbuf) = 1 /\ Len(h) = 1 /\ Rest[i].of = Len(Ahead)
    BY <1>2, <2>2, <2>5, <2>6
  <2>8. i = 1 /\ Len(wbuf) = BufSize
    BY <1>4, <1>7, <2>3, <2>7
  <2> QED
    BY SMTT(30), <1>2, <1>6, <1>7, <1>8, <2>7, <2>8
<1> QED
  BY <1>1, <1>11, <1>12, <1>13, <1>14, MoveKeeps

LEMMA FlushedStep ==
    ASSUME IInv, stage = "writing", todo = <<>>, FlushSends, stage' = "waiting",
           UNCHANGED todo,
           UNCHANGED <<calls, named, replies, late, executed, returned, spilled>>
    PROVE  IInv'
<1>1. /\ Types /\ Shape /\ wbuf' = <<>>
      /\ wire' = (IF link = "up" THEN wire \o wbuf ELSE wire)
      /\ UNCHANGED <<link, slipped, faults>>
  BY DEF IInv, Sends, FlushSends
<1>2. wbuf \in Seq(Byte) /\ <<>> \in Seq(Byte)
  BY <1>1 DEF Types
<1>3. Ahead = <<>> /\ Ahead' = <<>>
  BY DEF Ahead, AheadOf
<1>4. Unsent = wbuf /\ Kept = wbuf /\ Unsent' = <<>> /\ Kept' = <<>> /\ wbuf \o <<>> = wbuf
  <2>1. wbuf \o <<>> = wbuf /\ <<>> \o <<>> = <<>>
    BY <1>2, Joining
  <2> QED
    BY <1>1, <1>3, <2>1 DEF Kept, Unsent
<1>5. Moves(wbuf)
  BY <1>1, <1>2, <1>3, <1>4 DEF Moves
<1>6. Types'
  BY <1>1, <1>2, <1>5, MoveTypes
<1>7. Shape'
  <2>1. Len(wbuf') = 0
    BY <1>1, EmptySeq
  <2> QED
    BY <1>1, <2>1, ConstantsAssumption DEF Shape, Reading
<1>8. Residue'
  BY <1>1, NoStarts DEF Residue
<1> QED
  BY <1>5, <1>6, <1>7, <1>8, MoveKeeps

-----------------------------------------------------------------------------
(* The writing actions when the socket fails.                              *)

(* The call is given up while out was to go.  The buffer is kept only by   *)
(* writeSlow, before a piece which does not fit.                           *)
Drops(out) ==
    /\ stage \in {"writing", "half"} /\ stage' = "idle" /\ todo' = <<>>
    /\ ThrowsGone \/ ThrowsAlive(out)
    /\ out \in Seq(Byte) /\ \E r \in Seq(Byte) : out \o r = Unsent
    /\ todo # <<>> \/ wbuf # <<>>
    /\ \/ wbuf' = <<>> /\ spilled' = spilled
       \/ /\ wbuf' = wbuf /\ spilled' = spilled \cup {link} /\ wbuf # <<>>
          /\ todo # <<>> /\ ~Fits
    /\ UNCHANGED <<calls, named, replies, late, executed, returned>>

LEMMA DropStep ==
    ASSUME IInv, NEW out, Drops(out)
    PROVE  IInv'
<1>1. /\ Types /\ Shape /\ Residue /\ Past /\ out \in Seq(Byte)
      /\ stage' = "idle" /\ todo' = <<>>
      /\ UNCHANGED <<calls, named, replies, late, executed, returned>>
  BY DEF IInv, Drops
<1>2. /\ wbuf \in Seq(Byte) /\ wire \in Seq(Byte) /\ <<>> \in Seq(Byte)
      /\ Unsent \in Seq(Byte) /\ Ahead \in Seq(Byte) /\ wbuf' \in Seq(Byte)
  <2>1. <<>> \in Seq(Byte)
    BY EmptySeq
  <2>2. wbuf \in Seq(Byte) /\ wire \in Seq(Byte) /\ Unsent \in Seq(Byte) /\ Ahead \in Seq(Byte)
    BY <1>1, StreamTypes
  <2>3. wbuf' = <<>> \/ wbuf' = wbuf
    BY DEF Drops
  <2> QED
    BY <2>1, <2>2, <2>3
<1>3. \/ /\ link = "broken" /\ link' \in {"closed", "broken"}
         /\ wire = <<>> /\ wire' = <<>> /\ UNCHANGED <<slipped, faults>>
      \/ /\ link \in {"up", "silent"} /\ link' = link /\ slipped' = slipped \cup {"write"}
         /\ faults' = faults + 1 /\ faults < MaxFaults
         /\ wire' \in IF link = "up" THEN {wire \o b : b \in Prefixes(out)} ELSE {<<>>}
  BY <1>1 DEF Drops, ThrowsGone, ThrowsAlive, Slips, Shape
<1>4. \/ wbuf' = <<>> /\ spilled' = spilled
      \/ /\ wbuf' = wbuf /\ spilled' = spilled \cup {link} /\ wbuf # <<>>
         /\ todo # <<>> /\ ~Fits
  BY DEF Drops
<1>5. Ahead' = <<>> /\ Kept' = wbuf' /\ Unsent' = wbuf'
  <2>1. Ahead' = <<>>
    BY <1>1 DEF Ahead, AheadOf
  <2>2. wbuf' \o <<>> = wbuf'
    BY <1>2, Joining
  <2> QED
    BY <1>1, <2>1, <2>2 DEF Kept, Unsent
(* What is on a connection which lives on has been ahead on it before.     *)
<1>6. ASSUME link' = "up"
      PROVE  /\ link = "up" /\ wire' \in Seq(Byte) /\ Starts(wire') \subseteq Starts(Stream)
             /\ Single(Stream) => Single(wire')
  <2>1. PICK b \in Prefixes(out) : link = "up" /\ wire' = wire \o b
    BY <1>3, <1>6
  <2>2. PICK c \in Seq(Byte), r \in Seq(Byte) :
           b \in Seq(Byte) /\ b \o c = out /\ out \o r = Unsent
    BY <1>1, PrefixOf DEF Drops
  <2>3. wire' \in Seq(Byte) /\ c \o r \in Seq(Byte)
    BY <1>2, <2>1, <2>2, Joining
  <2>4. wire' \o (c \o r) = Stream
    <3>1. (b \o c) \o r = b \o (c \o r)
      BY <2>2, JoiningThree
    <3>2. \A s, t \in Seq(Byte) : (wire \o s) \o t = wire \o (s \o t)
      BY <1>2, JoiningThree
    <3>3. (wire \o b) \o (c \o r) = wire \o (b \o (c \o r))
      BY <2>2, <2>3, <3>2
    <3> QED
      BY <2>1, <2>2, <3>1, <3>3 DEF Stream
  <2>5. Starts(wire' \o (c \o r)) = Starts(wire') \cup Starts(c \o r)
    BY <2>3, StartsJoin
  <2>6. Single(wire' \o (c \o r)) => Single(wire')
    BY <2>3, SingleJoin
  <2> QED
    BY <2>1, <2>3, <2>4, <2>5, <2>6
<1>7. link' # "up" => wire' = <<>>
  BY <1>3
<1>8. Types'
  <2>1. wire' \in Seq(Byte)
    BY <1>2, <1>6, <1>7
  <2>2. faults' \in 0 .. MaxFaults
    BY <1>1, <1>3, ConstantsAssumption DEF Types
  <2>3. spilled' \subseteq {"up", "broken", "silent"} /\ slipped' \subseteq {"read", "write"}
    BY <1>1, <1>3, <1>4 DEF Types
  <2>4. link' \in {"closed", "up", "broken", "silent"}
    BY <1>3
  <2> QED
    BY <1>1, <1>2, <2>1, <2>2, <2>3, <2>4 DEF Types
<1>9. Shape'
  <2>1. Len(wbuf') <= BufSize
    <3>1. Len(<<>>) = 0
      BY EmptySeq
    <3> QED
      BY <1>1, <1>4, <3>1, ConstantsAssumption DEF Shape
  <2> QED
    BY <1>1, <1>7, <2>1 DEF Shape, Reading
<1>10. Residue'
  <2>1. CASE wbuf' = <<>>
    BY <2>1, NoStarts DEF Residue
  <2>2. CASE wbuf' = wbuf /\ todo # <<>> /\ ~Fits
    <3>1. SUFFICES ASSUME NEW i \in Heads(wbuf)
                   PROVE  i + wbuf[i].of > BufSize + 1
      BY <2>2 DEF Residue
    <3>2. /\ i \in 1 .. Len(wbuf) /\ wbuf[i].of \in Nat /\ Len(wbuf) \in Nat
          /\ \/ i + wbuf[i].of > BufSize + 1
             \/ i + wbuf[i].of = Len(wbuf) + Len(Ahead) + 1
      BY <1>1, ResidueKept
    <3>3. /\ Head(todo) \in Seq(Byte) /\ Len(Head(todo)) \in Nat
          /\ Len(AheadOf(Tail(todo))) \in Nat
          /\ Len(Ahead) = Len(Head(todo)) + Len(AheadOf(Tail(todo)))
      BY <1>1, <2>2, PieceFacts
    <3>4. Len(wbuf) + Len(Head(todo)) > BufSize
      <4>1. Len(Joined) = Len(wbuf) + Len(Head(todo))
        BY <1>2, <3>3, Joining DEF Joined
      <4> QED
        BY <2>2, <3>2, <3>3, <4>1, ConstantsAssumption DEF Fits
    <3> QED
      BY <3>2, <3>3, <3>4, ConstantsAssumption
  <2> QED
    BY <1>4, <2>1, <2>2
<1>11. Past'
  <2>1. /\ Starts(wire) \subseteq 1 .. calls /\ Starts(wbuf) \subseteq 1 .. calls
        /\ Starts(Stream) \subseteq 1 .. calls
    BY <1>1, StartsPast
  <2>2. Starts(wire') \subseteq 1 .. calls
    BY <1>6, <1>7, <2>1, NoStarts
  <2>3. Starts(wbuf') \subseteq 1 .. calls
    BY <1>4, <2>1, NoStarts
  <2> QED
    BY <1>1, <2>2, <2>3, PastKept
<1>12. ("up" \notin spilled => Once)'
  <2>1. SUFFICES ASSUME "up" \notin spilled' PROVE Once'
    OBVIOUS
  <2>2. Once
    BY <1>4, <2>1 DEF IInv
  <2>3. Single(wbuf) /\ Starts(wbuf) \subseteq Starts(Kept)
    BY <1>1, <2>2, StreamStarts DEF Once
  <2>4. Single(Kept') /\ Starts(Kept') \cap Done = {}
    BY <1>4, <1>5, <2>2, <2>3, NoStarts DEF Once
  <2>5. ASSUME link' = "up"
        PROVE  /\ Single(Stream') /\ Starts(Stream') \cap Done = {}
    <3>1. link = "up" /\ wbuf' = <<>>
      BY <1>4, <1>6, <2>1, <2>5
    <3>2. Stream' = wire'
      <4>1. wire' \in Seq(Byte)
        BY <1>6, <2>5
      <4>2. wire' \o <<>> = wire'
        BY <1>2, <4>1, Joining
      <4> QED
        BY <1>5, <3>1, <4>2 DEF Stream
    <3> QED
      BY <1>6, <2>2, <2>5, <3>1, <3>2 DEF Once
  <2> QED
    BY <1>1, <2>2, <2>4, <2>5, OnceKept
<1>13. (WritesFine => Whole)'
  <2>1. SUFFICES ASSUME spilled' = {}, "write" \notin slipped' PROVE Whole'
    BY DEF WritesFine
  <2>2. link' # "up" /\ "write" \notin slipped /\ wbuf' = <<>> /\ spilled = {}
    BY <1>3, <1>4, <2>1
  <2>3. Whole
    BY <2>2 DEF IInv, WritesFine
  <2> QED
    BY <1>1, <2>2, <2>3 DEF Whole
<1>14. (~Upset => Own)'
  <2>1. SUFFICES ASSUME spilled' = {}, slipped' = {} PROVE Own'
    BY DEF Upset
  <2>2. link' # "up" /\ slipped = {} /\ wbuf' = <<>> /\ spilled = {} /\ wire' = <<>>
    BY <1>3, <1>4, <2>1
  <2>3. Own
    BY <2>2 DEF IInv, Upset
  <2>4. replies = <<>>
    BY <2>3 DEF Own, Drops
  <2>5. Len(replies) = 0
    BY <2>4, EmptySeq
  <2>6. Executed' = Executed
    BY <1>1 DEF Executed
  <2> QED
    BY <1>1, <2>2, <2>3, <2>4, <2>5, <2>6 DEF Own
<1> QED
  BY <1>8, <1>9, <1>10, <1>11, <1>12, <1>13, <1>14 DEF IInv

LEMMA WriteBufferStep ==
    ASSUME IInv, WriteBuffer
    PROVE  IInv'
<1>1. /\ Types /\ stage = "writing" /\ todo # <<>> /\ ~Fits /\ wbuf # <<>>
      /\ UNCHANGED <<calls, named, replies, late, executed, returned>>
  BY DEF IInv, WriteBuffer
<1>2. CASE Sends(wbuf) /\ stage' = "half" /\ UNCHANGED <<wbuf, todo, spilled>>
  BY <1>1, <1>2, BufferSentStep
<1>3. CASE SlowThrows(wbuf)
  <2>1. wbuf \in Seq(Byte) /\ Ahead \in Seq(Byte) /\ wbuf \o Ahead = Unsent
    BY <1>1, StreamTypes DEF Unsent, Kept
  <2>2. Drops(wbuf)
    BY <1>1, <1>3, <2>1 DEF Drops, SlowThrows, Throws
  <2> QED
    BY <2>2, DropStep
<1> QED
  BY <1>2, <1>3 DEF WriteBuffer

LEMMA WritePieceStep ==
    ASSUME IInv, WritePiece
    PROVE  IInv'
<1>1. /\ Types /\ Shape /\ todo # <<>> /\ ~Fits
      /\ stage = "half" \/ (stage = "writing" /\ wbuf = <<>>)
      /\ UNCHANGED <<calls, named, replies, late, executed, returned>>
  <2>1. Types /\ Shape /\ UNCHANGED <<calls, named, replies, late, executed, returned>>
    BY DEF IInv, WritePiece
  <2>2. CASE stage = "half"
    <3>1. todo # <<>> /\ ~Fits
      BY <2>1, <2>2 DEF Shape
    <3> QED
      BY <2>1, <2>2, <3>1
  <2>3. CASE stage = "writing" /\ todo # <<>> /\ ~Fits /\ wbuf = <<>>
    BY <2>1, <2>3
  <2> QED
    BY <2>2, <2>3 DEF WritePiece
<1>2. CASE /\ Sends(Head(todo)) /\ stage' = "writing" /\ wbuf' = <<>> /\ todo' = Tail(todo)
           /\ UNCHANGED spilled
  BY <1>1, <1>2, PieceSentStep
<1>3. CASE SlowThrows(Head(todo))
  <2>1. /\ Head(todo) \in Seq(Byte) /\ AheadOf(Tail(todo)) \in Seq(Byte)
        /\ Head(todo) \o AheadOf(Tail(todo)) = Ahead /\ Ahead \in Seq(Byte)
    BY <1>1, PieceFacts
  <2>2. Unsent = Ahead
    <3>1. wbuf = <<>> => wbuf \o Ahead = Ahead
      BY <1>1, <2>1, Joining DEF Types
    <3> QED
      BY <1>1, <3>1 DEF Unsent, Kept
  <2>3. Drops(Head(todo))
    <3>1. \/ wbuf' = <<>> /\ spilled' = spilled
          \/ wbuf' = wbuf /\ spilled' = spilled \cup {link} /\ wbuf # <<>>
      BY <1>3 DEF SlowThrows
    <3> QED
      BY <1>1, <1>3, <2>1, <2>2, <3>1 DEF Drops, SlowThrows, Throws
  <2> QED
    BY <2>3, DropStep
<1> QED
  BY <1>1, <1>2, <1>3 DEF WritePiece

LEMMA WriteFilledStep ==
    ASSUME IInv, WriteFilled
    PROVE  IInv'
<1>1. /\ Types /\ Shape /\ stage = "writing" /\ todo # <<>> /\ ~Fits /\ ~TwoSyscalls
      /\ wbuf # <<>>
      /\ UNCHANGED <<calls, named, replies, late, executed, returned>>
  BY DEF IInv, WriteFilled, TwoSyscalls
<1>2. CASE /\ Sends(Filled) /\ wbuf' = Rest /\ todo' = Tail(todo)
           /\ UNCHANGED <<stage, spilled>>
  BY <1>1, <1>2, FilledSentStep
<1>3. CASE SlowThrows(Filled)
  <2> DEFINE h == Head(todo)
             a == AheadOf(Tail(todo))
             j == Joined
  <2>1. /\ h \in Seq(Byte) /\ a \in Seq(Byte) /\ h \o a = Ahead
        /\ wbuf \in Seq(Byte) /\ j = wbuf \o h /\ Len(h) \in Nat /\ Len(wbuf) \in Nat
    BY <1>1, PieceFacts, LenProperties DEF Types, Joined
  <2> HIDE DEF h, a, j
  <2>2. j \in Seq(Byte) /\ Len(j) \in Nat
    BY <2>1, Joining, LenProperties
  <2>3. BufSize \in Nat /\ BufSize <= Len(j)
    BY <1>1, <2>2, ConstantsAssumption DEF Fits, j
  <2> DEFINE r == SubSeq(j, BufSize + 1, Len(j))
  <2>4. Filled \in Seq(Byte) /\ r \in Seq(Byte) /\ Filled \o r = j
    <3>1. /\ SubSeq(j, 1, BufSize) \in Seq(Byte) /\ r \in Seq(Byte)
          /\ SubSeq(j, 1, BufSize) \o r = j
      BY <2>2, <2>3, Splitting
    <3> QED
      BY <3>1 DEF Filled, j
  <2> HIDE DEF r
  <2>5. Filled \o (r \o a) = Unsent /\ r \o a \in Seq(Byte)
    <3>0. \A s, t \in Seq(Byte) : (Filled \o s) \o t = Filled \o (s \o t)
      BY <2>4, JoiningThree
    <3>1. \A s, t \in Seq(Byte) : (wbuf \o s) \o t = wbuf \o (s \o t)
      BY <2>1, JoiningThree
    <3>2. Filled \o (r \o a) = wbuf \o (h \o a)
      <4> HIDE DEF Filled
      <4>1. Filled \o (r \o a) = j \o a
        <5>1. (Filled \o r) \o a = Filled \o (r \o a)
          BY <2>1, <2>4, <3>0
        <5> QED
          BY <2>4, <5>1
      <4>2. j \o a = wbuf \o (h \o a)
        BY <2>1, <3>1
      <4> QED
        BY <4>1, <4>2
    <3>3. r \o a \in Seq(Byte)
      BY <2>1, <2>4, Joining
    <3> QED
      BY <1>1, <2>1, <3>2, <3>3 DEF Unsent, Kept
  <2>6. wbuf' = wbuf /\ spilled' = spilled \cup {link}
    BY <1>1, <1>3 DEF SlowThrows
  <2>7. Drops(Filled)
    BY <1>1, <1>3, <2>4, <2>5, <2>6 DEF Drops, SlowThrows, Throws
  <2> QED
    BY <2>7, DropStep
<1> QED
  BY <1>2, <1>3 DEF WriteFilled

LEMMA FlushStep ==
    ASSUME IInv, Flush
    PROVE  IInv'
<1>1. /\ Types /\ stage = "writing" /\ todo = <<>>
      /\ UNCHANGED <<calls, named, replies, late, executed, returned, spilled>>
  BY DEF IInv, Flush
<1>2. CASE FlushSends /\ stage' = "waiting" /\ UNCHANGED todo
  BY <1>1, <1>2, FlushedStep
<1>3. CASE wbuf # <<>> /\ FlushThrows
  <2>1. wbuf \in Seq(Byte) /\ Ahead \in Seq(Byte) /\ wbuf \o Ahead = Unsent
    BY <1>1, StreamTypes DEF Unsent, Kept
  <2>2. Drops(wbuf)
    BY <1>1, <1>3, <2>1 DEF Drops, FlushThrows, Throws
  <2> QED
    BY <2>2, DropStep
<1> QED
  BY <1>2, <1>3 DEF Flush

-----------------------------------------------------------------------------
(* A call begins.                                                          *)

LEMMA PrefixElements ==
    ASSUME NEW S, NEW s \in Seq(S), NEW b \in Prefixes(s)
    PROVE  b \in Seq(S) /\ Len(b) <= Len(s) /\ \A i \in 1 .. Len(b) : b[i] = s[i]
<1>1. PICK n \in 0 .. Len(s) : b = SubSeq(s, 1, n)
  BY DEF Prefixes
<1>2. Len(s) \in Nat /\ \A i \in 1 .. Len(s) : s[i] \in S
  BY LenProperties, ElementOfSeq
<1>3. n \in Nat /\ n <= Len(s) /\ \A i \in 1 .. n : s[i] \in S
  BY <1>1, <1>2
<1>4. b \in Seq(S) /\ Len(b) = n /\ \A i \in 1 .. n : b[i] = s[i]
  BY <1>1, <1>3, SubSeqProperties
<1> QED
  BY <1>3, <1>4

LEMMA BeginFacts ==
    ASSUME IInv, NEW n \in DataLens, Begin(n)
    PROVE  /\ stage = "idle" /\ todo = <<>> /\ n \in Nat
           /\ calls \in Nat /\ calls' = calls + 1 /\ calls' \in CallNos
           /\ AreBytes(Ahead', calls', n, 1, n + 2) /\ Ahead' \in Seq(Byte)
           /\ Kept = wbuf /\ Unsent = wbuf /\ Kept' = wbuf \o Ahead' /\ Unsent' = Kept'
           /\ Kept' \in Seq(Byte)
<1>1. stage = "idle" /\ todo = <<>> /\ calls' = calls + 1 /\ stage' = "writing" /\ wbuf' = wbuf
  BY DEF Begin, IInv, Shape
<1>2. n \in Nat /\ calls \in Nat /\ calls' \in CallNos
  BY ConstantsAssumption DEF IInv, Types, Begin, CallNos
<1>3. AreBytes(Bytes(calls', n, 1, 1), calls', n, 1, 1)
  BY <1>2, BytesAre
<1>4. todo' # <<>> /\ Head(todo') = Bytes(calls', n, 1, 1)
  BY DEF Begin, Pieces
<1>5. Head(todo')[1].of = n + 2 /\ Head(todo')[1].pos = 1
  BY <1>3, <1>4 DEF AreBytes
<1>6. Ahead' = Bytes(calls', n, 1, n + 2)
  <2>1. Ahead' = Bytes(calls', Head(todo')[1].of - 2, Head(todo')[1].pos, Head(todo')[1].of)
    BY <1>4 DEF Ahead, AheadOf
  <2>2. (n + 2) - 2 = n
    BY <1>2
  <2> QED
    BY <1>5, <2>1, <2>2
<1>7. AreBytes(Ahead', calls', n, 1, n + 2)
  <2>1. 1 \in Nat \ {0} /\ n + 2 \in Nat /\ 1 <= n + 2 + 1
    BY <1>2
  <2> QED
    BY <1>2, <1>6, <2>1, BytesAre
<1>8. Ahead' \in Seq(Byte)
  BY <1>7 DEF AreBytes
<1>9. Kept' = wbuf \o Ahead' /\ Unsent' = Kept' /\ Kept' \in Seq(Byte)
  <2>1. wbuf \in Seq(Byte)
    BY DEF IInv, Types
  <2> QED
    BY <1>1, <1>8, <2>1, Joining DEF Kept, Unsent
<1>10. Kept = wbuf /\ Unsent = wbuf
  <2>1. Ahead = <<>> /\ wbuf \in Seq(Byte)
    BY <1>1 DEF Ahead, AheadOf, IInv, Types
  <2>2. wbuf \o <<>> = wbuf
    BY <2>1, ConcatEmptySeq
  <2> QED
    BY <1>1, <2>1, <2>2 DEF Kept, Unsent
<1> QED
  BY <1>1, <1>2, <1>7, <1>8, <1>9, <1>10

LEMMA BeginStep ==
    ASSUME IInv, NEW n \in DataLens, Begin(n)
    PROVE  IInv'
<1>1. /\ stage = "idle" /\ todo = <<>> /\ n \in Nat
      /\ calls \in Nat /\ calls' = calls + 1 /\ calls' \in CallNos
      /\ AreBytes(Ahead', calls', n, 1, n + 2) /\ Ahead' \in Seq(Byte)
      /\ Kept = wbuf /\ Unsent = wbuf /\ Kept' = wbuf \o Ahead' /\ Unsent' = Kept'
      /\ Kept' \in Seq(Byte)
  BY BeginFacts
<1>2. /\ Types /\ Shape /\ Residue /\ Past /\ stage' = "writing" /\ wbuf' = wbuf
      /\ named' = Name(n) /\ todo' = Pieces(calls', n)
      /\ UNCHANGED <<late, executed, returned, spilled, slipped, faults>>
  BY DEF IInv, Begin
<1>3. \/ /\ link = "closed" /\ link' = "up" /\ wire' = <<>> /\ replies' \in Prefixes(replies)
      \/ link # "closed" /\ link' = link /\ wire' = wire /\ replies' = replies
  BY DEF Begin
<1>4. wbuf \in Seq(Byte) /\ wire \in Seq(Byte) /\ <<>> \in Seq(Byte) /\ wire' \in Seq(Byte)
  <2>1. <<>> \in Seq(Byte)
    BY EmptySeq
  <2> QED
    BY <1>2, <1>3, <2>1 DEF Types
<1>5. InFull(Ahead') /\ Single(Ahead') /\ Starts(Ahead') = {calls'}
  BY <1>1, NewRequest
<1>6. link = "closed" => link' = "up" /\ Stream' = Kept'
  BY <1>1, <1>3, Joining, <1>4 DEF Stream
<1>7. link = "up" => Stream' = Stream \o Ahead' /\ Stream \in Seq(Byte)
  <2>1. Stream \in Seq(Byte)
    BY <1>2, StreamTypes
  <2>2. \A s, t \in Seq(Byte) : (wire \o s) \o t = wire \o (s \o t)
    BY <1>4, JoiningThree
  <2>3. (wire \o wbuf) \o Ahead' = wire \o (wbuf \o Ahead')
    BY <1>1, <1>4, <2>2
  <2> QED
    BY <1>1, <1>3, <2>1, <2>3 DEF Stream
<1>8. link' = "up" => link \in {"closed", "up"}
  BY <1>3
<1>9. replies' \in Seq(ReplyParts) /\ (replies = <<>> => replies' = <<>>)
  <2>1. CASE replies' = replies
    BY <1>2, <2>1 DEF Types
  <2>2. CASE replies' \in Prefixes(replies)
    <3>1. replies \in Seq(ReplyParts)
      BY <1>2 DEF Types
    <3>2. replies' \in Seq(ReplyParts) /\ Len(replies') <= Len(replies)
      BY <2>2, <3>1, PrefixElements
    <3>3. replies = <<>> => Len(replies) = 0
      BY EmptySeq
    <3>4. Len(replies') \in Nat /\ (Len(replies') = 0 => replies' = <<>>)
      BY <3>2, EmptySeq, LenProperties
    <3> QED
      BY <3>2, <3>3, <3>4
  <2> QED
    BY <1>3, <2>1, <2>2
<1>10. Types'
  <2>1. link' \in {"closed", "up", "broken", "silent"}
    BY <1>2, <1>3 DEF Types
  <2>2. calls' \in 0 .. MaxCalls /\ calls' > 0
    BY <1>1, ConstantsAssumption DEF CallNos
  <2>3. todo' \in TodoOf(calls', n)
    BY <1>2 DEF TodoOf
  <2>4. named' \in Names
    BY <1>2 DEF Name, Names
  <2> QED
    BY <1>2, <1>4, <1>9, <2>1, <2>2, <2>3, <2>4 DEF Types
<1>11. Shape'
  <2>1. link' # "closed" /\ (link' # "up" => wire' = <<>>)
    BY <1>2, <1>3 DEF Shape
  <2>2. calls' > 0
    BY <1>1
  <2> QED
    BY <1>2, <2>1, <2>2 DEF Shape, Reading
<1>12. Residue'
  BY <1>1, <1>2 DEF Residue
<1>13. 1 .. calls \subseteq 1 .. calls' /\ calls' \notin 1 .. calls
  BY <1>1
<1>14. Past'
  <2>1. Executed' = Executed
    BY <1>2 DEF Executed
  <2>2. Starts(wire') \subseteq 1 .. calls
    BY <1>2, <1>3, NoStarts DEF Past
  <2> QED
    BY <1>2, <1>13, <2>1, <2>2 DEF Past
<1>15. ("up" \notin spilled => Once)'
  <2>1. SUFFICES ASSUME "up" \notin spilled PROVE Once'
    BY <1>2
  <2>2. Once
    BY <2>1 DEF IInv
  <2>3. Done \subseteq 1 .. calls /\ Starts(Kept) \subseteq 1 .. calls /\ Starts(Stream) \subseteq 1 .. calls
    BY <1>2, StartsPast
  <2>4. Single(Kept') /\ Starts(Kept') = Starts(Kept) \cup {calls'}
    <3>1. Single(Kept) /\ Kept \in Seq(Byte) /\ Kept' = Kept \o Ahead'
      BY <1>1, <1>4, <2>2 DEF Once
    <3>2. Starts(Kept) \cap Starts(Ahead') = {}
      BY <1>5, <1>13, <2>3
    <3>3. Single(Kept \o Ahead') /\ Starts(Kept \o Ahead') = Starts(Kept) \cup Starts(Ahead')
      BY <1>1, <1>5, <3>1, <3>2, SingleJoin, StartsJoin
    <3> QED
      BY <1>5, <3>1, <3>3
  <2>5. Starts(Kept') \cap Done = {}
    BY <1>13, <2>2, <2>3, <2>4 DEF Once
  <2>6. ASSUME link' = "up" PROVE Single(Stream') /\ Starts(Stream') \cap Done = {}
    <3>1. CASE link = "closed"
      BY <1>6, <2>4, <2>5, <3>1
    <3>2. CASE link = "up"
      <4>1. Single(Stream) /\ Starts(Stream) \cap Done = {}
        BY <2>2, <3>2 DEF Once
      <4>2. Starts(Stream) \cap Starts(Ahead') = {}
        BY <1>5, <1>13, <2>3
      <4>3. /\ Single(Stream \o Ahead')
            /\ Starts(Stream \o Ahead') = Starts(Stream) \cup Starts(Ahead')
        BY <1>1, <1>5, <1>7, <3>2, <4>1, <4>2, SingleJoin, StartsJoin
      <4> QED
        BY <1>5, <1>7, <1>13, <2>3, <3>2, <4>1, <4>3
    <3> QED
      BY <1>8, <2>6, <3>1, <3>2
  <2> QED
    BY <1>2, <2>2, <2>4, <2>5, <2>6, OnceKept
<1>16. (WritesFine => Whole)'
  <2>1. SUFFICES ASSUME WritesFine PROVE Whole'
    BY <1>2 DEF WritesFine
  <2>2. Whole /\ wbuf = <<>>
    BY <1>1, <2>1 DEF IInv, Whole
  <2>3. ASSUME link' = "up" PROVE InFull(Stream')
    <3>1. CASE link = "closed"
      <4>1. Kept' = Ahead'
        BY <1>1, <1>4, <2>2, Joining
      <4> QED
        BY <1>5, <1>6, <3>1, <4>1
    <3>2. CASE link = "up"
      <4>1. InFull(Stream \o Ahead')
        BY <1>1, <1>5, <1>7, <2>2, <3>2, InFullJoin DEF Whole
      <4> QED
        BY <1>7, <3>2, <4>1
    <3> QED
      BY <1>8, <2>3, <3>1, <3>2
  <2> QED
    BY <1>2, <2>2, <2>3 DEF Whole
<1>17. (~Upset => Own)'
  <2>1. SUFFICES ASSUME ~Upset PROVE Own'
    BY <1>2 DEF Upset
  <2>2. Own /\ wbuf = <<>> /\ wire = <<>> /\ replies = <<>>
    BY <1>1, <2>1 DEF IInv, Own
  <2>3. replies' = <<>> /\ wire' = <<>>
    BY <1>3, <1>9, <2>2
  <2>4. Stream' = Ahead'
    <3>1. <<>> \o Ahead' = Ahead'
      BY <1>1, <1>4, Joining
    <3> QED
      BY <1>1, <2>2, <2>3, <3>1 DEF Stream
  <2>5. \A i \in 1 .. Len(Ahead') : Ahead'[i].call = calls'
    BY <1>1 DEF AreBytes
  <2>6. Len(replies') = 0
    BY <2>3, EmptySeq
  <2>7. Executed' = Executed
    BY <1>2 DEF Executed
  <2> QED
    BY <1>2, <2>2, <2>3, <2>4, <2>5, <2>6, <2>7 DEF Own
<1> QED
  BY <1>10, <1>11, <1>12, <1>14, <1>15, <1>16, <1>17 DEF IInv

-----------------------------------------------------------------------------
(* The server reads the stream.                                            *)

LEMMA ParsedTypes ==
    ASSUME NEW s \in Seq(Byte), Complete(s)
    PROVE  Parsed(s) \in Requests /\ Parsed(s).call = s[1].call
<1>1. s[1] \in Byte
  BY FirstRequest
<1>2. s[1].call \in CallNos
  BY <1>1 DEF Byte, CallNos
<1>3. Name(s[1].of - 2) \in Names
  BY DEF Name, Names
<1>4. Parsed(s).whole \in BOOLEAN /\ Parsed(s).name \in Names /\ Parsed(s).call = s[1].call
  BY <1>3 DEF Parsed
<1> QED
  BY <1>2, <1>3 DEF Parsed, Requests

(* A request is executed.                                                  *)
LEMMA Execution ==
    ASSUME executed \in Seq(Requests), NEW r \in Requests, executed' = Append(executed, r)
    PROVE  /\ executed' \in Seq(Requests) /\ Executed' = Executed \cup {r.call}
           /\ /\ r.call \notin Executed
              /\ \A i, j \in 1 .. Len(executed) : executed[i].call = executed[j].call => i = j
              => \A i, j \in 1 .. Len(executed') : executed'[i].call = executed'[j].call => i = j
           /\ /\ r.whole
              /\ \A i \in 1 .. Len(executed) : executed[i].whole
              => \A i \in 1 .. Len(executed') : executed'[i].whole
<1> DEFINE n == Len(executed)
<1>1. n \in Nat
  BY LenProperties
<1>2. /\ executed' \in Seq(Requests) /\ Len(executed') = n + 1
      /\ \A i \in 1 .. n : executed'[i] = executed[i]
      /\ executed'[n + 1] = r
  BY AppendProperties
<1> HIDE DEF n
<1>3. 1 .. n + 1 = 1 .. n \cup {n + 1} /\ n + 1 \notin 1 .. n
  BY <1>1
<1>4. Executed' = Executed \cup {r.call}
  BY <1>2, <1>3 DEF Executed, n
<1>5. ASSUME r.call \notin Executed,
             \A i, j \in 1 .. n : executed[i].call = executed[j].call => i = j,
             NEW i \in 1 .. n + 1, NEW j \in 1 .. n + 1, executed'[i].call = executed'[j].call
      PROVE  i = j
  <2>1. \A x \in 1 .. n : executed[x].call \in Executed
    BY DEF Executed, n
  <2> QED
    BY <1>2, <1>3, <1>5, <2>1
<1>6. ASSUME r.whole, \A i \in 1 .. n : executed[i].whole, NEW i \in 1 .. n + 1
      PROVE  executed'[i].whole
  BY <1>2, <1>3, <1>6
<1> QED
  BY <1>2, <1>4, <1>5, <1>6 DEF n

LEMMA ReplyFacts ==
    ASSUME NEW r \in Requests
    PROVE  /\ Reply(r) \in Seq(ReplyParts) /\ Len(Reply(r)) = 2
           /\ \A i \in 1 .. 2 : /\ Reply(r)[i].call = r.call
                                /\ Reply(r)[i].part = IF i = 1 THEN "name" ELSE "rest"
<1> DEFINE e(i) == [call |-> r.call, name |-> r.name, part |-> IF i = 1 THEN "name" ELSE "rest"]
           n == 2
           s == [i \in 1 .. n |-> e(i)]
<1>1. n \in Nat /\ Reply(r) = s
  BY DEF Reply
<1>2. \A i \in 1 .. n : e(i) \in ReplyParts
  BY DEF ReplyParts, Requests
<1>3. s \in Seq(ReplyParts)
  <2> HIDE DEF e, n
  <2> QED
    BY <1>1, <1>2, IsASeq
<1>4. Len(s) = n
  <2> HIDE DEF e, n
  <2> QED
    BY <1>1, <1>3, LenProperties
<1>5. \A i \in 1 .. n : s[i].call = r.call /\ s[i].part = IF i = 1 THEN "name" ELSE "rest"
  OBVIOUS
<1> HIDE DEF s
<1> QED
  BY <1>1, <1>3, <1>4, <1>5 DEF n

(* The first request on the wire leaves the stream.                        *)
LEMMA ServeStream ==
    ASSUME Types, Serve
    PROVE  /\ wire \in Seq(Byte) /\ Complete(wire) /\ wire' \in Seq(Byte) /\ wire' = After(wire)
           /\ Kept' = Kept /\ Unsent' = Unsent /\ Ahead' = Ahead
           /\ Complete(Stream) /\ After(Stream) = Stream' /\ Stream' \in Seq(Byte)
           /\ Stream[1] = wire[1]
<1>1. wire \in Seq(Byte) /\ Complete(wire) /\ wire' = After(wire) /\ Unsent \in Seq(Byte)
  BY StreamTypes DEF Serve
<1>2. Kept' = Kept /\ Unsent' = Unsent /\ Ahead' = Ahead
  BY DEF Serve, Kept, Unsent, Ahead, AheadOf
<1>3. /\ Stream \in Seq(Byte) /\ Len(Stream) = Len(wire) + Len(Unsent)
      /\ Len(wire) \in Nat /\ Len(Unsent) \in Nat
      /\ wire # <<>> => Stream # <<>> /\ Stream[1] = wire[1]
  BY <1>1, Joining DEF Stream
<1>4. /\ wire # <<>> /\ wire[1].pos = 1 /\ Len(wire) >= wire[1].of
      /\ wire[1].of \in Nat
  BY <1>1, FirstRequest DEF Complete
<1>5. Complete(Stream)
  BY <1>3, <1>4 DEF Complete
<1>6. PICK h \in Seq(Byte) :
         After(wire) \in Seq(Byte) /\ h \o After(wire) = wire /\ Len(h) = wire[1].of
  BY <1>1, FirstRequest
<1>7. PICK g \in Seq(Byte) :
         After(Stream) \in Seq(Byte) /\ g \o After(Stream) = Stream /\ Len(g) = Stream[1].of
  BY <1>3, <1>5, FirstRequest
<1>8. Stream' = After(wire) \o Unsent /\ Stream' \in Seq(Byte)
  BY <1>1, <1>2, <1>6, Joining DEF Stream
<1>9. h \o Stream' = Stream
  <2>1. \A s, t \in Seq(Byte) : (h \o s) \o t = h \o (s \o t)
    BY JoiningThree
  <2>2. (h \o After(wire)) \o Unsent = h \o (After(wire) \o Unsent)
    BY <1>1, <1>6, <2>1
  <2> QED
    BY <1>6, <1>8, <2>2 DEF Stream
<1>10. After(Stream) = Stream'
  <2> DEFINE a == After(Stream)
             b == Stream'
             n == Len(h)
  <2>1. /\ a \in Seq(Byte) /\ b \in Seq(Byte) /\ g \o a = Stream /\ h \o b = Stream
        /\ Len(g) = n /\ Len(h) = n /\ n \in Nat
    BY <1>3, <1>4, <1>6, <1>7, <1>8, <1>9
  <2> HIDE DEF a, b, n
  <2>2. /\ Len(Stream) = n + Len(a) /\ Len(a) \in Nat
        /\ \A i \in 1 .. Len(a) : Stream[n + i] = a[i]
    <3>1. /\ Len(g \o a) = Len(g) + Len(a) /\ Len(a) \in Nat
          /\ \A i \in 1 .. Len(a) : (g \o a)[Len(g) + i] = a[i]
      BY <2>1, Joining
    <3> QED
      BY <2>1, <3>1
  <2>3. /\ Len(Stream) = n + Len(b) /\ Len(b) \in Nat
        /\ \A i \in 1 .. Len(b) : Stream[n + i] = b[i]
    <3>1. /\ Len(h \o b) = Len(h) + Len(b) /\ Len(b) \in Nat
          /\ \A i \in 1 .. Len(b) : (h \o b)[Len(h) + i] = b[i]
      BY <2>1, Joining
    <3> QED
      BY <2>1, <3>1
  <2>4. Len(a) = Len(b)
    BY <2>1, <2>2, <2>3
  <2>5. a = b
    BY <2>1, <2>2, <2>3, <2>4, SeqEqual
  <2> QED
    BY <2>5 DEF a, b
<1> QED
  BY <1>1, <1>2, <1>3, <1>4, <1>5, <1>6, <1>8, <1>10

LEMMA ServeStep ==
    ASSUME IInv, Serve
    PROVE  IInv'
<1> DEFINE c == wire[1].call
<1>1. /\ Types /\ Shape /\ Residue /\ Past /\ link = "up"
      /\ executed' = Append(executed, Parsed(wire))
      /\ replies' = replies \o Reply(Parsed(wire)) /\ wire' = After(wire)
      /\ UNCHANGED <<link, wbuf, todo, stage, calls, named, late, returned, spilled,
                     slipped, faults>>
  BY DEF IInv, Serve
<1>2. /\ wire \in Seq(Byte) /\ Complete(wire) /\ wire' \in Seq(Byte)
      /\ Kept' = Kept /\ Unsent' = Unsent /\ Ahead' = Ahead
      /\ Complete(Stream) /\ After(Stream) = Stream' /\ Stream' \in Seq(Byte)
      /\ Stream[1] = wire[1] /\ Stream \in Seq(Byte) /\ Kept \in Seq(Byte)
      /\ Unsent \in Seq(Byte)
  BY <1>1, ServeStream, StreamTypes
<1>3. Parsed(wire) \in Requests /\ Parsed(wire).call = c
  BY <1>2, ParsedTypes
<1>4. executed' \in Seq(Requests) /\ Executed' = Executed \cup {c}
  BY <1>1, <1>3, Execution DEF Types
<1>5. /\ Starts(wire') \subseteq Starts(wire) /\ Viable(wire') \subseteq Viable(wire)
      /\ c \in Starts(wire) /\ c \in Viable(wire)
  BY <1>1, <1>2, AfterFirst
<1>6. /\ c \in Starts(Stream) /\ Starts(Stream') \subseteq Starts(Stream)
      /\ Single(Stream) => Single(Stream') /\ c \notin Starts(Stream')
  BY <1>2, AfterFirst
<1>7. c \in 1 .. calls
  BY <1>1, <1>5 DEF Past
<1>8. Types'
  <2>1. replies' \in Seq(ReplyParts)
    BY <1>1, <1>3, ReplyFacts, ConcatProperties DEF Types
  <2> QED
    BY <1>1, <1>2, <1>4, <2>1 DEF Types
<1>9. Shape'
  BY <1>1 DEF Shape, Reading, Fits, Joined
<1>10. Residue'
  BY <1>1, <1>2 DEF Residue
<1>11. Past'
  BY <1>1, <1>4, <1>5, <1>7 DEF Past
<1>12. ("up" \notin spilled => Once)'
  <2>1. SUFFICES ASSUME "up" \notin spilled PROVE Once'
    BY <1>1
  <2>2. Once
    BY <2>1 DEF IInv
  <2>3. Single(Stream) /\ c \notin Done /\ Starts(Stream) \cap Done = {}
    BY <1>1, <1>6, <2>2 DEF Once
  <2>4. Done' = Done \cup {c}
    BY <1>1, <1>4 DEF Done
  <2>5. c \notin Executed
    BY <2>3 DEF Done
  <2>6. c \notin Starts(Kept)
    <3>1. c \notin Starts(Unsent)
      BY <1>1, <1>5, <2>3, StreamStarts
    <3>2. CASE stage # "half"
      BY <3>1, <3>2 DEF Unsent
    <3>3. CASE stage = "half"
      <4>1. c \notin Starts(wbuf)
        BY <1>1, <1>5, <2>2, <3>3 DEF Once
      <4>2. Unsent = Ahead
        BY <3>3 DEF Unsent
      <4> QED
        BY <1>1, <3>1, <4>1, <4>2, StreamStarts
    <3> QED
      BY <3>2, <3>3
  <2>7. \A i, j \in 1 .. Len(executed') : executed'[i].call = executed'[j].call => i = j
    BY <1>1, <1>3, <2>2, <2>5, Execution DEF Types, Once
  <2>8. \A b \in late : c \notin Viable(b)
    BY <2>3 DEF Done
  <2>9. \A b \in late' :
          /\ Single(b) /\ Viable(b) \cap Executed' = {}
          /\ \A d \in late' : b # d => Viable(b) \cap Viable(d) = {}
    BY <1>1, <1>4, <2>2, <2>8 DEF Once
  <2>10. Single(Kept') /\ Starts(Kept') \cap Done' = {}
    BY <1>2, <2>2, <2>4, <2>6 DEF Once
  <2>11. Single(Stream') /\ Starts(Stream') \cap Done' = {}
    BY <1>6, <2>3, <2>4
  <2>12. stage' = "half" => Starts(wbuf') \cap Viable(wire') = {}
    BY <1>1, <1>5, <2>2 DEF Once
  <2> QED
    BY <2>7, <2>9, <2>10, <2>11, <2>12 DEF Once
<1>13. ASSUME Whole
       PROVE  Whole' /\ InFull(Stream')
  <2>1. InFull(Stream) /\ InPlace(Stream)
    BY <1>1, <1>13 DEF Whole, InFull
  <2>2. InFull(Stream')
    BY <1>2, <2>1, FirstIsWhole
  <2>3. InPlace(wire)
    BY <1>2, <2>1, InPlaceFront DEF Stream
  <2>4. Parsed(wire).whole
    BY <1>2, <2>3, FirstIsWhole
  <2>5. \A i \in 1 .. Len(executed') : executed'[i].whole
    BY <1>1, <1>3, <1>13, <2>4, Execution DEF Types, Whole
  <2> QED
    BY <1>1, <1>13, <2>2, <2>5 DEF Whole
<1>14. (WritesFine => Whole)'
  BY <1>1, <1>13 DEF WritesFine, IInv
(* The present call is all there is on the stream, and starts but once.    *)
<1>15. (~Upset => Own)'
  <2>1. SUFFICES ASSUME ~Upset PROVE Own'
    BY <1>1 DEF Upset
  <2>2. Own /\ Whole /\ Once
    BY <2>1 DEF IInv, Upset, WritesFine
  <2>3. \A i \in 1 .. Len(Stream) : Stream[i].call = calls
    BY <1>1, <2>2 DEF Own
  <2>4. c = calls
    <3>1. 1 \in 1 .. Len(Stream)
      BY <1>2, FirstRequest
    <3> QED
      BY <1>2, <2>3, <3>1
  <2>5. PICK h \in Seq(Byte) : h \o Stream' = Stream
    BY <1>2, FirstRequest
  <2>6. Stream' = <<>>
    <3>1. SUFFICES ASSUME Stream' # <<>> PROVE FALSE
      OBVIOUS
    <3>2. 1 \in 1 .. Len(Stream') /\ Stream'[1].call \in Starts(Stream')
      BY <1>2, <1>13, <2>2, <3>1, InFullBegins
    <3>3. (h \o Stream')[Len(h) + 1] = Stream'[1] /\ Len(h) + 1 \in 1 .. Len(h \o Stream')
      <4>1. /\ Len(h) \in Nat /\ Len(Stream') \in Nat
            /\ Len(h \o Stream') = Len(h) + Len(Stream')
            /\ \A i \in 1 .. Len(Stream') : (h \o Stream')[Len(h) + i] = Stream'[i]
        BY SMTT(30), <1>2, <2>5, Joining
      <4> QED
        BY <3>2, <4>1
    <3>4. Stream'[1].call = calls
      BY <2>3, <2>5, <3>3
    <3> QED
      BY <1>1, <1>6, <2>2, <2>4, <3>2, <3>4 DEF Once
  <2>7. wire' = <<>> /\ Unsent = <<>>
    <3>1. Len(wire' \o Unsent) = 0 /\ Len(wire' \o Unsent) = Len(wire') + Len(Unsent)
      BY <1>2, <2>6, EmptySeq, ConcatProperties DEF Stream
    <3>2. Len(wire') \in Nat /\ Len(Unsent) \in Nat
      BY <1>2, LenProperties
    <3>3. Len(wire') = 0 /\ Len(Unsent) = 0
      BY <3>1, <3>2
    <3> QED
      BY <1>2, <3>3, EmptySeq
  <2>8. wire # <<>>
    BY <1>2 DEF Complete
  <2>9. stage \notin {"idle", "skipping", "result"} /\ replies = <<>>
    BY <2>2, <2>8 DEF Own
  <2>10. Ahead = <<>> => todo = <<>>
    BY <1>1, AheadTypes
  <2>11. stage # "half"
    BY <1>1, <2>7, <2>10 DEF Shape, Unsent
  <2>12. todo = <<>> /\ wbuf = <<>>
    <3>1. wbuf \in Seq(Byte) /\ Ahead \in Seq(Byte) /\ wbuf \o Ahead = <<>>
      BY <1>1, <2>7, <2>11, StreamTypes DEF Unsent, Kept
    <3>2. wbuf # <<>> => wbuf \o Ahead # <<>>
      BY <3>1, Joining
    <3>3. wbuf = <<>> => wbuf \o Ahead = Ahead
      BY <3>1, Joining
    <3> QED
      BY <2>10, <3>1, <3>2, <3>3
  <2>13. stage \in {"writing", "waiting"}
    BY <1>1, <2>9, <2>11 DEF Types, Reading
  <2>14. replies' = Reply(Parsed(wire))
    <3>1. Reply(Parsed(wire)) \in Seq(ReplyParts)
      BY <1>3, ReplyFacts
    <3> QED
      BY <1>1, <2>9, <3>1, ConcatEmptySeq
  <2>15. /\ Len(replies') = 2
         /\ \A i \in 1 .. Len(replies') :
               /\ replies'[i].call = calls
               /\ replies'[i].part = IF i = 1 THEN "name" ELSE "rest"
    <3>1. /\ Len(replies') = 2
          /\ \A i \in 1 .. 2 : /\ replies'[i].call = Parsed(wire).call
                               /\ replies'[i].part = IF i = 1 THEN "name" ELSE "rest"
      BY <1>3, <2>14, ReplyFacts
    <3> QED
      BY <1>3, <2>4, <3>1
  <2>16. calls' \in Executed'
    BY <1>1, <1>4, <2>4
  <2>17. \A i \in 1 .. Len(returned') :
            returned'[i].by = returned'[i].call /\ returned'[i].call \in Executed'
    BY <1>1, <1>4, <2>2 DEF Own
  <2>18. Len(Stream') = 0
    BY <2>6, EmptySeq
  <2>19. link' = "up" => \A i \in 1 .. Len(Stream') : Stream'[i].call = calls'
    BY <2>18
  <2>20. /\ todo' = <<>> /\ wbuf' = <<>> /\ wire' = <<>> /\ calls' = calls
         /\ stage' \in {"writing", "waiting"}
    BY <1>1, <2>7, <2>12, <2>13
  <2> QED
    BY <2>15, <2>16, <2>17, <2>19, <2>20 DEF Own
<1> QED
  BY <1>8, <1>9, <1>10, <1>11, <1>12, <1>14, <1>15 DEF IInv

(* What a lost connection had carried is executed.                         *)
LEMMA ServeLateStep ==
    ASSUME IInv, NEW s \in late, ServeLate(s)
    PROVE  IInv'
<1> DEFINE c == s[1].call
<1>1. /\ Types /\ Shape /\ Residue /\ Past
      /\ executed' = Append(executed, Parsed(s))
      /\ late' = (late \ {s}) \cup Received(After(s))
      /\ UNCHANGED <<link, wbuf, todo, stage, calls, named, wire, replies, returned,
                     spilled, slipped, faults>>
  BY DEF IInv, ServeLate
<1>2. s \in Seq(Byte) /\ Complete(s)
  BY <1>1 DEF Types, Shape
<1>3. Parsed(s) \in Requests /\ Parsed(s).call = c
  BY <1>2, ParsedTypes
<1>4. executed' \in Seq(Requests) /\ Executed' = Executed \cup {c}
  BY <1>1, <1>3, Execution DEF Types
<1>5. /\ After(s) \in Seq(Byte)
      /\ Starts(After(s)) \subseteq Starts(s) /\ Viable(After(s)) \subseteq Viable(s)
      /\ c \in Starts(s) /\ c \in Viable(s)
      /\ Single(s) => Single(After(s)) /\ c \notin Starts(After(s))
  BY <1>2, AfterFirst
<1>6. \A b \in late' : (b \in late /\ b # s) \/ (b = After(s) /\ Complete(b))
  BY <1>1 DEF Received
<1>7. Kept' = Kept /\ Unsent' = Unsent /\ Ahead' = Ahead /\ Stream' = Stream
  BY <1>1 DEF Kept, Unsent, Ahead, AheadOf, Stream
<1>8. Types'
  <2>1. late' \subseteq Seq(Byte)
    BY <1>1, <1>5, <1>6 DEF Types
  <2> QED
    BY <1>1, <1>4, <2>1 DEF Types
<1>9. Shape'
  <2>1. \A b \in late' : Complete(b)
    BY <1>1, <1>6 DEF Shape
  <2> QED
    BY <1>1, <2>1 DEF Shape, Reading, Fits, Joined
<1>10. Residue'
  BY <1>1, <1>7 DEF Residue
<1>11. Past'
  <2>1. Starts(s) \subseteq 1 .. calls
    BY <1>1 DEF Past
  <2>2. \A b \in late' : Starts(b) \subseteq 1 .. calls
    BY <1>1, <1>5, <1>6, <2>1 DEF Past
  <2>3. Executed' \subseteq 1 .. calls
    BY <1>1, <1>4, <1>5, <2>1 DEF Past
  <2> QED
    BY <1>1, <2>2, <2>3 DEF Past
<1>12. ("up" \notin spilled => Once)'
  <2>1. SUFFICES ASSUME "up" \notin spilled PROVE Once'
    BY <1>1
  <2>2. Once
    BY <2>1 DEF IInv
  <2>3. Single(s) /\ c \notin Executed /\ c \in Done
    BY <1>5, <2>2 DEF Once, Done
  <2>4. Single(After(s)) /\ c \notin Starts(After(s)) /\ c \notin Viable(After(s))
    BY <1>5, <2>3, ViableStarts
  <2>5. \A i, j \in 1 .. Len(executed') : executed'[i].call = executed'[j].call => i = j
    BY <1>1, <1>3, <2>2, <2>3, Execution DEF Types, Once
  <2>6. \A b \in late : b # s => c \notin Viable(b) /\ Viable(b) \cap Viable(After(s)) = {}
    BY <1>5, <2>2 DEF Once
  <2>7. Viable(After(s)) \cap Executed' = {}
    BY <1>4, <1>5, <2>2, <2>4 DEF Once
  <2>8. ASSUME NEW b \in late'
        PROVE  /\ Single(b) /\ Viable(b) \cap Executed' = {}
               /\ \A d \in late' : b # d => Viable(b) \cap Viable(d) = {}
    <3>1. CASE b \in late /\ b # s
      <4>1. Single(b) /\ Viable(b) \cap Executed' = {}
        BY <1>4, <2>2, <2>6, <3>1 DEF Once
      <4>2. ASSUME NEW d \in late', b # d PROVE Viable(b) \cap Viable(d) = {}
        BY <1>6, <2>2, <2>6, <3>1, <4>2 DEF Once
      <4> QED
        BY <4>1, <4>2
    <3>2. CASE b = After(s)
      <4>1. ASSUME NEW d \in late', b # d PROVE Viable(b) \cap Viable(d) = {}
        <5>1. d \in late /\ d # s
          BY <1>6, <3>2, <4>1
        <5> QED
          BY <2>6, <3>2, <5>1
      <4> QED
        BY <2>4, <2>7, <3>2, <4>1
    <3> QED
      BY <1>6, <3>1, <3>2
  <2>9. Done' \subseteq Done
    <3>1. \A b \in late' : Viable(b) \subseteq Done
      BY <1>5, <1>6 DEF Done
    <3>2. Executed' \subseteq Done
      BY <1>4, <2>3 DEF Done
    <3> QED
      BY <3>1, <3>2 DEF Done
  <2>10. Single(Kept') /\ Starts(Kept') \cap Done' = {}
    BY <1>7, <2>2, <2>9 DEF Once
  <2>11. link' = "up" =>
            /\ Single(Stream') /\ Starts(Stream') \cap Done' = {}
            /\ stage' = "half" => Starts(wbuf') \cap Viable(wire') = {}
    BY <1>1, <1>7, <2>2, <2>9 DEF Once
  <2> QED
    BY <2>5, <2>8, <2>10, <2>11 DEF Once
<1>13. (WritesFine => Whole)'
  <2>1. SUFFICES ASSUME WritesFine PROVE Whole'
    BY <1>1 DEF WritesFine
  <2>2. Whole
    BY <2>1 DEF IInv
  <2>3. Parsed(s).whole /\ InPlace(After(s))
    BY <1>2, <2>2, FirstIsWhole DEF Whole
  <2>4. \A i \in 1 .. Len(executed') : executed'[i].whole
    BY <1>1, <1>3, <2>2, <2>3, Execution DEF Types, Whole
  <2>5. \A b \in late' : InPlace(b)
    BY <1>6, <2>2, <2>3 DEF Whole
  <2> QED
    BY <1>1, <1>7, <2>2, <2>4, <2>5 DEF Whole
<1>14. (~Upset => Own)'
  <2>1. SUFFICES ASSUME ~Upset PROVE Own'
    BY <1>1 DEF Upset
  <2>2. Own
    BY <2>1 DEF IInv
  <2> QED
    BY <1>1, <1>4, <1>7, <2>2 DEF Own
<1> QED
  BY <1>8, <1>9, <1>10, <1>11, <1>12, <1>13, <1>14 DEF IInv

(* A connection which was up is over: some of what was on it may stay with *)
(* the server, and some of the replies with the client.                    *)
Hangs(b, Y) ==
    /\ link = "up" /\ link' \in {"broken", "silent"}
    /\ wire' = <<>> /\ replies' \in Prefixes(replies)
    /\ b \in Prefixes(wire) /\ Y \subseteq {b} /\ (\A y \in Y : Complete(y))
    /\ late' = late \cup Y
    /\ faults' \in 0 .. MaxFaults
    /\ UNCHANGED <<wbuf, todo, stage, calls, named, executed, returned, spilled, slipped>>

LEMMA HangsStep ==
    ASSUME IInv, NEW b, NEW Y, Hangs(b, Y)
    PROVE  IInv'
<1>1. /\ Types /\ Shape /\ Residue /\ Past /\ link = "up" /\ link' \in {"broken", "silent"}
      /\ wire' = <<>> /\ replies' \in Prefixes(replies) /\ late' = late \cup Y
      /\ Y \subseteq {b} /\ (\A y \in Y : Complete(y)) /\ faults' \in 0 .. MaxFaults
      /\ UNCHANGED <<wbuf, todo, stage, calls, named, executed, returned, spilled, slipped>>
  BY DEF IInv, Hangs
<1>2. wire \in Seq(Byte) /\ <<>> \in Seq(Byte) /\ b \in Prefixes(wire) /\ Unsent \in Seq(Byte)
  <2>1. <<>> \in Seq(Byte)
    BY EmptySeq
  <2> QED
    BY <1>1, <2>1, StreamTypes DEF Hangs
<1>3. PICK t \in Seq(Byte) : b \in Seq(Byte) /\ b \o t = wire
  BY <1>2, PrefixOf
<1>4. /\ Starts(wire) = Starts(b) \cup Starts(t)
      /\ Single(wire) => Single(b)
      /\ Viable(b) \subseteq Viable(wire) /\ Viable(wire) \subseteq Starts(wire)
      /\ InPlace(wire) => InPlace(b)
  <2>1. Starts(b \o t) = Starts(b) \cup Starts(t)
    BY <1>3, StartsJoin
  <2>2. Single(b \o t) => Single(b)
    BY <1>3, SingleJoin
  <2>3. Viable(b) \subseteq Viable(b \o t)
    BY <1>3, ViableJoin
  <2>4. InPlace(b \o t) => InPlace(b)
    BY <1>3, InPlaceFront
  <2> QED
    BY <1>2, <1>3, <2>1, <2>2, <2>3, <2>4, ViableStarts
<1>5. Kept' = Kept /\ Ahead' = Ahead
  BY <1>1 DEF Kept, Ahead, AheadOf
<1>6. /\ replies' \in Seq(ReplyParts) /\ Len(replies') <= Len(replies)
      /\ \A i \in 1 .. Len(replies') : replies'[i] = replies[i]
      /\ Len(replies') \in Nat /\ Len(replies) \in Nat
      /\ (replies = <<>> => replies' = <<>>)
  <2>1. replies \in Seq(ReplyParts)
    BY <1>1 DEF Types
  <2>2. /\ replies' \in Seq(ReplyParts) /\ Len(replies') <= Len(replies)
        /\ \A i \in 1 .. Len(replies') : replies'[i] = replies[i]
    BY <1>1, <2>1, PrefixElements
  <2>3. Len(replies') \in Nat /\ Len(replies) \in Nat
    BY <2>1, <2>2, LenProperties
  <2>4. replies = <<>> => Len(replies) = 0
    BY EmptySeq
  <2>5. Len(replies') = 0 => replies' = <<>>
    BY <2>2, EmptySeq
  <2> QED
    BY <2>2, <2>3, <2>4, <2>5
<1>7. Types'
  <2>1. late' \subseteq Seq(Byte)
    BY <1>1, <1>3 DEF Types
  <2> QED
    BY <1>1, <1>2, <1>6, <2>1 DEF Types
<1>8. Shape'
  <2>1. \A d \in late' : Complete(d)
    BY <1>1 DEF Shape
  <2> QED
    BY <1>1, <2>1 DEF Shape, Reading, Fits, Joined
<1>9. Residue'
  BY <1>1, <1>5 DEF Residue
<1>10. Past'
  <2>1. Executed' = Executed
    BY <1>1 DEF Executed
  <2>2. Starts(b) \subseteq 1 .. calls
    BY <1>1, <1>4 DEF Past
  <2>3. Starts(wire') \subseteq 1 .. calls
    BY <1>1, NoStarts
  <2> QED
    BY <1>1, <2>1, <2>2, <2>3 DEF Past
<1>11. ("up" \notin spilled => Once)'
  <2>1. SUFFICES ASSUME "up" \notin spilled PROVE Once'
    BY <1>1
  <2>2. Once
    BY <2>1 DEF IInv
  <2>3. Single(Stream) /\ Starts(Stream) \cap Done = {}
    BY <1>1, <2>2 DEF Once
  <2>4. Single(b) /\ Viable(b) \cap Done = {}
    BY <1>1, <1>4, <2>3, StreamStarts
  <2>5. Viable(b) \cap Starts(Kept) = {}
    <3>1. Starts(wire) \cap Starts(Unsent) = {}
      BY <1>1, <2>3, StreamStarts
    <3>2. CASE stage # "half"
      BY <1>4, <3>1, <3>2 DEF Unsent
    <3>3. CASE stage = "half"
      <4>1. Starts(wbuf) \cap Viable(wire) = {}
        BY <1>1, <2>2, <3>3 DEF Once
      <4>2. Unsent = Ahead
        BY <3>3 DEF Unsent
      <4> QED
        BY <1>1, <1>4, <3>1, <4>1, <4>2, StreamStarts
    <3> QED
      BY <3>2, <3>3
  <2>6. Executed' = Executed
    BY <1>1 DEF Executed
  <2>7. \A d \in late : Viable(b) \cap Viable(d) = {} /\ Viable(d) \subseteq Done
    BY <2>4 DEF Done
  <2>8. Viable(b) \cap Executed = {}
    BY <2>4 DEF Done
  <2>9. ASSUME NEW d \in late'
        PROVE  /\ Single(d) /\ Viable(d) \cap Executed' = {}
               /\ \A e \in late' : d # e => Viable(d) \cap Viable(e) = {}
    <3>1. \A e \in late' : e \in late \/ e = b
      BY <1>1
    <3>2. CASE d \in late
      BY <2>2, <2>6, <2>7, <3>1, <3>2 DEF Once
    <3>3. CASE d = b
      BY <2>4, <2>6, <2>7, <2>8, <3>1, <3>3
    <3> QED
      BY <3>1, <3>2, <3>3
  <2>10. Done' \subseteq Done \cup Viable(b)
    BY <1>1, <2>6 DEF Done
  <2>11. Single(Kept') /\ Starts(Kept') \cap Done' = {}
    BY <1>5, <2>2, <2>5, <2>10 DEF Once
  <2>12. \A i, j \in 1 .. Len(executed') : executed'[i].call = executed'[j].call => i = j
    BY <1>1, <2>2 DEF Once
  <2> QED
    BY <1>1, <2>9, <2>11, <2>12 DEF Once
<1>12. (WritesFine => Whole)'
  <2>1. SUFFICES ASSUME WritesFine PROVE Whole'
    BY <1>1 DEF WritesFine
  <2>2. Whole
    BY <2>1 DEF IInv
  <2>3. InPlace(b)
    BY <1>1, <1>2, <1>4, <2>2, InPlaceFront DEF Whole, InFull, Stream
  <2> QED
    BY <1>1, <2>2, <2>3 DEF Whole
<1>13. (~Upset => Own)'
  <2>1. SUFFICES ASSUME ~Upset PROVE Own'
    BY <1>1 DEF Upset
  <2>2. Own
    BY <2>1 DEF IInv
  <2>3. Executed' = Executed
    BY <1>1 DEF Executed
  <2>4. \A i \in 1 .. Len(replies') :
           /\ i \in 1 .. Len(replies)
           /\ replies'[i].call = calls
           /\ replies'[i].part = IF i = 1 /\ stage \in {"writing", "waiting"}
                                 THEN "name" ELSE "rest"
    BY <1>6, <2>2 DEF Own
  <2>5. /\ Len(replies') <= 2
        /\ stage \in {"skipping", "result"} => Len(replies') <= 1
    BY <1>6, <2>2 DEF Own
  <2>6. replies' # <<>> => replies # <<>>
    BY <1>6
  <2> QED
    BY <1>1, <1>6, <2>2, <2>3, <2>4, <2>5, <2>6 DEF Own
<1> QED
  BY <1>7, <1>8, <1>9, <1>10, <1>11, <1>12, <1>13 DEF IInv

LEMMA ParseFailsStep ==
    ASSUME IInv, ParseFails
    PROVE  IInv'
<1>1. SubSeq(wire, 1, 0) \in Prefixes(wire)
  BY LenProperties DEF Prefixes, IInv, Types
<1>2. late \cup {} = late /\ {} \subseteq {SubSeq(wire, 1, 0)}
  OBVIOUS
<1>3. faults' \in 0 .. MaxFaults
  BY DEF ParseFails, IInv, Types
<1>4. Hangs(SubSeq(wire, 1, 0), {})
  BY <1>1, <1>2, <1>3 DEF Hangs, ParseFails, Hangup
<1> QED
  BY <1>4, HangsStep

LEMMA ConnectionLostStep ==
    ASSUME IInv, ConnectionLost
    PROVE  IInv'
<1>1. PICK b \in Prefixes(wire) : late' = late \cup Received(b)
  BY DEF ConnectionLost
<1>2. Received(b) \subseteq {b} /\ \A y \in Received(b) : Complete(y)
  BY DEF Received
<1>3. faults' \in 0 .. MaxFaults
  BY ConstantsAssumption DEF ConnectionLost, IInv, Types
<1>4. Hangs(b, Received(b))
  BY <1>1, <1>2, <1>3 DEF Hangs, ConnectionLost, Hangup
<1> QED
  BY <1>4, HangsStep

-----------------------------------------------------------------------------
(* The client reads replies.                                               *)

(* Nothing is written or executed.                                         *)
Quiet ==
    /\ UNCHANGED <<wbuf, todo, calls, named, wire, late, executed, spilled>>
    /\ link' = link \/ (link = "silent" /\ link' = "broken")
    /\ stage' = stage \/ (stage \in Reading /\ stage' \in {"idle"} \cup Reading)
    /\ replies' \in Seq(ReplyParts)
    /\ returned' \in Seq([call : CallNos, by : CallNos])
    /\ slipped \subseteq slipped' /\ slipped' \subseteq slipped \cup {"read"}
    /\ faults' \in 0 .. MaxFaults

LEMMA QuietStep ==
    ASSUME IInv, Quiet, ~Upset' => Own'
    PROVE  IInv'
<1>1. /\ Types /\ Shape /\ Residue /\ Past
      /\ UNCHANGED <<wbuf, todo, calls, named, wire, late, executed, spilled>>
      /\ link' = link \/ (link = "silent" /\ link' = "broken")
      /\ stage' = stage \/ (stage \in Reading /\ stage' \in {"idle"} \cup Reading)
      /\ slipped \subseteq slipped' /\ slipped' \subseteq slipped \cup {"read"}
  BY DEF IInv, Quiet
<1>2. stage' # stage => wbuf = <<>> /\ todo = <<>> /\ stage # "half" /\ stage' # "half" /\ stage # "idle"
  BY <1>1 DEF Shape, Reading
<1>3. Ahead' = Ahead /\ Kept' = Kept /\ Unsent' = Unsent /\ Stream' = Stream
  <2>1. Ahead' = Ahead /\ Kept' = Kept
    BY <1>1 DEF Ahead, AheadOf, Kept
  <2>2. Unsent' = Unsent
    BY <1>1, <1>2, <2>1 DEF Unsent
  <2> QED
    BY <1>1, <2>1, <2>2 DEF Stream
<1>4. Types'
  BY <1>1 DEF Types, Quiet, Reading, TodoOf
<1>5. Shape'
  <2>1. stage' # "idle" => stage # "idle"
    BY <1>1, <1>2
  <2>2. stage' = "half" => stage = "half"
    BY <1>2
  <2>3. todo # <<>> => stage' = stage
    BY <1>2
  <2>4. stage' \in Reading => wbuf = <<>>
    BY <1>1, <1>2 DEF Shape
  <2>5. link' = "closed" => link = "closed" /\ stage' = "idle"
    BY <1>1, <1>2 DEF Shape
  <2>6. link' # "up" => link # "up"
    BY <1>1
  <2> QED
    BY <1>1, <2>1, <2>2, <2>3, <2>4, <2>5, <2>6 DEF Shape, Fits, Joined
<1>6. Residue'
  <2>1. CASE stage' = stage
    BY <1>1, <1>3, <2>1 DEF Residue
  <2>2. CASE stage' # stage
    BY <1>1, <1>2, <2>2, NoStarts DEF Residue
  <2> QED
    BY <2>1, <2>2
<1>7. Past'
  BY <1>1, PastKept DEF Past
<1>8. ("up" \notin spilled => Once)'
  <2>1. SUFFICES ASSUME "up" \notin spilled PROVE Once'
    BY <1>1
  <2>2. Once
    BY <2>1 DEF IInv
  <2>3. stage' = "half" => stage = "half"
    BY <1>2
  <2> QED
    BY <1>1, <1>3, <2>2, <2>3, OnceKept DEF Once
<1>9. (WritesFine => Whole)'
  <2>1. SUFFICES ASSUME WritesFine PROVE Whole'
    BY <1>1 DEF WritesFine
  <2>2. Whole
    BY <2>1 DEF IInv
  <2>3. stage' = "idle" => wbuf = <<>>
    BY <1>2, <2>2 DEF Whole
  <2> QED
    BY <1>1, <1>3, <2>2, <2>3 DEF Whole
<1> QED
  BY <1>4, <1>5, <1>6, <1>7, <1>8, <1>9 DEF IInv

LEMMA LossReportedStep ==
    ASSUME IInv, LossReported \/ UNCHANGED vars
    PROVE  IInv'
<1>1. /\ Types
      /\ link' = link \/ (link = "silent" /\ link' = "broken")
      /\ UNCHANGED <<wbuf, todo, stage, calls, named, wire, replies, late, executed,
                     returned, spilled, slipped, faults>>
  BY DEF IInv, LossReported, vars
<1>2. Quiet
  <2>1. /\ replies' \in Seq(ReplyParts) /\ returned' \in Seq([call : CallNos, by : CallNos])
        /\ faults' \in 0 .. MaxFaults
    BY <1>1 DEF Types
  <2>2. slipped \subseteq slipped' /\ slipped' \subseteq slipped \cup {"read"}
    BY <1>1
  <2>3. stage' = stage \/ (stage \in Reading /\ stage' \in {"idle"} \cup Reading)
    BY <1>1
  <2> QED
    BY <1>1, <2>1, <2>2, <2>3 DEF Quiet
<1>3. ASSUME ~Upset' PROVE Own'
  <2>1. Own
    BY <1>1, <1>3 DEF Upset, IInv
  <2>2. link' = "up" => link = "up" /\ Stream' = Stream
    BY <1>1 DEF Stream, Unsent, Kept, Ahead, AheadOf
  <2>3. Executed' = Executed
    BY <1>1 DEF Executed
  <2> QED
    BY <1>1, <2>1, <2>2, <2>3 DEF Own
<1> QED
  BY <1>2, <1>3, QuietStep

LEMMA ReceiveFailsStep ==
    ASSUME IInv, ReceiveFails
    PROVE  IInv'
<1>1. /\ Types /\ Shape /\ stage \in Reading /\ stage' = "idle" /\ replies = <<>>
      /\ link = "broken"
      /\ UNCHANGED <<link, wbuf, todo, calls, named, wire, replies, late, executed,
                     returned, spilled, slipped, faults>>
  BY DEF IInv, ReceiveFails
<1>2. Quiet
  BY <1>1 DEF Quiet, Types
<1>3. ASSUME ~Upset' PROVE Own'
  <2>1. Own
    BY <1>1, <1>3 DEF Upset, IInv
  <2>2. todo = <<>> /\ wbuf = <<>> /\ wire = <<>> /\ link' # "up"
    BY <1>1 DEF Shape, Reading
  <2>3. Executed' = Executed
    BY <1>1 DEF Executed
  <2>4. Len(replies) = 0
    BY <1>1, EmptySeq
  <2> QED
    BY <1>1, <2>1, <2>2, <2>3, <2>4 DEF Own
<1> QED
  BY <1>2, <1>3, QuietStep

LEMMA ReceiveSlipsStep ==
    ASSUME IInv, ReceiveSlips
    PROVE  IInv'
<1>1. /\ Types /\ stage \in Reading /\ stage' = "idle" /\ slipped' = slipped \cup {"read"}
      /\ faults < MaxFaults /\ faults' = faults + 1
      /\ replies' = replies \/ (replies # <<>> /\ replies' = Tail(replies))
      /\ UNCHANGED <<link, wbuf, todo, calls, named, wire, late, executed, returned, spilled>>
  BY DEF IInv, ReceiveSlips, Slips
<1>2. replies' \in Seq(ReplyParts)
  <2>1. replies \in Seq(ReplyParts)
    BY <1>1 DEF Types
  <2> QED
    BY <1>1, <2>1, HeadTailProperties
<1>3. faults' \in 0 .. MaxFaults
  BY <1>1, ConstantsAssumption DEF Types
<1>4. Quiet
  BY <1>1, <1>2, <1>3 DEF Quiet, Types
<1>5. Upset'
  BY <1>1 DEF Upset
<1> QED
  BY <1>4, <1>5, QuietStep

LEMMA ReceiveStep ==
    ASSUME IInv, Receive
    PROVE  IInv'
<1> DEFINE p == Head(replies)
           a == [call |-> calls, by |-> p.call]
<1>1. /\ Types /\ Shape /\ stage \in Reading /\ replies # <<>> /\ replies' = Tail(replies)
      /\ \/ /\ p.part = Expected /\ stage = "waiting"
            /\ stage' \in {"result", "skipping"} /\ returned' = returned
         \/ /\ p.part = Expected /\ stage = "skipping"
            /\ stage' = "result" /\ returned' = returned
         \/ /\ p.part = Expected /\ stage = "result"
            /\ stage' = "idle" /\ returned' = Append(returned, a)
         \/ p.part # Expected /\ stage' \in {stage, "idle"} /\ returned' = returned
      /\ UNCHANGED <<link, wbuf, todo, calls, named, wire, late, executed, spilled,
                     slipped, faults>>
  BY DEF IInv, Receive
<1>2. /\ replies \in Seq(ReplyParts) /\ p \in ReplyParts /\ replies' \in Seq(ReplyParts)
      /\ Len(replies) \in Nat \ {0} /\ Len(replies') = Len(replies) - 1
      /\ p = replies[1]
      /\ \A i \in 1 .. Len(replies') : replies'[i] = replies[i + 1]
  <2>1. replies \in Seq(ReplyParts)
    BY <1>1 DEF Types
  <2>2. Len(replies) \in Nat /\ Len(replies) # 0
    BY <1>1, <2>1, EmptySeq, LenProperties
  <2>3. /\ p \in ReplyParts /\ replies' \in Seq(ReplyParts) /\ Len(replies') = Len(replies) - 1
        /\ \A i \in 1 .. Len(replies') : replies'[i] = replies[i + 1]
    BY <1>1, <2>1, HeadTailProperties
  <2> QED
    BY <2>1, <2>2, <2>3
<1>3. calls \in CallNos
  BY <1>1, ConstantsAssumption DEF Types, Shape, Reading, CallNos
<1>4. a \in [call : CallNos, by : CallNos] /\ a.call = calls /\ a.by = p.call
  BY <1>2, <1>3 DEF ReplyParts
<1> HIDE DEF p, a
<1>5. returned' \in Seq([call : CallNos, by : CallNos])
  <2>1. returned \in Seq([call : CallNos, by : CallNos])
    BY <1>1 DEF Types
  <2>2. CASE returned' = returned
    BY <2>1, <2>2
  <2>3. CASE returned' = Append(returned, a)
    BY <1>4, <2>1, <2>3, AppendProperties
  <2>4. returned' = returned \/ returned' = Append(returned, a)
    BY <1>1
  <2> QED
    BY <2>2, <2>3, <2>4
<1>6. Quiet
  <2>1. stage' \in {"idle"} \cup Reading
    BY <1>1 DEF Reading
  <2> QED
    BY <1>1, <1>2, <1>5, <2>1 DEF Quiet, Types
<1>7. ASSUME ~Upset' PROVE Own'
  <2>1. Own
    BY <1>1, <1>7 DEF Upset, IInv
  <2>2. todo = <<>> /\ wbuf = <<>> /\ wire = <<>> /\ calls \in Executed /\ stage # "idle"
    BY <1>1, <2>1 DEF Own
  <2>3. link' = "up" => link = "up" /\ Stream' = Stream
    <3>1. stage # "half" /\ stage' # "half"
      BY <1>1 DEF Reading
    <3> QED
      BY <1>1, <3>1 DEF Stream, Unsent, Kept, Ahead, AheadOf
  <2>4. Executed' = Executed
    BY <1>1 DEF Executed
  <2>5. /\ Len(replies) <= 2 /\ p.call = calls
        /\ p.part = IF stage = "waiting" THEN "name" ELSE "rest"
        /\ stage \in {"skipping", "result"} => Len(replies) <= 1
    <3>1. 1 \in 1 .. Len(replies)
      BY <1>2
    <3>2. stage # "writing"
      BY <1>1 DEF Reading
    <3> QED
      BY <1>2, <2>1, <3>1, <3>2 DEF Own
  <2>6. p.part = Expected
    BY <2>5 DEF Expected
  <2>7. Len(replies') <= 1 /\ (stage # "waiting" => Len(replies') = 0)
    BY <1>1, <1>2, <2>5 DEF Reading
  <2>8. \A i \in 1 .. Len(replies') : replies'[i].call = calls /\ replies'[i].part = "rest"
    <3>1. TAKE i \in 1 .. Len(replies')
    <3>2. i + 1 \in 1 .. Len(replies) /\ i + 1 # 1 /\ replies'[i] = replies[i + 1]
      BY <1>2
    <3> QED
      BY <2>1, <3>2 DEF Own
  <2>9. /\ stage' \in {"idle", "skipping", "result"}
        /\ stage' = "idle" => stage = "result" /\ returned' = Append(returned, a)
        /\ stage' # "idle" => returned' = returned
    BY <1>1, <2>6
  <2>10. \A i \in 1 .. Len(returned') :
            returned'[i].by = returned'[i].call /\ returned'[i].call \in Executed
    <3>1. CASE returned' = returned
      BY <2>1, <3>1 DEF Own
    <3>2. CASE returned' = Append(returned, a)
      <4>1. returned \in Seq([call : CallNos, by : CallNos])
        BY <1>1 DEF Types
      <4>2. /\ Len(returned') = Len(returned) + 1 /\ Len(returned) \in Nat
            /\ \A i \in 1 .. Len(returned) : returned'[i] = returned[i]
            /\ returned'[Len(returned) + 1] = a
        BY <1>4, <3>2, <4>1, AppendProperties, LenProperties
      <4>3. TAKE i \in 1 .. Len(returned')
      <4>4. i \in 1 .. Len(returned) \/ i = Len(returned) + 1
        BY <4>2
      <4> QED
        BY <1>4, <2>1, <2>2, <2>5, <4>2, <4>4 DEF Own
    <3> QED
      BY <2>9, <3>1, <3>2
  <2>11. stage' = "idle" => replies' = <<>>
    BY <1>2, <2>7, <2>9, EmptySeq
  <2>12. link' = "up" => \A i \in 1 .. Len(Stream') : Stream'[i].call = calls'
    BY <1>1, <2>1, <2>3 DEF Own
  <2>13. todo' = <<>> /\ wbuf' = <<>> /\ wire' = <<>> /\ calls' = calls
    BY <1>1, <2>2
  <2>14. \A i \in 1 .. Len(replies') :
            /\ replies'[i].call = calls'
            /\ replies'[i].part = IF i = 1 /\ stage' \in {"writing", "waiting"}
                                  THEN "name" ELSE "rest"
    BY <2>8, <2>9, <2>13
  <2> QED
    BY <1>2, <2>2, <2>4, <2>7, <2>10, <2>11, <2>12, <2>13, <2>14 DEF Own
<1> QED
  BY <1>6, <1>7, QuietStep

-----------------------------------------------------------------------------
(* The invariant holds.                                                    *)

LEMMA Initial == Init => IInv
<1> SUFFICES ASSUME Init PROVE IInv
  OBVIOUS
<1>1. /\ link = "up" /\ wbuf = <<>> /\ todo = <<>> /\ stage = "idle" /\ calls = 0
      /\ named = "none" /\ wire = <<>> /\ replies = <<>> /\ late = {}
      /\ executed = <<>> /\ returned = <<>> /\ spilled = {} /\ slipped = {} /\ faults = 0
  BY DEF Init
<1>2. Len(<<>>) = 0 /\ \A S : <<>> \in Seq(S)
  BY EmptySeq
<1>3. <<>> \in Seq(Byte)
  BY <1>2
<1>4. Ahead = <<>> /\ Kept = <<>> /\ Unsent = <<>> /\ Stream = <<>>
  <2>1. <<>> \o <<>> = <<>>
    BY <1>3, Joining
  <2> QED
    BY <1>1, <2>1 DEF Ahead, AheadOf, Kept, Unsent, Stream
<1>5. Types
  BY <1>1, <1>2, ConstantsAssumption DEF Types, Names
<1>6. Shape
  BY <1>1, <1>2, ConstantsAssumption DEF Shape, Reading
<1>7. Residue
  BY <1>1, NoStarts DEF Residue
<1>8. Executed = {} /\ Done = {}
  BY <1>1, <1>2 DEF Executed, Done
<1>9. Past
  BY <1>1, <1>8, NoStarts DEF Past
<1>10. Once
  BY <1>1, <1>2, <1>4, <1>8, NoStarts DEF Once
<1>11. Whole
  BY <1>1, <1>2, <1>4 DEF Whole, InFull, InPlace
<1>12. Own
  BY <1>1, <1>2, <1>4 DEF Own
<1> QED
  BY <1>5, <1>6, <1>7, <1>9, <1>10, <1>11, <1>12 DEF IInv

LEMMA Step == IInv /\ [Next]_vars => IInv'
<1> SUFFICES ASSUME IInv, [Next]_vars PROVE IInv'
  OBVIOUS
<1>1. ASSUME NEW n \in DataLens, Begin(n) PROVE IInv'
  BY <1>1, BeginStep
<1>2. CASE WriteFast
  BY <1>2, WriteFastStep
<1>3. CASE WriteBuffer
  BY <1>3, WriteBufferStep
<1>4. CASE WritePiece
  BY <1>4, WritePieceStep
<1>5. CASE WriteFilled
  BY <1>5, WriteFilledStep
<1>6. CASE Flush
  BY <1>6, FlushStep
<1>7. CASE Serve
  BY <1>7, ServeStep
<1>8. CASE ParseFails
  BY <1>8, ParseFailsStep
<1>9. ASSUME NEW b \in late, ServeLate(b) PROVE IInv'
  BY <1>9, ServeLateStep
<1>10. CASE Receive
  BY <1>10, ReceiveStep
<1>11. CASE ReceiveFails
  BY <1>11, ReceiveFailsStep
<1>12. CASE ReceiveSlips
  BY <1>12, ReceiveSlipsStep
<1>13. CASE ConnectionLost
  BY <1>13, ConnectionLostStep
<1>14. CASE LossReported \/ UNCHANGED vars
  BY <1>14, LossReportedStep
<1> QED
  BY <1>1, <1>2, <1>3, <1>4, <1>5, <1>6, <1>7, <1>8, <1>9, <1>10, <1>11, <1>12, <1>13,
     <1>14 DEF Next

(* The invariant holds of every state of the stream, for any size of the   *)
(* buffer and of the data: headers stay single while writeSlow does not    *)
(* fail on a living connection, requests whole while no write does, and    *)
(* replies the present call's while nothing is upset.                      *)
THEOREM StreamInvariant == Spec => []IInv
BY Initial, Step, PTL DEF Spec


(* Every variable has its type, and the write buffer never holds more than *)
(* wBufSize_ bytes, whatever writeSlow has left in it before.              *)
THEOREM TypeCorrect == Spec => []TypeOK
<1>1. IInv => TypeOK
  <2>1. SUFFICES ASSUME IInv PROVE TypeOK
    OBVIOUS
  <2>2. Types /\ Shape
    BY <2>1 DEF IInv
  <2>3. \A s \in {wbuf, wire} \cup late : s \in Seq(Byte)
    BY <2>2 DEF Types
  <2>4. \A s \in {wbuf, wire} \cup late : \A i \in DOMAIN s : s[i] \in Byte
    <3>1. TAKE s \in {wbuf, wire} \cup late
    <3>2. s \in Seq(Byte) /\ DOMAIN s = 1 .. Len(s)
      BY <2>3, LenProperties
    <3> QED
      BY <3>2, ElementOfSeq
  <2> QED
    BY <2>2, <2>4 DEF Types, Shape, TypeOK
<1> QED
  BY <1>1, StreamInvariant, PTL

(* However connections fail and are opened again under the one transport   *)
(* object, and whatever failing reads and writes leave behind, no call is  *)
(* executed twice, unless writeSlow has failed on a living connection.     *)
THEOREM ExecutedAtMostOnce == Spec => []AtMostOnce
<1>1. IInv => AtMostOnce
  <2>1. SUFFICES ASSUME IInv, "up" \notin spilled
                 PROVE  \A i, j \in DOMAIN executed :
                           executed[i].call = executed[j].call => i = j
    BY DEF AtMostOnce
  <2>2. DOMAIN executed = 1 .. Len(executed)
    BY <2>1, LenProperties DEF IInv, Types
  <2> QED
    BY <2>1, <2>2 DEF IInv, Once
<1> QED
  BY <1>1, StreamInvariant, PTL

(* The server puts a request together of the bytes of two calls only after *)
(* writeSlow has failed, or flush() has on a living connection: a read     *)
(* which fails, and a flush() on a broken connection, do not lead there.   *)
THEOREM MixedAfterFailedWriteOnly == Spec => []MixedOnlyAfterFailedWrite
<1>1. IInv => MixedOnlyAfterFailedWrite
  <2>1. SUFFICES ASSUME IInv, spilled = {}, "write" \notin slipped
                 PROVE  \A i \in DOMAIN executed : executed[i].whole
    BY DEF MixedOnlyAfterFailedWrite
  <2>2. DOMAIN executed = 1 .. Len(executed)
    BY <2>1, LenProperties DEF IInv, Types
  <2> QED
    BY <2>1, <2>2 DEF IInv, Whole, WritesFine
<1> QED
  BY <1>1, StreamInvariant, PTL

(* While nothing has failed on a living connection, nor in writeSlow, a    *)
(* result which recv_<op> returns answers the very call it is returned to, *)
(* and that call has been executed: losses of the connection, requests     *)
(* executed late, and replies kept in rBuf_ do not confuse calls.          *)
THEOREM OwnResults == Spec => []ResultsAreOwn
<1>1. IInv => ResultsAreOwn
  <2>1. SUFFICES ASSUME IInv, ~Upset
                 PROVE  \A i \in DOMAIN returned :
                           /\ returned[i].by = returned[i].call
                           /\ \E j \in DOMAIN executed : executed[j].call = returned[i].call
    BY DEF ResultsAreOwn
  <2>2. DOMAIN executed = 1 .. Len(executed) /\ DOMAIN returned = 1 .. Len(returned)
    BY <2>1, LenProperties DEF IInv, Types
  <2>3. \A i \in 1 .. Len(returned) :
           returned[i].by = returned[i].call /\ returned[i].call \in Executed
    BY <2>1 DEF IInv, Own
  <2> QED
    BY <2>2, <2>3 DEF Executed
<1> QED
  BY <1>1, StreamInvariant, PTL

-----------------------------------------------------------------------------
(* The stream implements a remote call.                                    *)

ExecutedCalls == {executed[i].call : i \in DOMAIN executed}
ReturnedCalls == {returned[i].call : i \in DOMAIN returned}

LEMMA CallSets ==
    ASSUME Types
    PROVE  ExecutedCalls = Executed
<1>1. DOMAIN executed = 1 .. Len(executed)
  BY LenProperties DEF Types
<1> QED
  BY <1>1 DEF ExecutedCalls, Executed

(* Executing a request adds its call, which has not been executed before.  *)
LEMMA ExecutionMaps ==
    ASSUME Types, NEW r \in Requests, r.call <= calls, r.call \notin Executed,
           executed' = Append(executed, r), UNCHANGED <<calls, stage, returned>>,
           ~Upset, ~Upset'
    PROVE  Abstract!Next
<1>1. executed \in Seq(Requests) /\ Len(executed) \in Nat
  BY LenProperties DEF Types
<1>2. /\ executed' \in Seq(Requests) /\ Len(executed') = Len(executed) + 1
      /\ \A i \in 1 .. Len(executed) : executed'[i] = executed[i]
      /\ executed'[Len(executed) + 1] = r
  BY <1>1, AppendProperties
<1>3. DOMAIN executed = 1 .. Len(executed) /\ DOMAIN executed' = 1 .. Len(executed')
  BY <1>1, <1>2, LenProperties
<1>4. r.call \notin ExecutedCalls
  BY CallSets
<1>5. ExecutedCalls' = ExecutedCalls \cup {r.call}
  <2>1. 1 .. Len(executed') = 1 .. Len(executed) \cup {Len(executed) + 1}
    BY <1>1, <1>2
  <2> QED
    BY <1>2, <1>3, <2>1 DEF ExecutedCalls
<1>6. r.call \in 1 .. calls
  BY ConstantsAssumption DEF Types, Requests, CallNos
<1>7. ReturnedCalls' = ReturnedCalls
  BY DEF ReturnedCalls
<1>8. Abstract!Execute(r.call)
  BY <1>4, <1>5, <1>7 DEF Abstract!Execute, ExecutedCalls, ReturnedCalls
<1> QED
  BY <1>6, <1>8 DEF Abstract!Next, Abstract!Promised

(* Nothing that a remote call is about changes.                            *)
LEMMA Stutters ==
    ASSUME UNCHANGED <<calls, executed, returned>>, stage = "idle" <=> stage' = "idle",
           Upset' <=> Upset
    PROVE  UNCHANGED Abstract!vars
<1>1. (stage # "idle")' = (stage # "idle")
  OBVIOUS
<1>2. Upset' = Upset
  BY Zenon DEF Upset
<1> QED
  BY <1>1, <1>2 DEF Abstract!vars

(* The call is given up.                                                   *)
LEMMA FailureMaps ==
    ASSUME UNCHANGED <<calls, executed, returned>>, stage # "idle", stage' = "idle",
           ~Upset, ~Upset'
    PROVE  Abstract!Next
<1>1. Abstract!Fail
  BY DEF Abstract!Fail
<1> QED
  BY <1>1 DEF Abstract!Next, Abstract!Promised

(* What has failed is not forgotten.                                       *)
LEMMA UpsetStays ==
    ASSUME [Next]_vars
    PROVE  spilled \subseteq spilled' /\ slipped \subseteq slipped'
<1>1. CASE Writes
  BY <1>1 DEF Writes, WriteFast, WriteBuffer, WritePiece, WriteFilled, Flush, SlowThrows,
         Throws, ThrowsGone, ThrowsAlive, Slips, Sends, FlushSends, FlushThrows
<1>2. CASE Serve \/ ParseFails \/ Receive \/ ReceiveFails \/ ReceiveSlips \/ ConnectionLost
           \/ LossReported \/ UNCHANGED vars
  BY <1>2 DEF Serve, ParseFails, Receive, ReceiveFails, ReceiveSlips, Slips, ConnectionLost,
         LossReported, vars
<1>3. ASSUME NEW n \in DataLens, Begin(n) PROVE UNCHANGED <<spilled, slipped>>
  BY <1>3 DEF Begin
<1>4. ASSUME NEW b \in late, ServeLate(b) PROVE UNCHANGED <<spilled, slipped>>
  BY <1>4 DEF ServeLate
<1> QED
  BY <1>1, <1>2, <1>3, <1>4 DEF Next, Writes

LEMMA WritesMap ==
    ASSUME Writes, ~Upset, ~Upset'
    PROVE  Abstract!Next \/ UNCHANGED Abstract!vars
<1>1. stage \in {"writing", "half"} /\ UNCHANGED <<calls, executed, returned>>
  BY DEF Writes, WriteFast, WriteBuffer, WritePiece, WriteFilled, Flush
<1>2. CASE stage' = "idle"
  BY <1>1, <1>2, FailureMaps
<1>3. CASE stage' # "idle"
  BY <1>1, <1>3, Stutters
<1> QED
  BY <1>2, <1>3

LEMMA ReceiveMaps ==
    ASSUME IInv, Receive, ~Upset, ~Upset'
    PROVE  Abstract!Next \/ UNCHANGED Abstract!vars
<1> DEFINE a == [call |-> calls, by |-> Head(replies).call]
<1>1. /\ Types /\ Shape /\ Own /\ stage \in Reading /\ replies # <<>>
      /\ UNCHANGED <<calls, executed>>
  BY DEF IInv, Receive
<1>2. stage # "idle" /\ calls \in CallNos /\ calls \in Executed
  BY <1>1, ConstantsAssumption DEF Reading, Types, Shape, Own, CallNos
<1>3. CASE returned' = returned /\ stage' # "idle"
  BY <1>1, <1>2, <1>3, Stutters
<1>4. CASE returned' = returned /\ stage' = "idle"
  BY <1>1, <1>2, <1>4, FailureMaps
<1>5. CASE stage' = "idle" /\ returned' = Append(returned, a)
  <2>1. returned \in Seq([call : CallNos, by : CallNos]) /\ replies \in Seq(ReplyParts)
    BY <1>1 DEF Types
  <2>2. Head(replies) \in ReplyParts
    BY <1>1, <2>1, HeadTailProperties
  <2>3. a \in [call : CallNos, by : CallNos] /\ a.call = calls
    BY <1>2, <2>2 DEF ReplyParts
  <2> HIDE DEF a
  <2>4. /\ returned' \in Seq([call : CallNos, by : CallNos])
        /\ Len(returned') = Len(returned) + 1 /\ Len(returned) \in Nat
        /\ \A i \in 1 .. Len(returned) : returned'[i] = returned[i]
        /\ returned'[Len(returned) + 1] = a
    BY <1>5, <2>1, <2>3, AppendProperties, LenProperties
  <2>5. DOMAIN returned = 1 .. Len(returned) /\ DOMAIN returned' = 1 .. Len(returned')
    BY <2>1, <2>4, LenProperties
  <2>6. ReturnedCalls' = ReturnedCalls \cup {calls}
    <3>1. 1 .. Len(returned') = 1 .. Len(returned) \cup {Len(returned) + 1}
      BY <2>4
    <3> QED
      BY <2>3, <2>4, <2>5, <3>1 DEF ReturnedCalls
  <2>7. calls \in ExecutedCalls
    BY <1>1, <1>2, CallSets
  <2>8. ExecutedCalls' = ExecutedCalls
    BY <1>1 DEF ExecutedCalls
  <2>9. Abstract!Return
    BY <1>1, <1>2, <1>5, <2>6, <2>7, <2>8 DEF Abstract!Return, ExecutedCalls, ReturnedCalls
  <2> QED
    BY <2>9 DEF Abstract!Next, Abstract!Promised
<1> QED
  BY <1>3, <1>4, <1>5 DEF Receive

(* The server executes a request of the living connection ...              *)
LEMMA ServeMaps ==
    ASSUME IInv, Serve, ~Upset, ~Upset'
    PROVE  Abstract!Next
<1> DEFINE c == wire[1].call
<1>1. /\ Types /\ Past /\ Once /\ link = "up" /\ Complete(wire)
      /\ executed' = Append(executed, Parsed(wire)) /\ UNCHANGED <<calls, stage, returned>>
  BY DEF IInv, Serve, Upset
<1>2. wire \in Seq(Byte)
  BY <1>1 DEF Types
<1>3. Parsed(wire) \in Requests /\ Parsed(wire).call = c
  BY <1>1, <1>2, ParsedTypes
<1>4. c \in Starts(wire)
  BY <1>1, <1>2, AfterFirst
<1>5. c \in 1 .. calls
  BY <1>1, <1>4 DEF Past
<1>6. c \notin Executed
  BY <1>1, <1>4, StreamStarts DEF Once, Done
<1>7. c <= calls
  BY <1>5
<1> HIDE DEF c
<1> QED
  BY <1>1, <1>3, <1>6, <1>7, ExecutionMaps

(* ... or what a lost one had carried.                                     *)
LEMMA ServeLateMaps ==
    ASSUME IInv, NEW b \in late, ServeLate(b), ~Upset, ~Upset'
    PROVE  Abstract!Next
<1> DEFINE c == b[1].call
<1>1. /\ Types /\ Shape /\ Past /\ Once
      /\ executed' = Append(executed, Parsed(b)) /\ UNCHANGED <<calls, stage, returned>>
  BY DEF IInv, ServeLate, Upset
<1>2. b \in Seq(Byte) /\ Complete(b)
  BY <1>1 DEF Types, Shape
<1>3. Parsed(b) \in Requests /\ Parsed(b).call = c
  BY <1>2, ParsedTypes
<1>4. c \in Starts(b) /\ c \in Viable(b)
  BY <1>2, AfterFirst
<1>5. c \in 1 .. calls
  BY <1>1, <1>4 DEF Past
<1>6. c \notin Executed
  BY <1>1, <1>4 DEF Once
<1>7. c <= calls
  BY <1>5
<1> HIDE DEF c
<1> QED
  BY <1>1, <1>3, <1>6, <1>7, ExecutionMaps

(* The safety of RemoteCall: one call at a time, executed at most once and *)
(* reported as done only if it has been, until something has failed on a   *)
(* living connection or in writeSlow.                                      *)
THEOREM StreamRefinesRemoteCall == Spec => Abstract!SafeSpec
<1>1. Init => Abstract!Init
  <2>1. SUFFICES ASSUME Init PROVE Abstract!Init
    OBVIOUS
  <2>2. DOMAIN <<>> = {}
    BY EmptySeq, LenProperties
  <2> QED
    BY <2>1, <2>2 DEF Init, Upset, Abstract!Init
<1>2. IInv /\ [Next]_vars => [Abstract!Next]_(Abstract!vars)
  <2>1. SUFFICES ASSUME IInv, [Next]_vars, ~Upset'
                 PROVE  Abstract!Next \/ UNCHANGED Abstract!vars
    BY DEF Abstract!Next
  <2>2. ~Upset
    BY <2>1, UpsetStays DEF Upset
  <2>3. ASSUME NEW n \in DataLens, Begin(n) PROVE Abstract!Next
    <3>1. Abstract!Call
      BY <2>3 DEF Begin, Abstract!Call
    <3> QED
      BY <2>1, <2>2, <3>1 DEF Abstract!Next, Abstract!Promised
  <2>4. CASE Writes
    BY <2>1, <2>2, <2>4, WritesMap
  <2>5. CASE Serve
    BY <2>1, <2>2, <2>5, ServeMaps
  <2>6. ASSUME NEW b \in late, ServeLate(b) PROVE Abstract!Next
    BY <2>1, <2>2, <2>6, ServeLateMaps
  <2>7. CASE Receive
    BY <2>1, <2>2, <2>7, ReceiveMaps
  <2>8. CASE ReceiveFails
    <3>1. UNCHANGED <<calls, executed, returned>> /\ stage # "idle" /\ stage' = "idle"
      BY <2>8 DEF ReceiveFails, Reading
    <3> QED
      BY <2>1, <2>2, <3>1, FailureMaps
  <2>9. CASE ReceiveSlips
    <3>1. Upset'
      BY <2>9 DEF ReceiveSlips, Slips, Upset
    <3> QED
      BY <2>1, <3>1
  <2>10. CASE ParseFails \/ ConnectionLost \/ LossReported \/ UNCHANGED vars
    <3>1. UNCHANGED <<calls, executed, returned, spilled, slipped, stage>>
      BY <2>10 DEF ParseFails, ConnectionLost, LossReported, vars
    <3> QED
      BY <2>1, <2>2, <3>1, Stutters
  <2> QED
    BY <2>1, <2>3, <2>4, <2>5, <2>6, <2>7, <2>8, <2>9, <2>10 DEF Next, Writes
<1> QED
  BY <1>1, <1>2, StreamInvariant, PTL DEF Spec, Abstract!SafeSpec

=============================================================================
