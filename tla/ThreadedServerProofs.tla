------------------------ MODULE ThreadedServerProofs ------------------------
(***************************************************************************)
(* Proofs about the server's side of a connection: ThreadedServer, whose   *)
(* tasks run the processor, for any connections and any number of          *)
(* failures, and ServiceCall, the processor with the client's stubs, for   *)
(* any interfaces and any number of calls.                                 *)
(*                                                                         *)
(* TasksAreKnown and ClosesOnlyItsOwn are not inductive: they need to know *)
(* where a connection is which serve() has in hand, and that it has none   *)
(* while it accepts; and that a task whose service has not failed closes   *)
(* its connection only when the client has gone.                           *)
(*                                                                         *)
(* InStep is about the time between calls.  SInv says what is on the       *)
(* connection within a call: its request, or one of three answers, each    *)
(* with what has happened on the server by then.  What is handled and      *)
(* returned is named by the types HandledIn and EndedIn, as functions of   *)
(* the call, so that nothing but the fields' names has to be argued about. *)
(***************************************************************************)
EXTENDS ThreadedServer, ServiceCall, SequenceTheorems, TLAPS

USE DEF Live

InHand ==
    /\ pc = "accept" => client = NoConn
    /\ pc \in {"insert", "start"} => client \in Conns /\ thread[client] = "made"
    /\ \A c \in Conns :
          thread[c] = "made" => client = c /\ pc \in {"insert", "start"}

Served ==
    \A c \in Conns :
        /\ thread[c] \in {"made", "runs"} => conn[c] \in {"open", "left"}
        /\ thread[c] = "closes" => conn[c] = "left" \/ c \in failed

IInv == TypeOK /\ InHand /\ Served /\ TasksAreKnown

LEMMA InitIInv == Init => IInv
BY DEF Init, IInv, TypeOK, InHand, Served, TasksAreKnown

-----------------------------------------------------------------------------
(* Steps of serve().                                                       *)

LEMMA RoundIInv == IInv /\ Round => IInv'
BY ConstantsAssumption DEF IInv, TypeOK, InHand, Served, TasksAreKnown, Round, Reset

LEMMA AcceptIInv == ASSUME IInv, NEW c \in Conns, Accept(c) PROVE IInv'
<1>1. /\ pc = "accept" /\ thread[c] = "none" /\ conn[c] \in {"backlog", "left"}
      /\ client' = c /\ pc' = "insert" /\ UNCHANGED <<tasks, failed, faults>>
  BY DEF Accept, Waiting
<1>2. /\ thread' = [thread EXCEPT ![c] = "made"]
      /\ conn' = [conn EXCEPT ![c] = IF @ = "left" THEN @ ELSE "open"]
  BY DEF Accept
<1>3. TypeOK'
  BY <1>1, <1>2 DEF IInv, TypeOK
<1>4. InHand'
  BY <1>1, <1>2 DEF IInv, TypeOK, InHand
<1>5. Served'
  BY <1>1, <1>2 DEF IInv, TypeOK, Served
<1>6. TasksAreKnown'
  BY <1>1, <1>2 DEF IInv, TypeOK, TasksAreKnown
<1> QED
  BY <1>3, <1>4, <1>5, <1>6 DEF IInv

LEMMA AcceptFailsIInv == IInv /\ AcceptFails => IInv'
<1> SUFFICES ASSUME IInv, AcceptFails PROVE IInv'
  OBVIOUS
<1>1. /\ pc = "accept" /\ pc' = "round" /\ faults' = faults + 1
      /\ UNCHANGED <<conn, thread, tasks, client, failed>>
  BY DEF AcceptFails, Continue, Fault, IInv, InHand
<1> QED
  BY <1>1 DEF IInv, TypeOK, InHand, Served, TasksAreKnown

LEMMA AcceptLosesIInv == ASSUME IInv, NEW c \in Conns, AcceptLoses(c) PROVE IInv'
<1>1. /\ pc = "accept" /\ pc' = "round" /\ faults' = faults + 1
      /\ thread[c] = "none" /\ failed' = failed \cup {c}
      /\ UNCHANGED <<conn, tasks, client>>
  BY DEF AcceptLoses, Continue, Fault, Waiting
<1>2. thread' = [thread EXCEPT ![c] = "lost"]
  BY DEF AcceptLoses
<1>3. TypeOK'
  BY <1>1, <1>2 DEF IInv, TypeOK
<1>4. InHand' /\ Served'
  BY <1>1, <1>2 DEF IInv, TypeOK, InHand, Served
<1>5. TasksAreKnown'
  BY <1>1, <1>2 DEF IInv, TypeOK, TasksAreKnown
<1> QED
  BY <1>3, <1>4, <1>5 DEF IInv

LEMMA InsertIInv == IInv /\ Insert => IInv'
BY DEF IInv, TypeOK, InHand, Served, TasksAreKnown, Insert, Inserted

LEMMA StartIInv == IInv /\ Start => IInv'
<1> SUFFICES ASSUME IInv, Start PROVE IInv'
  OBVIOUS
<1>1. /\ pc = "start" /\ pc' = "round" /\ client \in Conns /\ thread[client] = "made"
      /\ UNCHANGED <<conn, tasks, client, failed, faults>>
      /\ thread' = [thread EXCEPT ![client] = "runs"]
  BY DEF Start, IInv, InHand
<1>2. TypeOK'
  BY <1>1 DEF IInv, TypeOK
<1>3. InHand'
  BY <1>1 DEF IInv, TypeOK, InHand
<1>4. Served'
  BY <1>1 DEF IInv, TypeOK, Served
<1>5. TasksAreKnown'
  BY <1>1 DEF IInv, TypeOK, TasksAreKnown
<1> QED
  BY <1>2, <1>3, <1>4, <1>5 DEF IInv

LEMMA StartFailsIInv == IInv /\ StartFails => IInv'
<1> SUFFICES ASSUME IInv, StartFails PROVE IInv'
  OBVIOUS
<1>1. TypeOK'
  BY DEF IInv, TypeOK, StartFails, Fault
<1> QED
  BY <1>1 DEF IInv, InHand, Served, TasksAreKnown, StartFails

-----------------------------------------------------------------------------
(* Steps of clients and of tasks, which leave serve() alone.               *)

LEMMA ClientIInv == ASSUME IInv, NEW c \in Conns, Connect(c) \/ Leave(c) PROVE IInv'
<1>1. /\ UNCHANGED <<thread, tasks, pc, client, failed, faults>>
      /\ \/ conn[c] = "none" /\ conn' = [conn EXCEPT ![c] = "backlog"]
         \/ conn' = [conn EXCEPT ![c] = "left"]
  BY DEF Connect, Leave
<1>2. TypeOK'
  BY <1>1 DEF IInv, TypeOK
<1>3. Served'
  BY <1>1 DEF IInv, TypeOK, Served
<1> QED
  BY <1>1, <1>2, <1>3 DEF IInv, InHand, TasksAreKnown

LEMMA TaskIInv ==
    ASSUME IInv, NEW c \in Conns,
           EndOfConnection(c) \/ TaskThrows(c) \/ Close(c) \/ Erase(c)
    PROVE  IInv'
<1>1. /\ UNCHANGED <<pc, client>>
      /\ thread[c] \in Live /\ faults' \in Nat
      /\ failed' \in {failed, failed \cup {c}}
  BY DEF EndOfConnection, TaskThrows, Close, Erase, Fault, IInv, TypeOK
<1>2. \E s \in {"closes", "erases", "ended"} :
         /\ thread' = [thread EXCEPT ![c] = s]
         /\ tasks' = IF s = "ended" THEN tasks \ {c} ELSE tasks
         /\ conn' = IF s = "erases" THEN [conn EXCEPT ![c] = "closed"] ELSE conn
         /\ s = "closes" => thread[c] = "runs" /\ (conn[c] # "open" \/ c \in failed')
  BY DEF EndOfConnection, TaskThrows, Close, Closed, Erase, Erased
<1>3. PICK s \in {"closes", "erases", "ended"} :
         /\ thread' = [thread EXCEPT ![c] = s]
         /\ tasks' = IF s = "ended" THEN tasks \ {c} ELSE tasks
         /\ conn' = IF s = "erases" THEN [conn EXCEPT ![c] = "closed"] ELSE conn
         /\ s = "closes" => thread[c] = "runs" /\ (conn[c] # "open" \/ c \in failed')
  BY <1>2
<1>4. TypeOK'
  BY <1>1, <1>3 DEF IInv, TypeOK
<1>5. InHand'
  BY <1>1, <1>3 DEF IInv, TypeOK, InHand
<1>6. Served'
  BY <1>1, <1>3 DEF IInv, TypeOK, Served
<1>7. TasksAreKnown'
  <2>1. pc = "start" => client # c
    BY <1>1 DEF IInv, InHand
  <2>2. \A d \in Conns : thread'[d] \in Live <=> thread[d] \in Live /\ (d = c => s # "ended")
    BY <1>1, <1>3 DEF IInv, TypeOK
  <2> QED
    BY <1>1, <1>3, <2>1, <2>2 DEF IInv, TasksAreKnown
<1> QED
  BY <1>4, <1>5, <1>6, <1>7 DEF IInv

LEMMA NextIInv == IInv /\ [Next]_vars => IInv'
<1> SUFFICES ASSUME IInv, [Next]_vars PROVE IInv'
  OBVIOUS
<1>1. CASE Serve
  BY <1>1, RoundIInv, AcceptIInv, InsertIInv, StartIInv DEF Serve
<1>2. CASE AcceptFails \/ StartFails
  BY <1>2, AcceptFailsIInv, StartFailsIInv
<1>3. ASSUME NEW c \in Conns, Connect(c) \/ Leave(c) \/ AcceptLoses(c)
      PROVE  IInv'
  BY <1>3, ClientIInv, AcceptLosesIInv
<1>4. ASSUME NEW c \in Conns, Run(c) \/ TaskThrows(c)
      PROVE  IInv'
  BY <1>4, TaskIInv DEF Run
<1>5. CASE UNCHANGED vars
  BY <1>5 DEF vars, IInv, TypeOK, InHand, Served, TasksAreKnown
<1> QED
  BY <1>1, <1>2, <1>3, <1>4, <1>5 DEF Next

LEMMA Invariance == Spec => []IInv
BY InitIInv, NextIInv, PTL DEF Spec

-----------------------------------------------------------------------------
(* Every variable of the server has its type, for any connections and any  *)
(* number of failures (TThreadedServer::serve and Task::run).              *)
THEOREM TypeCorrect == Spec => []TypeOK
<1>1. IInv => TypeOK
  BY DEF IInv
<1> QED
  BY <1>1, Invariance, PTL

(* tasks_ has exactly the tasks of the threads which run, and the one      *)
(* which serve() is about to start, whichever failure comes between.       *)
THEOREM TasksKnown == Spec => []TasksAreKnown
<1>1. IInv => TasksAreKnown
  BY DEF IInv
<1> QED
  BY <1>1, Invariance, PTL

(* No failure of accept(), of a task or of another connection closes the   *)
(* connection of a client which is served.                                 *)
THEOREM ConnectionsCloseOnTheirOwn == Spec => ClosesOnlyItsOwn
<1>1. IInv /\ [Next]_vars =>
        [\A c \in Conns : conn[c] \in {"backlog", "open"} /\ conn'[c] = "closed"
            => c \in failed \/ pc' = "terminated"]_vars
  <2> SUFFICES ASSUME IInv, Next, NEW c \in Conns,
                      conn[c] \in {"backlog", "open"}, conn'[c] = "closed",
                      pc' # "terminated"
               PROVE  c \in failed
    OBVIOUS
  <2>1. \E d \in Conns : Close(d)
    <3>1. ASSUME conn' = conn PROVE FALSE
      BY <3>1
    <3>2. ASSUME NEW d \in Conns, Accept(d) \/ Connect(d) \/ Leave(d) PROVE FALSE
      BY <3>2 DEF Accept, Connect, Leave, IInv, TypeOK
    <3>3. AcceptFails => conn' = conn
      BY DEF AcceptFails, IInv, InHand
    <3>4. ~StartFails
      BY DEF StartFails
    <3> QED
      BY <3>1, <3>2, <3>3, <3>4
         DEF Next, Serve, Round, Insert, Start, AcceptLoses, Run, EndOfConnection,
             Erase, TaskThrows
  <2>2. PICK d \in Conns : Close(d)
    BY <2>1
  <2>3. d = c /\ thread[c] = "closes"
    BY <2>2 DEF Close, Closed, IInv, TypeOK
  <2> QED
    BY <2>3 DEF IInv, Served
<1> QED
  BY <1>1, Invariance, PTL DEF Spec, ClosesOnlyItsOwn

-----------------------------------------------------------------------------
(* The processor which the tasks run, and the client's stubs.              *)

(* What the handler gets, and what the caller gets, are functions of the   *)
(* number and the method of the call and of the two builds.                *)

Sent(k, m) == Write(Client[m].args, Arguments(k, m))
Got(k, m, peer) == Read(peer[m].args, Sent(k, m))
Answered(k, m, peer) == <<WriteField(peer[m].result, Given(k, peer[m].result))>>
Returns(k, m, peer) == Read(<<Client[m].result>>, Answered(k, m, peer))[1]

Methods(b) == DOMAIN Client \cap DOMAIN Interfaces[b]

HandledIn(b) ==
    {[call |-> k, method |-> m, args |-> Got(k, m, Interfaces[b]), gave |-> g] :
        k \in Nat, m \in Methods(b), g \in {"result", "exception"}}

EndedIn(b) ==
    {[call |-> k, method |-> m, how |-> h, value |-> Unset] :
        k \in Nat, m \in DOMAIN Client,
        h \in {"MISSING_RESULT", "HANDLER", "UNKNOWN_METHOD", "adrift"}}
    \cup {[call |-> k, method |-> m, how |-> "returned",
           value |-> Returns(k, m, Interfaces[b])] : k \in Nat, m \in Methods(b)}

-----------------------------------------------------------------------------
(* Fields.                                                                 *)

(* A value comes from the field f of one build to the field t of another.  *)
FieldArrives(k, f, t, v) ==
    IF t.type = "T_STRUCT" THEN ArrivesFlat(k, f.of, t.of, v) ELSE v = Named(k, t)

(* Where numbers have kept their names a field found by its name is the    *)
(* one with the same number.                                               *)
LEMMA FieldByNumber ==
    ASSUME NEW from, NEW to, SameNumbering(from, to), NEW i \in DOMAIN to
    PROVE  /\ HasField(from, to[i]) <=> i \in DOMAIN from /\ from[i].type = to[i].type
           /\ HasField(from, to[i]) => FieldOf(from, to[i]) = from[i]
<1>1. \A j \in DOMAIN from : from[j].name = to[i].name <=> j = i
  BY DEF SameNumbering
<1>2. HasField(from, to[i]) <=> i \in DOMAIN from /\ from[i].type = to[i].type
  BY <1>1 DEF HasField
<1>3. ASSUME HasField(from, to[i])
      PROVE  FieldOf(from, to[i]) = from[i]
  <2>1. \A j \in DOMAIN from :
           from[j].name = to[i].name /\ from[j].type = to[i].type <=> j = i
    BY <1>1, <1>2, <1>3
  <2> QED
    BY <1>2, <1>3, <2>1 DEF FieldOf
<1> QED
  BY <1>2, <1>3

(* A field of the type which is expected arrives.                          *)
LEMMA OneFieldArrives ==
    ASSUME NEW f, NEW t, NEW k, f.name = t.name, f.type = t.type,
           f.type = "T_STRUCT" => SameNumbering(f.of, t.of)
    PROVE  FieldArrives(k, f, t, ReadField(t, WriteField(f, Given(k, f))))
<1>1. CASE t.type = "T_STRUCT"
  <2> DEFINE given == [i \in DOMAIN f.of |-> Named(k, f.of[i])]
             sent == WriteFlat(f.of, given)
  <2>1. ReadField(t, WriteField(f, Given(k, f))) = ReadFlat(t.of, sent)
    BY <1>1 DEF ReadField, WriteField, Given
  <2>2. ASSUME NEW i \in DOMAIN t.of
        PROVE  ReadFlat(t.of, sent)[i] =
                  IF HasField(f.of, t.of[i]) THEN Named(k, t.of[i]) ELSE Unset
    <3>1. HasField(f.of, t.of[i]) <=> i \in DOMAIN f.of /\ f.of[i].type = t.of[i].type
      BY <1>1, <2>2, FieldByNumber
    <3>2. Taken(t.of, sent, i) <=> i \in DOMAIN f.of /\ f.of[i].type = t.of[i].type
      BY DEF Taken, WriteFlat
    <3>3. ASSUME i \in DOMAIN f.of
          PROVE  sent[i].value = Named(k, t.of[i])
      <4>1. f.of[i].name = t.of[i].name
        BY <1>1, <2>2, <3>3 DEF SameNumbering
      <4>2. sent[i].value = Named(k, f.of[i])
        BY <3>3 DEF WriteFlat
      <4> QED
        BY <4>1, <4>2 DEF Named
    <3> QED
      BY <3>1, <3>2, <3>3 DEF ReadFlat
  <2> HIDE DEF sent
  <2> QED
    BY <1>1, <2>1, <2>2 DEF FieldArrives, ArrivesFlat
<1>2. CASE t.type # "T_STRUCT"
  BY <1>2 DEF FieldArrives, ReadField, WriteField, Given, Named
<1> QED
  BY <1>1, <1>2

(* Every parameter has what the caller gave under its name, or its default.*)
LEMMA GotArrives ==
    ASSUME NEW b \in DOMAIN Interfaces, NEW m \in Methods(b), NEW k
    PROVE  Arrives(k, Client[m].args, Interfaces[b][m].args, Got(k, m, Interfaces[b]))
<1> DEFINE from == Client[m].args
           to == Interfaces[b][m].args
           got == Got(k, m, Interfaces[b])
<1>1. SameNumbering(from, to) /\ SameNumberingInside(from, to)
  BY ServiceAssumption DEF Methods
<1>2. ASSUME NEW i \in DOMAIN to
      PROVE  IF ~HasField(from, to[i]) THEN got[i] = Constructed(to[i])
             ELSE FieldArrives(k, FieldOf(from, to[i]), to[i], got[i])
  <2>1. Taken(to, Sent(k, m), i) <=> i \in DOMAIN from /\ from[i].type = to[i].type
    BY DEF Taken, Sent, Write, WriteField
  <2>2. /\ HasField(from, to[i]) <=> Taken(to, Sent(k, m), i)
        /\ HasField(from, to[i]) => FieldOf(from, to[i]) = from[i]
    BY <1>1, <2>1, FieldByNumber
  <2>3. got[i] = IF Taken(to, Sent(k, m), i) THEN ReadField(to[i], Sent(k, m)[i])
                 ELSE Constructed(to[i])
    BY DEF Got, Read
  <2>4. ASSUME Taken(to, Sent(k, m), i)
        PROVE  FieldArrives(k, from[i], to[i], ReadField(to[i], Sent(k, m)[i]))
    <3>1. i \in DOMAIN from /\ from[i].type = to[i].type
      BY <2>1, <2>4
    <3>2. from[i].name = to[i].name
      BY <1>1, <3>1 DEF SameNumbering
    <3>3. from[i].type = "T_STRUCT" => SameNumbering(from[i].of, to[i].of)
      BY <1>1, <3>1 DEF SameNumberingInside
    <3>4. Sent(k, m)[i] = WriteField(from[i], Given(k, from[i]))
      BY <3>1 DEF Sent, Write, Arguments
    <3> QED
      BY <3>1, <3>2, <3>3, <3>4, OneFieldArrives
  <2> QED
    BY <2>2, <2>3, <2>4
<1> HIDE DEF got, to, from
<1>3. Arrives(k, from, to, got)
  BY <1>2 DEF Arrives, FieldArrives
<1> QED
  BY <1>3 DEF got, to, from

(* The same of a result which is of the type the caller expects.           *)
LEMMA ReturnsArrives ==
    ASSUME NEW b \in DOMAIN Interfaces, NEW m \in Methods(b), NEW k,
           Interfaces[b][m].result.type = Client[m].result.type
    PROVE  Arrives(k, <<Interfaces[b][m].result>>, <<Client[m].result>>,
                   <<Returns(k, m, Interfaces[b])>>)
<1> DEFINE f == Interfaces[b][m].result
           t == Client[m].result
           v == Returns(k, m, Interfaces[b])
<1>1. SameNumbering(<<t>>, <<f>>) /\ SameNumberingInside(<<t>>, <<f>>)
  BY ServiceAssumption DEF Methods
<1>2. DOMAIN <<t>> = {1} /\ DOMAIN <<f>> = {1} /\ <<t>>[1] = t /\ <<f>>[1] = f
  OBVIOUS
<1>3. t.name = f.name
  BY <1>1, <1>2 DEF SameNumbering
<1>4. f.type = "T_STRUCT" => SameNumbering(f.of, t.of)
  <2>1. f.type = "T_STRUCT" => SameNumbering(t.of, f.of)
    BY <1>1, <1>2 DEF SameNumberingInside
  <2> QED
    BY <2>1 DEF SameNumbering
<1>5. v = ReadField(t, WriteField(f, Given(k, f)))
  <2>1. Taken(<<t>>, Answered(k, m, Interfaces[b]), 1)
    BY DEF Taken, Answered, WriteField
  <2> QED
    BY <2>1 DEF Returns, Read, Answered
<1>6. FieldArrives(k, f, t, v)
  BY <1>3, <1>4, <1>5, OneFieldArrives
<1>7. HasField(<<f>>, t) /\ FieldOf(<<f>>, t) = f
  BY <1>2, <1>3 DEF HasField, FieldOf
<1> HIDE DEF f, t, v
<1>8. Arrives(k, <<f>>, <<t>>, <<v>>)
  <2>1. \A i \in DOMAIN <<t>> : i = 1
    BY <1>2
  <2> QED
    BY <1>2, <1>6, <1>7, <2>1 DEF Arrives, FieldArrives
<1> QED
  BY <1>8 DEF f, t, v

-----------------------------------------------------------------------------
(* The inductive invariant: where the present call is.                     *)

Was(gave) ==
    \E n \in DOMAIN handled :
        /\ handled[n].call = calls /\ handled[n].method = method
        /\ handled[n].gave = gave

NotHandled ==
    calls \notin garbled /\ \A n \in DOMAIN handled : handled[n].call # calls

Requested ==
    /\ toServer = Message(method, "T_CALL", Sent(calls, method)) /\ toClient = <<>>
    /\ NotHandled

Replied(kind, fields) ==
    toServer = <<>> /\ toClient = Message(method, kind, fields)

CallIs ==
    \/ Requested
    \/ /\ Replied("T_EXCEPTION", <<"UNKNOWN_METHOD">>)
       /\ method \notin DOMAIN server /\ NotHandled
    \/ Replied("T_EXCEPTION", <<"HANDLER">>) /\ Was("exception")
    \/ /\ method \in DOMAIN server
       /\ Replied("T_REPLY", Answered(calls, method, server))
       /\ Was("result")

ServiceTypes ==
    /\ build \in DOMAIN Interfaces
    /\ calls \in Nat
    /\ stage # "idle" => method \in DOMAIN Client /\ calls # 0
    /\ handled \in Seq(HandledIn(build))
    /\ ended \in Seq(EndedIn(build))
    /\ garbled \subseteq Nat

InOrder ==
    /\ \A n \in DOMAIN handled : handled[n].call <= calls
    /\ \A k \in garbled : k <= calls
    /\ \A n \in DOMAIN ended :
          /\ ended[n].call <= calls
          /\ stage \in {"waiting", "misread"} => ended[n].call < calls
          /\ ended[n].how = "adrift" => stage = "adrift" /\ ended[n].call = calls

Truth(e) ==
    LET WasFor(gave) == \E i \in DOMAIN handled :
            /\ handled[i].call = e.call /\ handled[i].method = e.method
            /\ handled[i].gave = gave
    IN  /\ e.how = "returned" =>
              /\ WasFor("result")
              /\ e.method \in Methods(build)
              /\ server[e.method].result.type = Client[e.method].result.type
              /\ e.value = Returns(e.call, e.method, server)
        /\ e.how = "MISSING_RESULT" =>
              /\ WasFor("result")
              /\ server[e.method].result.type # Client[e.method].result.type
        /\ e.how = "HANDLER" => WasFor("exception")
        /\ e.how = "UNKNOWN_METHOD" =>
              e.call \notin garbled /\ \A i \in DOMAIN handled : handled[i].call # e.call

Told == \A n \in DOMAIN ended : Truth(ended[n])

SInv ==
    /\ ServiceTypes /\ InStep /\ InOrder /\ Told
    /\ stage = "waiting" => CallIs

-----------------------------------------------------------------------------
(* Every step keeps the present call where it belongs.                     *)

LEMMA Messages ==
    ASSUME NEW m, NEW kind, NEW fields
    PROVE  LET s == Message(m, kind, fields) IN
           /\ AMessage(s) /\ s # <<>> /\ After(s) = <<>> /\ <<>> \o s = s
           /\ s[1] = Header(m, kind) /\ s[2] = Body(fields)
<1> DEFINE s == Message(m, kind, fields)
           S == {Header(m, kind), Body(fields)}
<1>1. s \in Seq(S) /\ Len(s) = 2 /\ s[1] = Header(m, kind) /\ s[2] = Body(fields)
  BY DEF Message
<1>2. s[1].part = "header" /\ s[2].part = "body"
  BY <1>1 DEF Header, Body
<1>3. AMessage(s)
  BY <1>1, <1>2 DEF AMessage
<1> HIDE DEF s, S
<1>4. s # <<>>
  BY <1>1, EmptySeq
<1>5. After(s) = <<>> /\ <<>> \o s = s
  BY <1>1 DEF After
<1> QED
  BY <1>1, <1>3, <1>4, <1>5, Zenon DEF s

LEMMA NoMessage == ~AMessage(<<>>)
BY DEF AMessage

(* What is said of an ended call stays true while the handler's calls are  *)
(* as they were, and when a later call is handled.                         *)
LEMMA TruthStays ==
    ASSUME NEW e, Truth(e), UNCHANGED <<build, handled, garbled>>
    PROVE  Truth(e)'
BY DEF Truth, Methods, server

LEMMA TruthGrows ==
    ASSUME NEW e, Truth(e), UNCHANGED <<build, garbled>>, handled \in Seq(HandledIn(build)),
           NEW h \in HandledIn(build), handled' = Append(handled, h), h.call # e.call
    PROVE  Truth(e)'
<1> DEFINE WasFor(gave, hs) == \E i \in DOMAIN hs :
               /\ hs[i].call = e.call /\ hs[i].method = e.method /\ hs[i].gave = gave
<1>1. /\ DOMAIN handled = 1 .. Len(handled) /\ Len(handled) \in Nat
      /\ DOMAIN handled' = 1 .. Len(handled) + 1
      /\ \A i \in DOMAIN handled : handled'[i] = handled[i]
      /\ handled'[Len(handled) + 1] = h
  OBVIOUS
<1>2. \A i \in DOMAIN handled' : i \in DOMAIN handled \/ handled'[i] = h
  BY <1>1
<1>3. DOMAIN handled \subseteq DOMAIN handled'
  BY <1>1
<1>4. \A gave : WasFor(gave, handled) => WasFor(gave, handled')
  BY <1>1, <1>3
<1>5. (\A i \in DOMAIN handled : handled[i].call # e.call)
         => \A i \in DOMAIN handled' : handled'[i].call # e.call
  BY <1>1, <1>2
<1> QED
  BY <1>4, <1>5 DEF Truth, Methods, server

LEMMA HandledTyped ==
    ASSUME ServiceTypes
    PROVE  /\ \A n \in DOMAIN handled : handled[n] \in HandledIn(build) /\ handled[n].call \in Nat
           /\ \A n \in DOMAIN ended : ended[n] \in EndedIn(build) /\ ended[n].call \in Nat
<1>1. \A n \in DOMAIN handled : handled[n] \in HandledIn(build)
  BY DEF ServiceTypes
<1>2. \A n \in DOMAIN ended : ended[n] \in EndedIn(build)
  BY DEF ServiceTypes
<1>3. \A h \in HandledIn(build) : h.call \in Nat
  BY DEF HandledIn
<1>4. \A e \in EndedIn(build) : e.call \in Nat
  BY DEF EndedIn
<1> QED
  BY <1>1, <1>2, <1>3, <1>4

LEMMA SendSInv == ASSUME SInv, NEW m \in DOMAIN Client, Send(m) PROVE SInv'
<1>1. /\ stage = "idle" /\ toServer = <<>> /\ toClient = <<>> /\ calls \in Nat
      /\ calls' = calls + 1 /\ method' = m /\ stage' = "waiting"
      /\ UNCHANGED <<build, toClient, handled, garbled, ended>>
  BY DEF SInv, InStep, ServiceTypes, Send
<1>2. toServer' = Message(m, "T_CALL", Sent(calls', m))
  <2>1. toServer' = <<>> \o Message(m, "T_CALL", Sent(calls', m))
    BY <1>1 DEF Send, Sent
  <2> QED
    BY <2>1, Messages
<1>3. ServiceTypes'
  BY <1>1 DEF SInv, ServiceTypes
<1>4. /\ \A n \in DOMAIN handled : handled[n].call < calls'
      /\ \A k \in garbled : k < calls'
      /\ \A n \in DOMAIN ended : ended[n].call < calls'
  BY <1>1, HandledTyped DEF SInv, InOrder, ServiceTypes
<1>5. InOrder'
  <2>1. \A n \in DOMAIN ended : ended[n].how # "adrift"
    BY <1>1 DEF SInv, InOrder
  <2>2. /\ \A n \in DOMAIN handled : handled[n].call <= calls'
        /\ \A k \in garbled : k <= calls'
        /\ \A n \in DOMAIN ended : ended[n].call <= calls'
    BY <1>1, <1>4, HandledTyped DEF SInv, ServiceTypes
  <2> QED
    BY <1>1, <1>4, <2>1, <2>2 DEF InOrder
<1>6. CallIs'
  BY <1>1, <1>2, <1>4, HandledTyped DEF SInv, CallIs, Requested, NotHandled
<1>7. Told'
  BY <1>1, TruthStays DEF SInv, Told
<1> QED
  BY <1>1, <1>3, <1>5, <1>6, <1>7 DEF SInv, InStep

(* The server reads a message: it is the request of the present call.      *)
LEMMA ServerReads ==
    ASSUME SInv, stage = "waiting", AMessage(toServer)
    PROVE  /\ Requested /\ Called = method /\ Request = Sent(calls, method)
           /\ After(toServer) = <<>>
           /\ \A kind, fields : Reply(kind, fields) => toClient' = Message(method, kind, fields)
<1>1. Requested
  BY NoMessage DEF SInv, CallIs, Replied
<1>2. toServer = Message(method, "T_CALL", Sent(calls, method)) /\ toClient = <<>>
  BY <1>1 DEF Requested
<1>3. /\ After(toServer) = <<>>
      /\ toServer[1] = Header(method, "T_CALL") /\ toServer[2] = Body(Sent(calls, method))
  BY <1>2, Messages
<1>4. Called = method /\ Request = Sent(calls, method)
  BY <1>3 DEF Called, Request, Header, Body
<1>5. \A kind, fields : Reply(kind, fields) => toClient' = Message(method, kind, fields)
  BY <1>2, <1>4, Messages DEF Reply
<1> QED
  BY <1>1, <1>3, <1>4, <1>5

LEMMA UnknownMethodSInv == ASSUME SInv, UnknownMethod PROVE SInv'
<1>1. /\ stage = "waiting" /\ method \notin DOMAIN server /\ NotHandled
      /\ toServer' = <<>> /\ toClient' = Message(method, "T_EXCEPTION", <<"UNKNOWN_METHOD">>)
      /\ UNCHANGED <<build, stage, calls, method, handled, garbled, ended>>
  BY ServerReads DEF UnknownMethod, Known, Skipped, Requested
<1>2. ServiceTypes' /\ InOrder'
  BY <1>1 DEF SInv, ServiceTypes, InOrder
<1>3. CallIs'
  BY <1>1 DEF CallIs, Replied, NotHandled, server
<1>4. Told'
  BY <1>1, TruthStays DEF SInv, Told
<1> QED
  BY <1>1, <1>2, <1>3, <1>4 DEF SInv, InStep

(* The handler is called, returns or throws.                               *)
LEMMA HandledSInv ==
    ASSUME SInv, Processing, UNCHANGED <<stage, garbled>>,
           NEW gave \in {"result", "exception"}, Handle(gave),
           NEW kind, NEW fields, Reply(kind, fields),
           \/ gave = "exception" /\ kind = "T_EXCEPTION" /\ fields = <<"HANDLER">>
           \/ gave = "result" /\ kind = "T_REPLY" /\ fields = Answered(calls, method, server)
    PROVE  SInv'
<1> DEFINE h == [call |-> calls, method |-> method, args |-> Got(calls, method, server),
                 gave |-> gave]
<1>1. /\ stage = "waiting" /\ Requested /\ Called = method /\ Known
      /\ Request = Sent(calls, method) /\ toServer' = <<>>
      /\ toClient' = Message(method, kind, fields)
      /\ UNCHANGED <<build, stage, calls, method, garbled, ended>>
  BY ServerReads DEF Processing
<1>2. method \in DOMAIN server /\ method \in Methods(build) /\ calls \in Nat
  BY <1>1 DEF Known, Methods, server, SInv, ServiceTypes
<1>3. handled' = Append(handled, h)
  BY <1>1 DEF Handle, ArgumentsRead, Got
<1>4. h \in HandledIn(build)
  BY <1>2 DEF HandledIn, server
<1>5. h.call = calls /\ h.method = method /\ h.gave = gave
  OBVIOUS
<1> HIDE DEF h
<1>6. /\ handled \in Seq(HandledIn(build)) /\ handled' \in Seq(HandledIn(build))
      /\ DOMAIN handled' = 1 .. Len(handled) + 1 /\ Len(handled) + 1 \in DOMAIN handled'
      /\ \A i \in DOMAIN handled : handled'[i] = handled[i]
      /\ handled'[Len(handled) + 1] = h
      /\ \A i \in DOMAIN handled' : i \in DOMAIN handled \/ i = Len(handled) + 1
  <2>1. handled \in Seq(HandledIn(build))
    BY DEF SInv, ServiceTypes
  <2> QED
    BY <1>3, <1>4, <2>1
<1>7. ServiceTypes'
  BY <1>1, <1>6 DEF SInv, ServiceTypes
<1>8. InOrder'
  <2>1. \A i \in DOMAIN handled' : handled'[i].call <= calls
    BY <1>2, <1>5, <1>6 DEF SInv, InOrder
  <2> QED
    BY <1>1, <2>1 DEF SInv, InOrder
<1>9. CallIs'
  <2>1. Was(gave)'
    BY <1>1, <1>5, <1>6 DEF Was
  <2>2. Replied(kind, fields)'
    BY <1>1 DEF Replied
  <2>3. CASE gave = "exception" /\ kind = "T_EXCEPTION" /\ fields = <<"HANDLER">>
    BY <2>1, <2>2, <2>3 DEF CallIs
  <2>4. CASE gave = "result" /\ kind = "T_REPLY" /\ fields = Answered(calls, method, server)
    <3>1. (method \in DOMAIN server)' /\ fields = Answered(calls, method, server)'
      BY <1>1, <1>2, <2>4 DEF server
    <3> QED
      BY <1>1, <2>1, <2>4, <3>1 DEF CallIs, Replied
  <2> QED
    BY <2>3, <2>4
<1>10. Told'
  <2> SUFFICES ASSUME NEW n \in DOMAIN ended PROVE Truth(ended[n])'
    BY <1>1 DEF Told
  <2>1. PICK e : e = ended[n]
    OBVIOUS
  <2>2. Truth(e) /\ e.call # calls
    BY <1>1, <1>2, <2>1, HandledTyped DEF SInv, Told, InOrder
  <2>3. Truth(e)'
    BY <1>1, <1>3, <1>4, <1>5, <1>6, <2>2, TruthGrows
  <2> QED
    BY <1>1, <2>1, <2>3
<1> QED
  BY <1>1, <1>7, <1>8, <1>9, <1>10 DEF SInv, InStep

LEMMA HandlerReturnsSInv == ASSUME SInv, HandlerReturns PROVE SInv'
<1>1. Called = method
  BY ServerReads DEF HandlerReturns, Processing
<1>2. Reply("T_REPLY", Answered(calls, method, server))
  BY <1>1 DEF HandlerReturns, ResultWritten, Answered
<1> QED
  BY <1>2, HandledSInv DEF HandlerReturns

LEMMA HandlerThrowsSInv == ASSUME SInv, HandlerThrows PROVE SInv'
BY HandledSInv DEF HandlerThrows

(* A map is misread, by the server or by the client.                       *)
LEMMA MisreadSInv == ASSUME SInv, ArgumentsMisread \/ ResultMisread PROVE SInv'
<1>1. /\ stage = "waiting" /\ stage' = "misread" /\ calls \in Nat
      /\ UNCHANGED <<build, calls, method, handled, ended>>
      /\ garbled' = garbled \/ garbled' = garbled \cup {calls}
  BY DEF ArgumentsMisread, ResultMisread, Processing, Receiving, SInv, ServiceTypes
<1>2. ServiceTypes'
  BY <1>1 DEF SInv, ServiceTypes
<1>3. InOrder'
  <2>1. \A k \in garbled' : k <= calls
    BY <1>1 DEF SInv, InOrder
  <2> QED
    BY <1>1, <2>1 DEF SInv, InOrder
<1>4. Told'
  <2> SUFFICES ASSUME NEW n \in DOMAIN ended PROVE Truth(ended[n])'
    BY <1>1 DEF Told
  <2>1. Truth(ended[n]) /\ ended[n].call # calls
    BY <1>1, HandledTyped DEF SInv, Told, InOrder
  <2> QED
    BY <1>1, <2>1 DEF Truth, Methods, server
<1> QED
  BY <1>1, <1>2, <1>3, <1>4 DEF SInv, InStep

(* ... and the call ends.                                                  *)
LEMMA EndsAdriftSInv == ASSUME SInv, EndsAdrift PROVE SInv'
<1> DEFINE e == [call |-> calls, method |-> method, how |-> "adrift", value |-> Unset]
<1>1. /\ stage = "misread" /\ stage' = "adrift"
      /\ UNCHANGED <<build, calls, method, handled, garbled>> /\ ended' = Append(ended, e)
      /\ method \in DOMAIN Client /\ calls \in Nat
  BY DEF EndsAdrift, Ended, SInv, ServiceTypes
<1>2. e \in EndedIn(build) /\ e.call = calls /\ e.how = "adrift"
  BY <1>1 DEF EndedIn
<1> HIDE DEF e
<1>3. /\ ended' \in Seq(EndedIn(build))
      /\ \A n \in DOMAIN ended' :
            (n \in DOMAIN ended /\ ended'[n] = ended[n]) \/ ended'[n] = e
  <2>1. ended \in Seq(EndedIn(build))
    BY DEF SInv, ServiceTypes
  <2> QED
    BY <1>1, <1>2, <2>1
<1>4. ServiceTypes'
  BY <1>1, <1>3 DEF SInv, ServiceTypes
<1>5. InOrder'
  <2>1. \A n \in DOMAIN ended :
           ended[n].call <= calls /\ ended[n].call < calls /\ ended[n].how # "adrift"
    BY <1>1 DEF SInv, InOrder
  <2>2. \A n \in DOMAIN ended' :
           /\ ended'[n].call <= calls
           /\ ended'[n].how = "adrift" => ended'[n].call = calls
    BY <1>1, <1>2, <1>3, <2>1
  <2> QED
    BY <1>1, <2>2 DEF SInv, InOrder
<1>6. Told'
  <2> SUFFICES ASSUME NEW n \in DOMAIN ended' PROVE Truth(ended[n])'
    BY DEF Told
  <2>1. PICK d : d = ended'[n]
    OBVIOUS
  <2>2. Truth(d)
    BY <1>2, <1>3, <2>1 DEF SInv, Told, Truth
  <2>3. Truth(d)'
    BY <1>1, <2>2, TruthStays
  <2> QED
    BY <2>1, <2>3
<1> QED
  BY <1>1, <1>4, <1>5, <1>6 DEF SInv, InStep

(* The client reads a message: it is the answer to the present call.       *)
LEMMA ClientReads ==
    ASSUME SInv, Receiving
    PROVE  /\ stage = "waiting" /\ toServer' = <<>> /\ toClient' = <<>>
           /\ \/ /\ AnException /\ Answer[1] = "UNKNOWN_METHOD" /\ NotHandled
              \/ /\ AnException /\ Answer[1] = "HANDLER" /\ Was("exception")
              \/ /\ ~AnException /\ Answer = Answered(calls, method, server)
                 /\ method \in DOMAIN server /\ Was("result")
<1>1. stage = "waiting" /\ AMessage(toClient) /\ CallIs
  BY DEF SInv, Receiving
<1>2. ~Requested
  BY <1>1, NoMessage DEF Requested
<1>3. \A kind, fields : Replied(kind, fields) =>
         /\ toServer' = <<>> /\ toClient' = <<>>
         /\ toClient[1].kind = kind /\ Answer = fields
  <2> SUFFICES ASSUME NEW kind, NEW fields, Replied(kind, fields)
               PROVE  /\ toServer' = <<>> /\ toClient' = <<>>
                      /\ toClient[1].kind = kind /\ Answer = fields
    OBVIOUS
  <2>1. /\ toClient[1] = Header(method, kind) /\ toClient[2] = Body(fields)
        /\ After(toClient) = <<>> /\ toServer = <<>>
    BY Messages DEF Replied
  <2> QED
    BY <2>1 DEF Header, Body, Answer, Receiving
<1>4. CASE Replied("T_EXCEPTION", <<"UNKNOWN_METHOD">>) /\ NotHandled
  BY <1>1, <1>3, <1>4 DEF AnException
<1>5. CASE Replied("T_EXCEPTION", <<"HANDLER">>) /\ Was("exception")
  BY <1>1, <1>3, <1>5 DEF AnException
<1>6. CASE /\ method \in DOMAIN server
           /\ Replied("T_REPLY", Answered(calls, method, server)) /\ Was("result")
  BY <1>1, <1>3, <1>6 DEF AnException
<1> QED
  BY <1>1, <1>2, <1>4, <1>5, <1>6 DEF CallIs

(* A call ends, and what is said of it is true.                            *)
LEMMA EndedSInv ==
    ASSUME SInv, Receiving, NEW how, NEW v, Ends(how, v),
           NEW e, e = [call |-> calls, method |-> method, how |-> how, value |-> v],
           e \in EndedIn(build), Truth(e), how # "adrift"
    PROVE  SInv'
<1>1. /\ stage = "waiting" /\ stage' = "idle" /\ toServer' = <<>> /\ toClient' = <<>>
      /\ UNCHANGED <<build, calls, method, handled, garbled>> /\ ended' = Append(ended, e)
      /\ e.call = calls /\ calls \in Nat
  BY ClientReads DEF Receiving, Ends, Ended, SInv, ServiceTypes
<1>2. /\ ended' \in Seq(EndedIn(build))
      /\ \A n \in DOMAIN ended' :
            (n \in DOMAIN ended /\ ended'[n] = ended[n]) \/ ended'[n] = e
  <2>1. ended \in Seq(EndedIn(build))
    BY DEF SInv, ServiceTypes
  <2> QED
    BY <1>1, <2>1
<1>3. ServiceTypes'
  BY <1>1, <1>2 DEF SInv, ServiceTypes
<1>4. InOrder'
  BY <1>1, <1>2, HandledTyped DEF SInv, InOrder
<1>5. Told'
  <2> SUFFICES ASSUME NEW n \in DOMAIN ended' PROVE Truth(ended[n])'
    BY DEF Told
  <2>1. PICK d : d = ended'[n]
    OBVIOUS
  <2>2. Truth(d)
    BY <1>2, <2>1 DEF SInv, Told
  <2>3. Truth(d)'
    BY <1>1, <2>2, TruthStays
  <2> QED
    BY <2>1, <2>3
<1> QED
  BY <1>1, <1>3, <1>4, <1>5 DEF SInv, InStep

LEMMA ReceiveExceptionSInv == ASSUME SInv, ReceiveException PROVE SInv'
<1> DEFINE e == [call |-> calls, method |-> method, how |-> Answer[1], value |-> Unset]
<1>1. /\ Receiving /\ Ends(Answer[1], Unset)
      /\ \/ Answer[1] = "UNKNOWN_METHOD" /\ NotHandled
         \/ Answer[1] = "HANDLER" /\ Was("exception")
  BY ClientReads DEF ReceiveException
<1>2. stage = "waiting" /\ method \in DOMAIN Client /\ calls \in Nat
  BY <1>1, ClientReads DEF SInv, ServiceTypes
<1>3. e \in EndedIn(build)
  BY <1>1, <1>2 DEF EndedIn
<1>4. Truth(e)
  BY <1>1 DEF Truth, NotHandled, Was
<1> QED
  BY <1>1, <1>3, <1>4, EndedSInv

LEMMA ReceiveResultSInv == ASSUME SInv, ReceiveResult PROVE SInv'
<1> DEFINE v == Read(Result, Answer)[1]
           e == [call |-> calls, method |-> method, how |-> "returned", value |-> v]
<1>1. /\ Receiving /\ Ends("returned", v) /\ Taken(Result, Answer, 1)
      /\ Answer = Answered(calls, method, server) /\ method \in DOMAIN server /\ Was("result")
  BY ClientReads DEF ReceiveResult
<1>2. method \in Methods(build) /\ calls \in Nat
  BY <1>1, ClientReads DEF SInv, ServiceTypes, Methods, server
<1>3. v = Returns(calls, method, server)
  BY <1>1 DEF Returns, Result
<1>4. server[method].result.type = Client[method].result.type
  BY <1>1 DEF Taken, Result, Answered, WriteField
<1>5. e \in EndedIn(build)
  BY <1>2, <1>3 DEF EndedIn, server
<1> HIDE DEF v
<1>6. Truth(e)
  BY <1>1, <1>2, <1>3, <1>4 DEF Truth, Was
<1> QED
  BY <1>1, <1>5, <1>6, EndedSInv

LEMMA ResultMissingSInv == ASSUME SInv, ResultMissing PROVE SInv'
<1> DEFINE e == [call |-> calls, method |-> method, how |-> "MISSING_RESULT", value |-> Unset]
<1>1. /\ Receiving /\ Ends("MISSING_RESULT", Unset) /\ ~Taken(Result, Answer, 1)
      /\ Answer = Answered(calls, method, server) /\ Was("result")
  BY ClientReads DEF ResultMissing
<1>2. stage = "waiting" /\ method \in DOMAIN Client /\ calls \in Nat
  BY <1>1, ClientReads DEF SInv, ServiceTypes
<1>3. server[method].result.type # Client[method].result.type
  BY <1>1 DEF Taken, Result, Answered, WriteField
<1>4. e \in EndedIn(build)
  BY <1>2 DEF EndedIn
<1>5. Truth(e)
  BY <1>1, <1>3 DEF Truth, Was
<1> QED
  BY <1>1, <1>4, <1>5, EndedSInv

LEMMA NextSInv == SInv /\ [ServiceNext]_serviceVars => SInv'
<1> SUFFICES ASSUME SInv, [ServiceNext]_serviceVars PROVE SInv'
  OBVIOUS
<1>1. ASSUME NEW m \in DOMAIN Client, Send(m) PROVE SInv'
  BY <1>1, SendSInv
<1>2. CASE UnknownMethod \/ HandlerReturns \/ HandlerThrows
  BY <1>2, UnknownMethodSInv, HandlerReturnsSInv, HandlerThrowsSInv
<1>3. CASE ArgumentsMisread \/ ResultMisread \/ EndsAdrift
  BY <1>3, MisreadSInv, EndsAdriftSInv
<1>4. CASE ReceiveException \/ ReceiveResult \/ ResultMissing
  BY <1>4, ReceiveExceptionSInv, ReceiveResultSInv, ResultMissingSInv
<1>5. CASE UNCHANGED serviceVars
  BY <1>5, TruthStays
     DEF serviceVars, SInv, ServiceTypes, InStep, InOrder, Told, CallIs, Requested, Replied,
         NotHandled, Was, server
<1> QED
  BY <1>1, <1>2, <1>3, <1>4, <1>5 DEF ServiceNext

LEMMA InitSInv == ServiceInit => SInv
<1> SUFFICES ASSUME ServiceInit PROVE SInv
  OBVIOUS
<1>1. DOMAIN handled = {} /\ DOMAIN ended = {}
  BY DEF ServiceInit
<1> QED
  BY <1>1 DEF ServiceInit, SInv, ServiceTypes, InStep, InOrder, Told

LEMMA SInvAlways == ServiceSpec => []SInv
BY InitSInv, NextSInv, PTL DEF ServiceSpec

(* For any two builds whose field numbers have kept their names, and any   *)
(* number of calls: a handler gets what the caller gave it, parameter by   *)
(* parameter, and defaults for what only its own build has; nothing of an  *)
(* earlier call (SelfService.cpp: the _args structs' read and write, and   *)
(* the process_ functions).                                                *)
THEOREM HandlersGetTheirArguments == ServiceSpec => []ArgumentsArrive
<1>1. SInv => ArgumentsArrive
  <2> SUFFICES ASSUME SInv, NEW n \in DOMAIN handled
               PROVE  Arrives(handled[n].call, Client[handled[n].method].args,
                              server[handled[n].method].args, handled[n].args)
    BY DEF ArgumentsArrive
  <2>1. handled[n] \in HandledIn(build) /\ build \in DOMAIN Interfaces
    BY HandledTyped DEF SInv, ServiceTypes
  <2>2. PICK k \in Nat, m \in Methods(build) :
           handled[n].call = k /\ handled[n].method = m /\ handled[n].args = Got(k, m, server)
    BY <2>1 DEF HandledIn, server
  <2> QED
    BY <2>1, <2>2, GotArrives DEF server
<1> QED
  BY <1>1, SInvAlways, PTL

(* What the caller is told of a call is what has become of it on the       *)
(* server: a result is the handler's, to this call; an exception says      *)
(* whether the method was executed (SelfService.cpp: recv_ and process_).  *)
THEOREM CallersAreToldTheTruth == ServiceSpec => []OutcomesAreTrue
<1>1. SInv => OutcomesAreTrue
  <2> SUFFICES ASSUME SInv PROVE OutcomesAreTrue
    OBVIOUS
  <2>1. ASSUME NEW n \in DOMAIN ended
        PROVE  /\ Truth(ended[n])
               /\ ended[n].how \in {"returned", "MISSING_RESULT", "HANDLER", "UNKNOWN_METHOD",
                                  "adrift"}
    <3>1. \A e \in EndedIn(build) :
             e.how \in {"returned", "MISSING_RESULT", "HANDLER", "UNKNOWN_METHOD", "adrift"}
      BY DEF EndedIn
    <3> QED
      BY <3>1, HandledTyped DEF SInv, Told
  <2>2. ASSUME NEW n \in DOMAIN ended, ended[n].how = "returned"
        PROVE  Arrives(ended[n].call, <<server[ended[n].method].result>>,
                       <<Client[ended[n].method].result>>, <<ended[n].value>>)
    BY ZenonT(60), <2>1, <2>2, ReturnsArrives DEF Truth, SInv, ServiceTypes, server
  <2> QED
    BY <2>1, <2>2 DEF OutcomesAreTrue, Truth, SInv, InOrder
<1> QED
  BY <1>1, SInvAlways, PTL

(* However a call ends, it leaves the connection empty in both directions, *)
(* so that the next call cannot read what was meant for this one           *)
(* (SelfService.cpp: dispatchCall skips the arguments it does not know,    *)
(* recv_ reads the answer of every kind to its end).                       *)
THEOREM CallsLeaveTheStreamInStep == ServiceSpec => []InStep
<1>1. SInv => InStep
  BY DEF SInv
<1> QED
  BY <1>1, SInvAlways, PTL

-----------------------------------------------------------------------------
(* The stubs implement the safety of a remote call.                        *)

Executed == {handled[i].call : i \in DOMAIN handled} \cup garbled
Returned == {ended[i].call : i \in {j \in DOMAIN ended : ended[j].how = "returned"}}

LEMMA HandlingExecutes ==
    ASSUME SInv, Processing, UNCHANGED <<stage, garbled>>, NEW gave \in {"result", "exception"},
           Handle(gave)
    PROVE  Abstract!Next
<1>1. /\ stage = "waiting" /\ NotHandled /\ Called = method /\ method \in Methods(build)
      /\ Request = Sent(calls, method) /\ calls \in Nat
      /\ UNCHANGED <<build, stage, calls, method, garbled, ended>>
  BY ServerReads DEF Processing, Requested, Known, Methods, server, SInv, ServiceTypes
<1>2. PICK h \in HandledIn(build) : handled' = Append(handled, h) /\ h.call = calls
  <2>1. handled' = Append(handled, [call |-> calls, method |-> method,
                                    args |-> Got(calls, method, server), gave |-> gave])
    BY <1>1 DEF Handle, ArgumentsRead, Got
  <2>2. [call |-> calls, method |-> method, args |-> Got(calls, method, server),
         gave |-> gave] \in HandledIn(build)
    BY <1>1 DEF HandledIn, server
  <2> QED
    BY <2>1, <2>2
<1>3. Executed' = Executed \cup {calls}
  <2>1. /\ handled \in Seq(HandledIn(build)) /\ Len(handled) \in Nat
        /\ DOMAIN handled = 1 .. Len(handled)
    BY DEF SInv, ServiceTypes
  <2>2. /\ DOMAIN handled' = 1 .. Len(handled) + 1
        /\ \A i \in DOMAIN handled : handled'[i] = handled[i]
        /\ handled'[Len(handled) + 1] = h
    BY <1>2, <2>1
  <2>3. DOMAIN handled' = DOMAIN handled \cup {Len(handled) + 1}
    BY <2>1, <2>2
  <2> QED
    BY <1>2, <2>2, <2>3 DEF Executed
<1>4. calls \notin Executed
  BY <1>1 DEF NotHandled, Executed
<1>5. calls \in 1 .. calls
  <2>1. calls # 0
    BY <1>1 DEF SInv, ServiceTypes
  <2> QED
    BY <1>1, <2>1
<1>6. Returned' = Returned
  BY <1>1 DEF Returned
<1>7. PICK k \in 1 .. calls : k = calls
  BY <1>5
<1>8. Abstract!Execute(k)
  BY <1>1, <1>3, <1>4, <1>6, <1>7 DEF Abstract!Execute, Executed, Returned
<1> QED
  BY <1>8 DEF Abstract!Next, Abstract!Promised

(* The call is over, without a result as far as the caller knows.          *)
LEMMA FailureMaps ==
    ASSUME stage = "waiting", stage' = "idle", UNCHANGED <<calls, handled, garbled>>,
           Returned' = Returned
    PROVE  Abstract!Next
<1>1. Abstract!Fail
  BY DEF Abstract!Fail, Returned
<1> QED
  BY <1>1 DEF Abstract!Next, Abstract!Promised

LEMMA EndingMaps ==
    ASSUME SInv, Receiving, NEW how, NEW v, Ends(how, v),
           [call |-> calls, method |-> method, how |-> how, value |-> v] \in EndedIn(build),
           how = "returned" => Was("result")
    PROVE  Abstract!Next
<1>1. /\ stage = "waiting" /\ stage' = "idle" /\ UNCHANGED <<calls, handled, garbled>>
      /\ ended \in Seq(EndedIn(build))
  BY ClientReads DEF Receiving, Ends, SInv, ServiceTypes
<1>2. PICK e \in EndedIn(build) : ended' = Append(ended, e) /\ e.call = calls /\ e.how = how
  BY DEF Ends, Ended
<1>3. /\ DOMAIN ended' = DOMAIN ended \cup {Len(ended) + 1}
      /\ \A i \in DOMAIN ended : ended'[i] = ended[i]
      /\ ended'[Len(ended) + 1] = e
  <2>1. /\ DOMAIN ended = 1 .. Len(ended) /\ Len(ended) \in Nat
        /\ DOMAIN ended' = 1 .. Len(ended) + 1
        /\ \A i \in DOMAIN ended : ended'[i] = ended[i]
        /\ ended'[Len(ended) + 1] = e
    BY <1>1, <1>2
  <2> QED
    BY <2>1
<1>4. CASE how = "returned"
  <2>1. Returned' = Returned \cup {calls}
    BY <1>2, <1>3, <1>4 DEF Returned
  <2>2. calls \in Executed
    <3>1. PICK n \in DOMAIN handled : handled[n].call = calls
      BY <1>4 DEF Was
    <3> QED
      BY <3>1 DEF Executed
  <2>3. Executed' = Executed
    BY <1>1 DEF Executed
  <2>4. stage \in {"waiting", "misread"} /\ (stage' \in {"waiting", "misread"}) = FALSE
    BY <1>1
  <2>5. Abstract!Return
    BY <1>1, <2>1, <2>2, <2>3, <2>4 DEF Abstract!Return, Executed, Returned
  <2> QED
    BY <1>1, <2>5 DEF Abstract!Next, Abstract!Promised
<1>5. CASE how # "returned"
  <2>1. Returned' = Returned
    BY <1>2, <1>3, <1>5 DEF Returned
  <2> QED
    BY <1>1, <2>1, FailureMaps
<1> QED
  BY <1>4, <1>5

(* Whatever builds meet, every behaviour of the stubs is one of RemoteCall *)
(* as far as safety goes: one call at a time, executed at most once, and   *)
(* returned only if executed, until a map is read by the wrong types.      *)
THEOREM StubsRefineRemoteCall == ServiceSpec => Abstract!SafeSpec
<1>1. ServiceInit => Abstract!Init
  <2> SUFFICES ASSUME ServiceInit PROVE Abstract!Init
    OBVIOUS
  <2>1. DOMAIN handled = {} /\ DOMAIN ended = {}
    BY DEF ServiceInit
  <2> QED
    BY <2>1 DEF ServiceInit, Abstract!Init
<1>2. SInv /\ [ServiceNext]_serviceVars => [Abstract!Next]_(Abstract!vars)
  <2> SUFFICES ASSUME SInv, [ServiceNext]_serviceVars
               PROVE  Abstract!Next \/ UNCHANGED Abstract!vars
    OBVIOUS
  <2>1. ASSUME NEW m \in DOMAIN Client, Send(m) PROVE Abstract!Next
    <3>1. ~(stage \in {"waiting", "misread"}) /\ (stage' \in {"waiting", "misread"}) = TRUE
      BY <2>1 DEF Send
    <3>2. ~(stage \in {"misread", "adrift"}) /\ ~(stage' \in {"misread", "adrift"})
      BY <2>1 DEF Send
    <3>3. Abstract!Call
      BY <2>1, <3>1 DEF Send, Abstract!Call
    <3> QED
      BY <3>2, <3>3 DEF Abstract!Next, Abstract!Promised
  <2>2. CASE HandlerReturns
    BY <2>2, HandlingExecutes DEF HandlerReturns
  <2>3. CASE HandlerThrows
    BY <2>3, HandlingExecutes DEF HandlerThrows
  <2>4. CASE UnknownMethod \/ UNCHANGED serviceVars
    <3>1. UNCHANGED <<calls, stage, handled, garbled, ended>>
      BY <2>4 DEF UnknownMethod, serviceVars
    <3> QED
      BY <3>1 DEF Abstract!vars
  <2>5. CASE ArgumentsMisread \/ ResultMisread \/ EndsAdrift
    <3>1. stage' \in {"misread", "adrift"}
      BY <2>5 DEF ArgumentsMisread, ResultMisread, EndsAdrift
    <3> QED
      BY <3>1 DEF Abstract!Next
  <2>6. ASSUME Receiving
        PROVE  /\ stage = "waiting" /\ method \in DOMAIN Client /\ calls \in Nat
               /\ AnException => Answer[1] \in {"HANDLER", "UNKNOWN_METHOD"}
               /\ ~AnException => /\ Answer = Answered(calls, method, server)
                                  /\ method \in Methods(build) /\ Was("result")
    BY <2>6, ClientReads DEF SInv, ServiceTypes, Methods, server
  <2>7. CASE ReceiveException
    <3>1. [call |-> calls, method |-> method, how |-> Answer[1], value |-> Unset]
            \in EndedIn(build) /\ Answer[1] # "returned"
      BY <2>6, <2>7 DEF ReceiveException, EndedIn
    <3> QED
      BY <2>7, <3>1, EndingMaps DEF ReceiveException
  <2>8. CASE ReceiveResult
    <3> DEFINE v == Read(Result, Answer)[1]
    <3>1. v = Returns(calls, method, server)
      BY <2>6, <2>8 DEF ReceiveResult, Returns, Result
    <3>2. [call |-> calls, method |-> method, how |-> "returned", value |-> v]
            \in EndedIn(build)
      BY <2>6, <2>8, <3>1 DEF ReceiveResult, EndedIn, server
    <3> HIDE DEF v
    <3>3. Receiving /\ Ends("returned", v) /\ Was("result")
      BY <2>6, <2>8 DEF ReceiveResult, v
    <3> QED
      BY <3>2, <3>3, EndingMaps
  <2>9. CASE ResultMissing
    <3>1. [call |-> calls, method |-> method, how |-> "MISSING_RESULT", value |-> Unset]
            \in EndedIn(build)
      BY <2>6, <2>9 DEF ResultMissing, EndedIn
    <3> QED
      BY <2>9, <3>1, EndingMaps DEF ResultMissing
  <2> QED
    BY <2>1, <2>2, <2>3, <2>4, <2>5, <2>7, <2>8, <2>9 DEF ServiceNext
<1> QED
  BY <1>1, <1>2, SInvAlways, PTL DEF ServiceSpec, Abstract!SafeSpec

=============================================================================
