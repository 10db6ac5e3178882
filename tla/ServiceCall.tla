---------------------------- MODULE ServiceCall ----------------------------
(***************************************************************************)
(* The generated client and the generated processor of a service: one      *)
(* client calls methods over a connection which stays up (RpcStream has    *)
(* the connection which does not).  The client is built from the interface *)
(* Client, the server from one of Interfaces: the executable and the DLL   *)
(* are installed on different machines, and the code reads structs so that *)
(* they need not be of the same build.                                     *)
(*                                                                         *)
(* A stream is a sequence of parts: the header of a message, then its      *)
(* body.  A value is named after the call and the field it was written     *)
(* for.  What follows a call for which a map has been read by the wrong    *)
(* types, on a stream which is out of step, is not modelled.               *)
(*                                                                         *)
(* "handled", "garbled" and "ended" are history.  HeaderOnly, BodyKept,    *)
(* ArgumentsKept and IssetForgotten are slips the code could have made in  *)
(* place of their neighbours.                                              *)
(***************************************************************************)
EXTENDS Naturals, Sequences

CONSTANTS
    Client,       \* the interface of the client: method |-> its structs
    Interfaces,   \* those of the servers it may meet: build |-> interface
    MaxCalls      \* bound: calls of the client

(* Field numbers are never reused: what has the same number in two builds  *)
(* has the same name.                                                      *)
SameNumbering(c, s) ==
    \A i \in DOMAIN c, j \in DOMAIN s : c[i].name = s[j].name <=> i = j

SameNumberingInside(c, s) ==
    \A i \in DOMAIN c \cap DOMAIN s :
        c[i].type = "T_STRUCT" /\ s[i].type = "T_STRUCT"
            => SameNumbering(c[i].of, s[i].of)

ASSUME ServiceAssumption ==
    /\ MaxCalls \in Nat
    /\ \A b \in DOMAIN Interfaces :
          \A m \in DOMAIN Client \cap DOMAIN Interfaces[b] :
             /\ SameNumbering(Client[m].args, Interfaces[b][m].args)
             /\ SameNumberingInside(Client[m].args, Interfaces[b][m].args)
             /\ SameNumbering(<<Client[m].result>>, <<Interfaces[b][m].result>>)
             /\ SameNumberingInside(<<Client[m].result>>, <<Interfaces[b][m].result>>)

VARIABLES
    build,      \* what the server has been built from
    stage,      \* "idle", "waiting" for the reply, "misread": or for what
                \* comes of a map which has been read by the wrong types,
                \* "adrift": the call has ended, the stream is out of step
    calls,      \* number of the present or last call
    method,     \* its method
    toServer,   \* what the server has not read
    toClient,   \* what the client has not read
    handled,    \* calls of the server's handler
    garbled,    \* those with arguments which have been misread
    ended       \* calls of the client which have ended, and how

serviceVars ==
    <<build, stage, calls, method, toServer, toClient, handled, garbled, ended>>

-----------------------------------------------------------------------------
(* Structs: write() writes every field, read() takes the fields it knows.  *)

Unset == [call |-> 0, field |-> "none"]
Named(k, f) == [call |-> k, field |-> f.name]

(* The value a field is given in call k; of a struct, those of its fields. *)
Given(k, f) ==
    IF f.type = "T_STRUCT" THEN [i \in DOMAIN f.of |-> Named(k, f.of[i])] ELSE Named(k, f)

WriteFlat(fields, v) ==
    [i \in DOMAIN fields |->
        [type |-> fields[i].type, of |-> fields[i].of, value |-> v[i]]]

WriteField(f, v) ==
    [type |-> f.type, of |-> f.of,
     value |-> IF f.type = "T_STRUCT" THEN WriteFlat(f.of, v) ELSE v]

Write(fields, v) == [i \in DOMAIN fields |-> WriteField(fields[i], v[i])]

(* "case <id>: if (ftype == <type>)"; otherwise the field is skipped.      *)
Taken(fields, body, i) == i \in DOMAIN body /\ body[i].type = fields[i].type

ReadFlat(fields, body) ==
    [i \in DOMAIN fields |-> IF Taken(fields, body, i) THEN body[i].value ELSE Unset]

(* What the constructor leaves in a field which is not read.               *)
Constructed(f) == IF f.type = "T_STRUCT" THEN [i \in DOMAIN f.of |-> Unset] ELSE Unset

ReadField(f, w) == IF f.type = "T_STRUCT" THEN ReadFlat(f.of, w.value) ELSE w.value

Read(fields, body) ==
    [i \in DOMAIN fields |->
        IF Taken(fields, body, i) THEN ReadField(fields[i], body[i])
        ELSE Constructed(fields[i])]

(* The types of a map's keys and values are read and not looked at.        *)
MisreadFlat(fields, body) ==
    \E i \in DOMAIN fields :
        /\ Taken(fields, body, i)
        /\ fields[i].type = "T_MAP" /\ fields[i].of # body[i].of

Misread(fields, body) ==
    \/ MisreadFlat(fields, body)
    \/ \E i \in DOMAIN fields :
          /\ Taken(fields, body, i)
          /\ fields[i].type = "T_STRUCT" /\ MisreadFlat(fields[i].of, body[i].value)

-----------------------------------------------------------------------------
Header(m, kind) == [part |-> "header", name |-> m, kind |-> kind]
Body(fields) == [part |-> "body", fields |-> fields]
Message(m, kind, fields) == <<Header(m, kind), Body(fields)>>

AMessage(stream) ==
    Len(stream) >= 2 /\ stream[1].part = "header" /\ stream[2].part = "body"
HeaderOnly(stream) == SubSeq(stream, 2, Len(stream))
After(stream) == SubSeq(stream, 3, Len(stream))

Arguments(k, m) ==
    [i \in DOMAIN Client[m].args |-> Given(k, Client[m].args[i])]

(* send_<method>(): the arguments of the caller are written as they are.   *)
Send(m) ==
    /\ stage = "idle"
    /\ calls < MaxCalls
    /\ calls' = calls + 1
    /\ method' = m
    /\ toServer' = toServer \o
          Message(m, "T_CALL", Write(Client[m].args, Arguments(calls', m)))
    /\ stage' = "waiting"
    /\ UNCHANGED <<build, toClient, handled, garbled, ended>>

-----------------------------------------------------------------------------
(* SelfServiceProcessor: dispatchCall and the process_ functions.          *)

server == Interfaces[build]
Called == toServer[1].name
Request == toServer[2].fields
Known == Called \in DOMAIN server

(* skip(T_STRUCT) of an unknown method's arguments.                        *)
BodyKept == toServer' = HeaderOnly(toServer)
Skipped == toServer' = After(toServer)

Reply(kind, fields) == toClient' = toClient \o Message(Called, kind, fields)

UnknownMethod ==
    /\ stage = "waiting"
    /\ AMessage(toServer)
    /\ ~Known
    /\ Skipped
    /\ Reply("T_EXCEPTION", <<"UNKNOWN_METHOD">>)
    /\ UNCHANGED <<build, stage, calls, method, handled, garbled, ended>>

(* A fresh args struct is read.                                            *)
ArgumentsKept ==
    LET read == Read(server[Called].args, Request) IN
    [i \in DOMAIN read |->
        IF /\ read[i] = Unset /\ handled # <<>>
           /\ i \in DOMAIN handled[Len(handled)].args
        THEN handled[Len(handled)].args[i] ELSE read[i]]
ArgumentsRead == Read(server[Called].args, Request)

Handle(gave) ==
    handled' = Append(handled,
        [call |-> calls, method |-> Called, args |-> ArgumentsRead, gave |-> gave])

Processing ==
    /\ stage = "waiting"
    /\ AMessage(toServer)
    /\ Known
    /\ toServer' = After(toServer)
    /\ UNCHANGED <<build, calls, method, ended>>

(* __isset.success is set when the handler returns.                        *)
IssetForgotten(f, v) == <<>>
ResultWritten(f, v) == <<WriteField(f, v)>>

HandlerReturns ==
    /\ Processing
    /\ ~Misread(server[Called].args, Request)
    /\ Handle("result")
    /\ Reply("T_REPLY",
             ResultWritten(server[Called].result, Given(calls, server[Called].result)))
    /\ UNCHANGED <<stage, garbled>>

(* catch (const std::exception& e)                                         *)
HandlerThrows ==
    /\ Processing
    /\ ~Misread(server[Called].args, Request)
    /\ Handle("exception")
    /\ Reply("T_EXCEPTION", <<"HANDLER">>)
    /\ UNCHANGED <<stage, garbled>>

(* The bytes of a map are taken for others.  The read throws, waits for    *)
(* bytes which nobody sends, or yields something, which is handled.        *)
ArgumentsMisread ==
    /\ Processing
    /\ Misread(server[Called].args, Request)
    /\ garbled' \in {garbled, garbled \cup {calls}}
    /\ stage' = "misread"
    /\ UNCHANGED <<toClient, handled>>

-----------------------------------------------------------------------------
(* recv_<method>(); a reply of another method does not come here, where    *)
(* the connection stays up.                                                *)

Result == <<Client[method].result>>
Answer == toClient[2].fields
AnException == toClient[1].kind = "T_EXCEPTION"

Ended(how, v) ==
    ended' = Append(ended, [call |-> calls, method |-> method, how |-> how, value |-> v])
Ends(how, v) == Ended(how, v) /\ stage' = "idle"

Receiving ==
    /\ stage = "waiting"
    /\ AMessage(toClient)
    /\ toClient' = After(toClient)
    /\ UNCHANGED <<build, calls, method, toServer, handled, garbled>>

ReceiveException ==
    /\ Receiving
    /\ AnException
    /\ Ends(Answer[1], Unset)

ReceiveResult ==
    /\ Receiving
    /\ ~AnException
    /\ Taken(Result, Answer, 1)
    /\ ~Misread(Result, Answer)
    /\ Ends("returned", Read(Result, Answer)[1])

(* The result is not there, or of another type.                            *)
ResultMissing ==
    /\ Receiving
    /\ ~AnException
    /\ ~Taken(Result, Answer, 1)
    /\ Ends("MISSING_RESULT", Unset)

ResultMisread ==
    /\ Receiving
    /\ ~AnException
    /\ Misread(Result, Answer)
    /\ stage' = "misread"
    /\ UNCHANGED ended

(* A call for which a map has been misread may wait for ever.  If it ends, *)
(* it has thrown or returns what has been read.                            *)
EndsAdrift ==
    /\ stage = "misread"
    /\ Ended("adrift", Unset)
    /\ stage' = "adrift"
    /\ UNCHANGED <<build, calls, method, toServer, toClient, handled, garbled>>

-----------------------------------------------------------------------------
ServiceInit ==
    /\ build \in DOMAIN Interfaces
    /\ stage = "idle" /\ calls = 0 /\ method = "none"
    /\ toServer = <<>> /\ toClient = <<>>
    /\ handled = <<>> /\ garbled = {} /\ ended = <<>>

Dispatch == UnknownMethod \/ HandlerReturns \/ HandlerThrows \/ ArgumentsMisread
Receive == ReceiveException \/ ReceiveResult \/ ResultMissing \/ ResultMisread

ServiceNext ==
    \/ \E m \in DOMAIN Client : Send(m)
    \/ UnknownMethod \/ HandlerReturns \/ HandlerThrows \/ ArgumentsMisread
    \/ ReceiveException \/ ReceiveResult \/ ResultMissing \/ ResultMisread
    \/ EndsAdrift

ServiceSpec == ServiceInit /\ [][ServiceNext]_serviceVars

(* The server's thread reads what there is, and so does the caller.  That  *)
(* a call ends for which a map has been misread is not assumed.            *)
ServiceFairSpec ==
    ServiceSpec /\ WF_serviceVars(Dispatch) /\ WF_serviceVars(Receive)

-----------------------------------------------------------------------------
(* Properties.                                                             *)

(* A build which lacks a field, or has it by another type, leaves it as    *)
(* constructed; everything else comes as it was given, matched by NAME     *)
(* although only numbers travel.                                           *)
HasField(fields, f) ==
    \E j \in DOMAIN fields : fields[j].name = f.name /\ fields[j].type = f.type
FieldOf(fields, f) ==
    fields[CHOOSE j \in DOMAIN fields : fields[j].name = f.name /\ fields[j].type = f.type]

ArrivesFlat(k, from, to, v) ==
    \A i \in DOMAIN to : v[i] = IF HasField(from, to[i]) THEN Named(k, to[i]) ELSE Unset

Arrives(k, from, to, v) ==
    \A i \in DOMAIN to :
        IF ~HasField(from, to[i]) THEN v[i] = Constructed(to[i])
        ELSE IF to[i].type = "T_STRUCT"
             THEN ArrivesFlat(k, FieldOf(from, to[i]).of, to[i].of, v[i])
             ELSE v[i] = Named(k, to[i])

(* Every parameter of a handler has the value the caller gave under its    *)
(* name in that call, or its default: never another parameter's, another   *)
(* type's or an earlier call's.                                            *)
ArgumentsArrive ==
    \A n \in DOMAIN handled :
        LET h == handled[n] IN
        Arrives(h.call, Client[h.method].args, server[h.method].args, h.args)

(* A call returns what the handler has returned to this very call; one     *)
(* which fails says why: a method the server lacks was not executed, a     *)
(* handler which threw was, and so was one whose result is of another type *)
(* although the caller learns nothing of it.  A call for which a map has   *)
(* been misread, and only such a one, may end in any way.                  *)
OutcomesAreTrue ==
    \A n \in DOMAIN ended :
        LET e == ended[n]
            Was(gave) == \E i \in DOMAIN handled :
                /\ handled[i].call = e.call /\ handled[i].method = e.method
                /\ handled[i].gave = gave
        IN CASE e.how = "returned" ->
                    /\ Was("result")
                    /\ Arrives(e.call, <<server[e.method].result>>,
                               <<Client[e.method].result>>, <<e.value>>)
             [] e.how = "MISSING_RESULT" ->
                    /\ Was("result")
                    /\ server[e.method].result.type # Client[e.method].result.type
             [] e.how = "HANDLER" -> Was("exception")
             [] e.how = "UNKNOWN_METHOD" ->
                    e.call \notin garbled /\ \A i \in DOMAIN handled : handled[i].call # e.call
             [] e.how = "adrift" -> stage = "adrift" /\ e.call = calls

(* After a call, however it ended, neither side has anything left to read: *)
(* the next call finds the connection in step.                             *)
InStep == stage = "idle" => toServer = <<>> /\ toClient = <<>>

(* Whatever builds meet, the stubs implement a remote call, executed at    *)
(* most once and ended, until a map is read by the wrong types: from then  *)
(* on nothing is promised, neither that the call ends nor what it returns. *)
Abstract == INSTANCE RemoteCall WITH
    pending <- stage \in {"waiting", "misread"},
    executed <- {handled[i].call : i \in DOMAIN handled} \cup garbled,
    returned <- {ended[i].call : i \in {j \in DOMAIN ended : ended[j].how = "returned"}},
    void <- stage \in {"misread", "adrift"},
    silent <- FALSE

ImplementsRemoteCall == Abstract!Spec

=============================================================================
