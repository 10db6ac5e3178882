--------------------------- MODULE ThreadedServer ---------------------------
(***************************************************************************)
(* The server's accept loop and its tasks (TThreadedServer.cpp), over      *)
(* TServerSocket::acceptImpl: serve() accepts a connection, makes a Task,  *)
(* enters it in tasks_ and starts a thread for it; the thread serves the   *)
(* connection until the client closes it or something throws, closes its   *)
(* end and takes the task out again.  The program never calls stop(), so   *)
(* that the loop has no end of its own.                                    *)
(*                                                                         *)
(* In the Windows build a thread which cannot be started is reported by an *)
(* exception (boost::thread_resource_error, std::system_error) that is     *)
(* neither a TException nor a string: nothing catches it.                  *)
(*                                                                         *)
(* What a task does for a request is ServiceCall and SpoolForward.  Names  *)
(* ending in "Slip" are mistakes the code could have made in place of      *)
(* their neighbours.                                                       *)
(***************************************************************************)
EXTENDS Naturals

CONSTANTS
    Conns,       \* the connections which clients make
    NoConn,
    MaxFaults    \* bound: failures of accept, of a task and of start()

ASSUME ConstantsAssumption ==
    /\ NoConn \notin Conns
    /\ MaxFaults \in Nat

VARIABLES
    conn,      \* each connection, as its two ends have it
    thread,    \* the thread of each connection's task
    tasks,     \* tasks_
    pc,        \* where serve() is
    client,    \* its local "client": the connection it has in hand
    failed,    \* connections in whose service something has failed
    faults

vars == <<conn, thread, tasks, pc, client, failed, faults>>

Fault == faults < MaxFaults /\ faults' = faults + 1

\* "backlog": connected, not accepted; "open": accepted, both ends open;
\* "left": the client has closed it; "closed": the server has.
Closed(c) == [conn EXCEPT ![c] = "closed"]

-----------------------------------------------------------------------------
(* Clients.                                                                *)

Connect(c) ==
    /\ conn[c] = "none" /\ pc # "terminated"
    /\ conn' = [conn EXCEPT ![c] = "backlog"]
    /\ UNCHANGED <<thread, tasks, pc, client, failed, faults>>

Leave(c) ==
    /\ conn[c] \in {"backlog", "open"}
    /\ conn' = [conn EXCEPT ![c] = "left"]
    /\ UNCHANGED <<thread, tasks, pc, client, failed, faults>>

-----------------------------------------------------------------------------
(* serve().                                                                *)

\* "client.reset()": the connection of the round before is let go.  Slip: not
\* so.
ResetSlip == client
Reset == NoConn

Round ==
    /\ pc = "round"
    /\ client' = Reset
    /\ pc' = "accept"
    /\ UNCHANGED <<conn, thread, tasks, failed, faults>>

\* Also a connection which its client has closed already can be accepted.
Waiting(c) == conn[c] \in {"backlog", "left"} /\ thread[c] = "none"

Accept(c) ==
    /\ pc = "accept"
    /\ Waiting(c)
    /\ client' = c
    /\ conn' = [conn EXCEPT ![c] = IF @ = "left" THEN @ ELSE "open"]
    /\ thread' = [thread EXCEPT ![c] = "made"]
    /\ pc' = "insert"
    /\ UNCHANGED <<tasks, failed, faults>>

\* Where serve() goes on after a TTransportException.  Slip: break.
ContinueSlip == "terminated"
Continue == "round"

\* poll() or accept() fails: what is in hand is closed, and the loop goes on.
AcceptFails ==
    /\ Fault
    /\ pc = "accept"
    /\ conn' = IF client = NoConn THEN conn ELSE Closed(client)
    /\ pc' = Continue
    /\ UNCHANGED <<thread, tasks, client, failed>>

\* The socket just accepted cannot be set to blocking: acceptImpl() throws
\* and does not close it, and it is in nobody's hand.
AcceptLoses(c) ==
    /\ Fault
    /\ pc = "accept"
    /\ Waiting(c)
    /\ thread' = [thread EXCEPT ![c] = "lost"]
    /\ failed' = failed \cup {c}
    /\ pc' = Continue
    /\ UNCHANGED <<conn, tasks, client>>

\* Slip: a task which is entered nowhere.
InsertedSlip == tasks
Inserted == tasks \cup {client}

Insert ==
    /\ pc = "insert"
    /\ tasks' = Inserted
    /\ pc' = "start"
    /\ UNCHANGED <<conn, thread, client, failed, faults>>

Start ==
    /\ pc = "start"
    /\ thread' = [thread EXCEPT ![client] = "runs"]
    /\ pc' = "round"
    /\ UNCHANGED <<conn, tasks, client, failed, faults>>

\* The exception leaves serve() and main(): the process ends.
StartFails ==
    /\ Fault
    /\ pc = "start"
    /\ pc' = "terminated"
    /\ conn' = [c \in Conns |-> IF conn[c] = "none" THEN "none" ELSE "closed"]
    /\ thread' = [c \in Conns |-> "none"] /\ tasks' = {} /\ client' = NoConn
    /\ UNCHANGED failed

-----------------------------------------------------------------------------
(* Task::run().                                                            *)

\* "!process() || !peek()", or TTransportException: the client has gone.
EndOfConnection(c) ==
    /\ thread[c] = "runs" /\ conn[c] # "open"
    /\ thread' = [thread EXCEPT ![c] = "closes"]
    /\ UNCHANGED <<conn, tasks, pc, client, failed, faults>>

\* Any other exception is caught, and ends this connection only.
TaskThrows(c) ==
    /\ Fault
    /\ thread[c] = "runs"
    /\ thread' = [thread EXCEPT ![c] = "closes"]
    /\ failed' = failed \cup {c}
    /\ UNCHANGED <<conn, tasks, pc, client>>

Close(c) ==
    /\ thread[c] = "closes"
    /\ conn' = Closed(c)
    /\ thread' = [thread EXCEPT ![c] = "erases"]
    /\ UNCHANGED <<tasks, pc, client, failed, faults>>

\* Slip: the thread ends and leaves its task.
ErasedSlip(c) == tasks
Erased(c) == tasks \ {c}

Erase(c) ==
    /\ thread[c] = "erases"
    /\ tasks' = Erased(c)
    /\ thread' = [thread EXCEPT ![c] = "ended"]
    /\ UNCHANGED <<conn, pc, client, failed, faults>>

Run(c) == EndOfConnection(c) \/ Close(c) \/ Erase(c)

Serve == Round \/ Insert \/ Start \/ \E c \in Conns : Accept(c)

-----------------------------------------------------------------------------
Init ==
    /\ conn = [c \in Conns |-> "none"]
    /\ thread = [c \in Conns |-> "none"]
    /\ tasks = {} /\ pc = "round" /\ client = NoConn
    /\ failed = {} /\ faults = 0

Next ==
    \/ Serve \/ AcceptFails \/ StartFails
    \/ \E c \in Conns :
          Connect(c) \/ Leave(c) \/ AcceptLoses(c) \/ Run(c) \/ TaskThrows(c)

Spec == Init /\ [][Next]_vars

(* Threads run; the backlog is served in turn, so that with finitely many  *)
(* connections every one of them is accepted.                              *)
Fairness == WF_vars(Serve) /\ \A c \in Conns : WF_vars(Run(c))

FairSpec == Spec /\ Fairness

-----------------------------------------------------------------------------
(* Properties.                                                             *)

Live == {"runs", "closes", "erases"}

TypeOK ==
    /\ conn \in [Conns -> {"none", "backlog", "open", "left", "closed"}]
    /\ thread \in [Conns -> Live \cup {"none", "made", "lost", "ended"}]
    /\ tasks \subseteq Conns
    /\ pc \in {"round", "accept", "insert", "start", "terminated"}
    /\ client \in Conns \cup {NoConn}
    /\ failed \subseteq Conns /\ faults \in Nat

(* tasks_ has the tasks of the threads which run, and the one which is     *)
(* about to: a thread never finds its task missing, and none is left over. *)
TasksAreKnown ==
    tasks = {c \in Conns : thread[c] \in Live}
                \cup (IF pc = "start" THEN {client} ELSE {})

(* The server closes a connection its client still uses only when its own  *)
(* service has failed or the process ends: an exception in serve() closes  *)
(* what serve() has in hand, and never the connection of a running task.   *)
ClosesOnlyItsOwn ==
    [][\A c \in Conns : conn[c] \in {"backlog", "open"} /\ conn'[c] = "closed"
          => c \in failed \/ pc' = "terminated"]_vars

(* Every client which connects is served, or has itself gone, unless its   *)
(* connection was lost between accept() and the task.                      *)
EveryClientIsServed ==
    \A c \in Conns : conn[c] = "backlog" ~>
        \/ thread[c] = "runs"
        \/ conn[c] \in {"left", "closed"}
        \/ c \in failed

(* When a client has gone its thread and its task go too.                  *)
GoneClientsAreForgotten ==
    \A c \in Conns : conn[c] = "left" /\ thread[c] \in {"made", "runs"} ~>
        conn[c] = "closed" /\ c \notin tasks /\ thread[c] \notin Live

=============================================================================
