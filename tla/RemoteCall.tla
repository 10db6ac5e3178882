----------------------------- MODULE RemoteCall -----------------------------
(***************************************************************************)
(* What a forwarded call promises the detour which makes it: one call at a *)
(* time, executed at most once, and reported as done only if it has been   *)
(* executed.  A call which fails may have been executed, or be executed    *)
(* later.  An implementation may lose hold of its stream for good: from    *)
(* then on it promises nothing.  And if the other end has gone without a   *)
(* word, and nobody ever tells, it does not promise that a call ends.      *)
(***************************************************************************)
EXTENDS Naturals

VARIABLES
    silent,     \* the other end has gone, and nobody has been told: this is
                \* not the call's doing, and may change at any step
    calls,      \* the calls made so far, numbered 1 .. calls
    pending,    \* the last of them has not returned
    executed,   \* the calls the server has executed
    returned,   \* the calls whose results the client has accepted
    void        \* nothing is promised any more

vars == <<calls, pending, executed, returned, void>>

Init ==
    /\ calls = 0
    /\ pending = FALSE
    /\ executed = {}
    /\ returned = {}
    /\ void = FALSE

Call ==
    /\ ~pending
    /\ calls' = calls + 1
    /\ pending' = TRUE
    /\ UNCHANGED <<executed, returned>>

Execute(k) ==
    /\ k \notin executed
    /\ executed' = executed \cup {k}
    /\ UNCHANGED <<calls, pending, returned>>

Return ==
    /\ pending
    /\ calls \in executed
    /\ pending' = FALSE
    /\ returned' = returned \cup {calls}
    /\ UNCHANGED <<calls, executed>>

Fail ==
    /\ pending
    /\ pending' = FALSE
    /\ UNCHANGED <<calls, executed, returned>>

Promised == Call \/ Return \/ Fail \/ \E k \in 1 .. calls : Execute(k)

Next ==
    \/ Promised /\ ~void /\ ~void'
    \/ void'

SafeSpec == Init /\ [][Next]_vars

(* Every call ends, unless the other end stays gone without a word.        *)
Ends == []<>~silent => (pending ~> ~pending \/ void)

Spec == SafeSpec /\ Ends

=============================================================================
