--------------------------- MODULE MCSharedClient ---------------------------
(* Model checking of SharedClient.                                         *)
EXTENDS SharedClient

(* In turns the threads make five calls between them, four once something  *)
(* has failed on a living connection; three when they have been in calls   *)
(* at the same time, of which TurnsAreSafe claims nothing; and one each    *)
(* when they have been sending at the same time, of which no property does.*)
FewCalls ==
    \A t, u \in Threads : t # u =>
        /\ call[t].n + call[u].n <= IF together THEN 3 ELSE IF slipped = {} THEN 5 ELSE 4
        /\ sentTogether => call[t].n <= 1

=============================================================================
