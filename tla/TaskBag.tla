------------------------------- MODULE TaskBag -------------------------------
(***************************************************************************)
(* What a ThreadPool promises: tasks are accepted until it is closed, each *)
(* is begun at most once and in the order of acceptance, no more than N    *)
(* run at a time, and it is over only when every task is done.             *)
(***************************************************************************)
EXTENDS Naturals, FiniteSets

CONSTANTS N,    \* threads
          Max   \* tasks that can ever be accepted

VARIABLES accepted,   \* tasks 1..accepted were accepted
          begun,      \* tasks 1..begun were begun
          running, closed, over
vars == <<accepted, begun, running, closed, over>>

Init == /\ accepted = 0 /\ begun = 0 /\ running = {}
        /\ closed = FALSE /\ over = FALSE

Accept == /\ ~ closed /\ accepted < Max
          /\ accepted' = accepted + 1
          /\ UNCHANGED <<begun, running, closed, over>>

Begin == /\ begun < accepted /\ Cardinality(running) < N
         /\ begun' = begun + 1
         /\ running' = running \union {begun'}
         /\ UNCHANGED <<accepted, closed, over>>

Finish(k) == /\ k \in running
             /\ running' = running \ {k}
             /\ UNCHANGED <<accepted, begun, closed, over>>

Close == /\ ~ closed
         /\ closed' = TRUE
         /\ UNCHANGED <<accepted, begun, running, over>>

End == /\ closed /\ ~ over
       /\ begun = accepted /\ running = {}
       /\ over' = TRUE
       /\ UNCHANGED <<accepted, begun, running, closed>>

Next == Accept \/ Begin \/ (\E k \in running : Finish(k)) \/ Close \/ End

(* Every accepted task is begun, and a pool that is closed ends.           *)
Fairness == WF_vars(Begin) /\ WF_vars(End)

Spec == Init /\ [][Next]_vars /\ Fairness
=============================================================================
