----------------------------- MODULE ThreadPool -----------------------------
(***************************************************************************)
(* ThreadPool of http-server/src/thread_pause.cpp.  A worker takes a task  *)
(* inside the section of queue_mutex in which its wait returned, and runs  *)
(* it outside.  notify_one of enqueue comes after the section; so does     *)
(* notify_all of the destructor, which then joins the workers.             *)
(***************************************************************************)
EXTENDS Naturals, Sequences, FiniteSets

CONSTANTS Worker,     \* num_threads of them
          MaxTasks    \* bound: tasks that are enqueued

VARIABLES tasks, stop,
          pc,         \* "wait", "asleep", "run" or "gone", for each worker
          task,       \* the task each worker runs
          enqueued,   \* tasks are numbered as they are enqueued
          owner       \* "free", "enqueued" or "stopped" (about to notify), "joining", "done"
vars == <<tasks, stop, pc, task, enqueued, owner>>

Init == /\ tasks = <<>> /\ stop = FALSE
        /\ pc = [w \in Worker |-> "wait"] /\ task = [w \in Worker |-> 0]
        /\ enqueued = 0 /\ owner = "free"

(* The wait, and taking the front of the queue in the same section.        *)
Leaves_OnStop == stop

Leaves == stop /\ tasks = <<>>

Wait(w) ==
  /\ pc[w] = "wait"
  /\ \/ /\ tasks = <<>> /\ ~ stop
        /\ pc' = [pc EXCEPT ![w] = "asleep"]
        /\ UNCHANGED <<tasks, task>>
     \/ /\ Leaves
        /\ pc' = [pc EXCEPT ![w] = "gone"]
        /\ UNCHANGED <<tasks, task>>
     \/ /\ tasks # <<>> /\ ~ Leaves
        /\ task' = [task EXCEPT ![w] = Head(tasks)]
        /\ tasks' = Tail(tasks)
        /\ pc' = [pc EXCEPT ![w] = "run"]
  /\ UNCHANGED <<stop, enqueued, owner>>

RunTask(w) == /\ pc[w] = "run"
              /\ pc' = [pc EXCEPT ![w] = "wait"]
              /\ task' = [task EXCEPT ![w] = 0]
              /\ UNCHANGED <<tasks, stop, enqueued, owner>>

WakeUnasked(w) == /\ pc[w] = "asleep"
                  /\ pc' = [pc EXCEPT ![w] = "wait"]
                  /\ UNCHANGED <<tasks, stop, task, enqueued, owner>>

-----------------------------------------------------------------------------
Enqueue == /\ owner = "free" /\ enqueued < MaxTasks
           /\ enqueued' = enqueued + 1
           /\ tasks' = Append(tasks, enqueued')
           /\ owner' = "enqueued"
           /\ UNCHANGED <<stop, pc, task>>

Destroy == /\ owner = "free"
           /\ stop' = TRUE
           /\ owner' = "stopped"
           /\ UNCHANGED <<tasks, pc, task, enqueued>>

Sleeping == {w \in Worker : pc[w] = "asleep"}

(* Whom a notification may wake: one of those asleep, or all of them.      *)
Notified_One == IF Sleeping = {} THEN {{}} ELSE {{w} : w \in Sleeping}

Notified == IF owner = "stopped" \/ Sleeping = {} THEN {Sleeping}
                                                  ELSE {{w} : w \in Sleeping}

Notify == /\ owner \in {"enqueued", "stopped"}
          /\ \E woken \in Notified :
               pc' = [w \in Worker |-> IF w \in woken THEN "wait" ELSE pc[w]]
          /\ owner' = IF owner = "enqueued" THEN "free" ELSE "joining"
          /\ UNCHANGED <<tasks, stop, task, enqueued>>

Join == /\ owner = "joining" /\ \A w \in Worker : pc[w] = "gone"
        /\ owner' = "done"
        /\ UNCHANGED <<tasks, stop, pc, task, enqueued>>

Next == \/ \E w \in Worker : Wait(w) \/ RunTask(w) \/ WakeUnasked(w)
        \/ Enqueue \/ Destroy \/ Notify \/ Join

(* Every thread is run, a task ends, and the owner finishes what it began. *)
(* No wakeup is owed that nobody asked for.                                *)
Fairness == /\ \A w \in Worker : WF_vars(Wait(w) \/ RunTask(w))
            /\ WF_vars(Notify \/ Join)

Spec == Init /\ [][Next]_vars /\ Fairness

-----------------------------------------------------------------------------
Bag == INSTANCE TaskBag WITH
         N <- Cardinality(Worker), Max <- MaxTasks,
         accepted <- enqueued, begun <- enqueued - Len(tasks),
         running <- {task[w] : w \in {v \in Worker : pc[v] = "run"}},
         closed <- stop, over <- owner = "done"

(* Each task runs once, in order, and none is left when the destructor     *)
(* returns, however workers, owner and wakeups interleave.                 *)
ImplementsTaskBag == Bag!Spec
=============================================================================
