--------------------------- MODULE PausableThread ---------------------------
(***************************************************************************)
(* PausableThread of http-server/src/thread_pause.cpp: a worker that does  *)
(* units of work, and an owner that may pause, resume and finally stop it. *)
(* A section under mtx is one action; notify_one comes after the unlock    *)
(* and is an action of its own.  The atomics are read outside the mutex at *)
(* the head of the loop, after the first wait and after a unit of work.    *)
(***************************************************************************)
EXTENDS Naturals

VARIABLES is_paused, should_stop,
          worker,   \* where the worker is
          owner,    \* "free", "resumed" or "stopped" (about to notify), "joining", "done"
          begun     \* history: units begun since the last pause, at most 2 are counted
vars == <<is_paused, should_stop, worker, owner, begun>>

Init == /\ is_paused = FALSE /\ should_stop = FALSE
        /\ worker = "loop" /\ owner = "free" /\ begun = 0

(* The predicate of both waits.                                            *)
MayRun_UntilResumed == ~ is_paused

MayRun_WhileNot == is_paused \/ should_stop

MayRun == ~ is_paused \/ should_stop

LoopTest == /\ worker = "loop"
            /\ worker' = IF should_stop THEN "gone" ELSE "first wait"
            /\ UNCHANGED <<is_paused, should_stop, owner, begun>>

(* cv.wait: the predicate and the sleep are in one section.                *)
WaitBeforeWork == /\ worker = "first wait"
                  /\ worker' = IF MayRun THEN "check" ELSE "asleep at first"
                  /\ UNCHANGED <<is_paused, should_stop, owner, begun>>

BeginWork ==
  /\ worker = "check"
  /\ IF should_stop
       THEN worker' = "gone" /\ UNCHANGED begun
       ELSE worker' = "work" /\ begun' = IF begun < 2 THEN begun + 1 ELSE 2
  /\ UNCHANGED <<is_paused, should_stop, owner>>

EndWork == /\ worker = "work"
           /\ worker' = IF is_paused THEN "second wait" ELSE "loop"
           /\ UNCHANGED <<is_paused, should_stop, owner, begun>>

WaitAfterWork == /\ worker = "second wait"
                 /\ worker' = IF MayRun THEN "loop" ELSE "asleep at second"
                 /\ UNCHANGED <<is_paused, should_stop, owner, begun>>

Asleep == worker \in {"asleep at first", "asleep at second"}
Woken == IF worker = "asleep at first" THEN "first wait" ELSE "second wait"

(* A condition variable may return for no reason.                          *)
WakeUnasked == /\ Asleep
               /\ worker' = Woken
               /\ UNCHANGED <<is_paused, should_stop, owner, begun>>

-----------------------------------------------------------------------------
Pause == /\ owner = "free"
         /\ is_paused' = TRUE
         /\ begun' = 0
         /\ UNCHANGED <<should_stop, worker, owner>>

Resume == /\ owner = "free"
          /\ is_paused' = FALSE
          /\ owner' = "resumed"
          /\ UNCHANGED <<should_stop, worker, begun>>

Stop == /\ owner = "free"
        /\ should_stop' = TRUE
        /\ owner' = "stopped"
        /\ UNCHANGED <<is_paused, worker, begun>>

(* notify_one, at the end of resume and of stop; the destructor joins.     *)
Notify == /\ owner \in {"resumed", "stopped"}
          /\ worker' = IF Asleep THEN Woken ELSE worker
          /\ owner' = IF owner = "resumed" THEN "free" ELSE "joining"
          /\ UNCHANGED <<is_paused, should_stop, begun>>

Join == /\ owner = "joining" /\ worker = "gone"
        /\ owner' = "done"
        /\ UNCHANGED <<is_paused, should_stop, worker, begun>>

WorkerStep == LoopTest \/ WaitBeforeWork \/ BeginWork \/ EndWork \/ WaitAfterWork

Next == WorkerStep \/ WakeUnasked \/ Pause \/ Resume \/ Stop \/ Notify \/ Join

(* The scheduler runs both threads; the condition variable owes no wakeup  *)
(* that nobody asked for, and the owner no call.                           *)
Fairness == WF_vars(WorkerStep) /\ WF_vars(Notify \/ Join)

Spec == Init /\ [][Next]_vars /\ Fairness

-----------------------------------------------------------------------------
(* pause returns while a unit may be under way, and one more may begin     *)
(* (the worker may stand between its first wait and the work); a second    *)
(* one never begins before resume.                                         *)
OneMoreUnit == is_paused => begun <= 1

(* No notification is lost, though flags are set under the mutex and read  *)
(* outside it: stop ends the worker, for the join of the destructor, and   *)
(* after resume the worker works unless it is paused or stopped first.     *)
ThreadAnswers ==
  /\ should_stop ~> owner = "done"
  /\ owner = "resumed" ~> worker = "work" \/ is_paused \/ should_stop
=============================================================================
