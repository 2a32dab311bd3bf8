---------------------------- MODULE ThreadStudies ----------------------------
(***************************************************************************)
(* The three studies of http-server/src/thread_pause.cpp.  main tries them *)
(* one after the other and they share nothing, so a behaviour is one of    *)
(* them.  The owner does in any number and order what main does once, and  *)
(* may end what main never ends.                                           *)
(***************************************************************************)
EXTENDS FiniteSets

CONSTANTS Worker, MaxTasks, MaxGames

(* Pools have 4 threads here and 8 in simple_server_coro.cpp.              *)
ASSUME ThreadStudiesAssumption == IsFiniteSet(Worker) /\ Worker # {}

VARIABLES study,
          is_paused, should_stop, worker, thread_owner, begun,
          tasks, stop, pc, task, enqueued, pool_owner,
          games_, scanner, created
threadVars == <<is_paused, should_stop, worker, thread_owner, begun>>
poolVars == <<tasks, stop, pc, task, enqueued, pool_owner>>
gamesVars == <<games_, scanner, created>>
studyVars == <<study, threadVars, poolVars, gamesVars>>

Thread == INSTANCE PausableThread WITH owner <- thread_owner
Pool == INSTANCE ThreadPool WITH owner <- pool_owner
Games == INSTANCE GameScanner

StudyInit == /\ study \in {"thread", "pool", "games"}
             /\ Thread!Init /\ Pool!Init /\ Games!Init

StudyNext ==
  /\ UNCHANGED study
  /\ \/ study = "thread" /\ Thread!Next /\ UNCHANGED <<poolVars, gamesVars>>
     \/ study = "pool" /\ Pool!Next /\ UNCHANGED <<threadVars, gamesVars>>
     \/ study = "games" /\ Games!Next /\ UNCHANGED <<threadVars, poolVars>>

StudySpec == /\ StudyInit /\ [][StudyNext]_studyVars
             /\ study = "thread" => Thread!Fairness
             /\ study = "pool" => Pool!Fairness
             /\ study = "games" => Games!Fairness

-----------------------------------------------------------------------------
(* After pause at most one more unit of work begins.                       *)
OneMoreUnit == Thread!OneMoreUnit

(* stop ends the thread and resume makes it work: no wakeup is lost.       *)
ThreadAnswers == Thread!ThreadAnswers

(* Each task runs once, in order, and the destructor waits for all.        *)
ImplementsTaskBag == Pool!ImplementsTaskBag

(* A game in the list is looked at: the scanner does not sleep on it.      *)
ScannerWakes == Games!ScannerWakes
=============================================================================
