----------------------------- MODULE GameScanner -----------------------------
(***************************************************************************)
(* GameManager, gameScanner and gameCreator of                             *)
(* http-server/src/thread_pause.cpp.  Every method of GameManager is one   *)
(* section of its mutex and so one action; notify_one of addGame is inside *)
(* the section.  A game is its status; the creator has a bound.            *)
(***************************************************************************)
EXTENDS Naturals, Sequences

CONSTANT MaxGames   \* bound: games the creator adds

VARIABLES games_,   \* statuses, oldest first
          scanner,  \* the next call of the scanner's loop, or "asleep"
          created
vars == <<games_, scanner, created>>

Init == games_ = <<>> /\ scanner = "wait" /\ created = 0

WaitForGames == /\ scanner = "wait"
                /\ scanner' = IF games_ = <<>> THEN "asleep" ELSE "update"
                /\ UNCHANGED <<games_, created>>

WakeUnasked == /\ scanner = "asleep"
               /\ scanner' = "wait"
               /\ UNCHANGED <<games_, created>>

(* The dice let a game stay as it is or go one status further.             *)
Outcomes(status) == CASE status = "waiting" -> {"waiting", "running"}
                      [] status = "running" -> {"running", "finished"}
                      [] OTHER -> {"finished"}

UpdateAllGames ==
  /\ scanner = "update"
  /\ games_' \in [DOMAIN games_ -> {"waiting", "running", "finished"}]
  /\ \A i \in DOMAIN games_ : games_'[i] \in Outcomes(games_[i])
  /\ scanner' = "remove"
  /\ UNCHANGED created

RemoveFinishedGames == /\ scanner = "remove"
                       /\ games_' = SelectSeq(games_, LAMBDA g : g # "finished")
                       /\ scanner' = "print"
                       /\ UNCHANGED created

PrintGames == /\ scanner = "print"
              /\ scanner' = "wait"
              /\ UNCHANGED <<games_, created>>

NotifyOne_Nobody == scanner

NotifyOne == IF scanner = "asleep" THEN "wait" ELSE scanner

AddGame == /\ created < MaxGames
           /\ created' = created + 1
           /\ games_' = Append(games_, "waiting")
           /\ scanner' = NotifyOne

Scanner == WaitForGames \/ UpdateAllGames \/ RemoveFinishedGames \/ PrintGames

Next == Scanner \/ WakeUnasked \/ AddGame

(* The scheduler runs the scanner; nothing is owed by the creator or by    *)
(* the dice, and no wakeup that nobody asked for.                          *)
Fairness == WF_vars(Scanner)

Spec == Init /\ [][Next]_vars /\ Fairness

-----------------------------------------------------------------------------
(* A game that is added does not lie there while the scanner sleeps: it is *)
(* looked at, whenever in the scanner's round the creator added it.        *)
ScannerWakes == (\E i \in DOMAIN games_ : games_[i] = "waiting") ~> scanner = "update"
=============================================================================
