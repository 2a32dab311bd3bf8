------------------------------ MODULE Contest ------------------------------
(***************************************************************************)
(* What a game promises, whatever its rules of sowing: a fixed stock of    *)
(* korgools moves from the board into two kazans and never back, and the   *)
(* game ends with the verdict the kazans justify.  ToguzKorgoolGame        *)
(* implements this specification.                                          *)
(***************************************************************************)
EXTENDS Integers

CONSTANT Stock          \* korgools in the game; 162 in the code

Player == {"top", "down"}
Verdict == {"PLAYER1_WINS", "PLAYER2_WINS", "DRAW"}

VARIABLES board,        \* korgools still on the board
          score,        \* korgools in each kazan
          phase
vars == <<board, score, phase>>

Init == /\ board = Stock
        /\ score = [p \in Player |-> 0]
        /\ phase = "WAITING_FOR_PLAYERS"

(* More than half of the stock decides the game whatever else happens.     *)
Majority(points) == 2 * points > Stock

Justified(verdict, points) ==
  CASE verdict = "PLAYER1_WINS" -> points["top"] > points["down"]
    [] verdict = "PLAYER2_WINS" -> points["down"] > points["top"]
    [] verdict = "DRAW"         -> points["top"] = points["down"]

Start == /\ phase = "WAITING_FOR_PLAYERS"
         /\ phase' = "IN_PROGRESS"
         /\ UNCHANGED <<board, score>>

Abandon == /\ phase \in {"WAITING_FOR_PLAYERS", "IN_PROGRESS"}
           /\ phase' = "ABANDONED"
           /\ UNCHANGED <<board, score>>

(***************************************************************************)
(* A move takes some korgools off the board.  The game goes on only while  *)
(* nobody has a majority and both players can still have a korgool; it may *)
(* end at any move, but only with the verdict of the kazans.               *)
(***************************************************************************)
Play == /\ phase = "IN_PROGRESS"
        /\ \E top, down \in 0..board :
             /\ top + down <= board
             /\ board' = board - top - down
             /\ score' = [score EXCEPT !["top"] = @ + top, !["down"] = @ + down]
        /\ \/ /\ phase' = "IN_PROGRESS"
              /\ \A p \in Player : ~ Majority(score'[p])
              /\ board' >= 2
           \/ /\ phase' \in Verdict
              /\ Justified(phase', score')

Next == Start \/ Abandon \/ Play

Spec == Init /\ [][Next]_vars
=============================================================================
