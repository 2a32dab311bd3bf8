-------------------------- MODULE ToguzKorgoolGame --------------------------
(***************************************************************************)
(* One game: class ToguzKorgoolGame of include/core/game_manager_tuz.cpp.  *)
(* Every public method holds board_mutex from its first line to its last,  *)
(* so each method that changes the state is one action.  A rejected call   *)
(* changes nothing: it is a stuttering step.  The code does not enforce    *)
(* turns, so either player may move.  move_count is only reported and is   *)
(* left out.                                                               *)
(***************************************************************************)
EXTENDS Ring

VARIABLES holes,      \* board->top, board->down
          kazans,     \* board->top_kazan, board->down_kazan
          tuz,        \* top_tuz, down_tuz
          status,
          game_over
vars == <<holes, kazans, tuz, status, game_over>>

Verdict == {"PLAYER1_WINS", "PLAYER2_WINS", "DRAW"}
GameStatus == {"WAITING_FOR_PLAYERS", "IN_PROGRESS", "ABANDONED"} \union Verdict

Init == /\ holes = StartHoles
        /\ kazans = StartKazans
        /\ tuz = [p \in Side |-> NoTuz]
        /\ status = "WAITING_FOR_PLAYERS"
        /\ game_over = FALSE

StartGame_Unguarded == /\ status' = "IN_PROGRESS"
                       /\ UNCHANGED <<holes, kazans, tuz, game_over>>

StartGame == /\ status = "WAITING_FOR_PLAYERS"
             /\ status' = "IN_PROGRESS"
             /\ UNCHANGED <<holes, kazans, tuz, game_over>>

AbandonGame_NotOver == /\ status \in {"IN_PROGRESS", "WAITING_FOR_PLAYERS"}
                       /\ status' = "ABANDONED"
                       /\ UNCHANGED <<holes, kazans, tuz, game_over>>

AbandonGame == /\ status \in {"IN_PROGRESS", "WAITING_FOR_PLAYERS"}
               /\ status' = "ABANDONED"
               /\ game_over' = TRUE
               /\ UNCHANGED <<holes, kazans, tuz>>

Move(player, pos) ==
  /\ ~ game_over
  /\ status = "IN_PROGRESS"
  /\ holes[player][pos] > 0
  /\ LET after == AfterMove(holes, kazans, tuz, player, pos)
     IN  /\ holes' = after.ring.holes
         /\ kazans' = after.ring.kazans
         /\ tuz' = after.tuz
  /\ status' = CheckGameEnd(holes', kazans')
  /\ game_over' = (status' # "IN_PROGRESS")

Next == \/ StartGame
        \/ AbandonGame
        \/ \E player \in Side, pos \in Hole : Move(player, pos)

Spec == Init /\ [][Next]_vars

-----------------------------------------------------------------------------
(* The variables have the types the class declares.                        *)
TypeOK == /\ holes \in Holes
          /\ kazans \in Kazans
          /\ tuz \in Tuzes
          /\ status \in GameStatus
          /\ game_over \in BOOLEAN

(* No korgool is lost or made: sowing, captures and tuzes only move them   *)
(* (the paired updates of distribute_korgools, check_capture, check_tuz).  *)
Conservation == OnBoard(holes) + InKazans(kazans) = Total

(* The two tuzes are different holes, neither is the last hole, and the    *)
(* hole a player won as tuz stays empty for the rest of the game, because  *)
(* distribute_korgools diverts every korgool that arrives there.           *)
TuzStaysEmpty ==
  \A p \in Side : tuz[p] # NoTuz => /\ tuz[p] # Last
                                    /\ tuz[p] # tuz[Opponent(p)]
                                    /\ holes[Opponent(p)][tuz[p]] = 0

(* While a game is in progress either player has a move, because every     *)
(* move ends with check_game_end: play_automatic_game can find no moves    *)
(* ("No moves available") only when another caller moved in between.       *)
InProgressPlayable ==
  status = "IN_PROGRESS" => \A side \in Side : HasKorgools(holes[side])

(* The flag is_game_over reports and the status get_status reports agree,  *)
(* although move and abandon_game set them separately.                     *)
GameOverAgrees == game_over <=> status \in Verdict \union {"ABANDONED"}

(* A winner holds more korgools than the loser, a draw is a tie: the order *)
(* in which check_game_end tests the players is immaterial.                *)
VerdictJustified ==
  /\ status = "PLAYER1_WINS" => kazans["top"] > kazans["down"]
  /\ status = "PLAYER2_WINS" => kazans["down"] > kazans["top"]
  /\ status = "DRAW" => kazans["top"] = kazans["down"]

(* Once a tuz is won, no move adds a korgool to a hole of that index, on   *)
(* either side, and the tuz is never lost or moved.                        *)
TuzIsForever ==
  [][\A p \in Side : tuz[p] # NoTuz =>
       /\ tuz'[p] = tuz[p]
       /\ \A side \in Side : holes'[side][tuz[p]] <= holes[side][tuz[p]]]_vars

(* The game implements the abstract contest: its moves take korgools off   *)
(* the board into the kazans and the verdict follows from the kazans.      *)
C == INSTANCE Contest WITH Stock <- Total, board <- OnBoard(holes),
                           score <- kazans, phase <- status
ImplementsContest == C!Spec

-----------------------------------------------------------------------------
(* The comments on lines 282 and 286 of the code: captures and tuzes are   *)
(* checked only if a tuz did not take the last korgool.  So when it did,   *)
(* the board after the move is the board after the sowing.                 *)
NoCaptureAfterTaken ==
  [][\A player \in Side, pos \in Hole :
       LET sown == Sown(holes, kazans, tuz, player, pos)
       IN  Move(player, pos) /\ Taker(tuz, sown.side, sown.pos) # "none"
             => holes' = sown.holes]_vars
=============================================================================
