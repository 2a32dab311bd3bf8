----------------------------- MODULE GameManager -----------------------------
(***************************************************************************)
(* The registry of games, the automatic player and the statistics, in the  *)
(* edition that has all three:                                             *)
(* include/core/statistics/game_manager_ring_tuz_full_statistics_distributions.cpp *)
(* Its main is one thread: it creates a batch of games, plays one after    *)
(* the other, does so again, and removes what is finished.  Every call on  *)
(* a game is an action.  The engine is that of module Ring, with counters  *)
(* of what each move brought; the times and the number of moves are left   *)
(* out, and any available move may be chosen (the distributions only       *)
(* weigh them).                                                            *)
(***************************************************************************)
EXTENDS Ring, Sums, Sequences, FiniteSets, FiniteSetsExt

CONSTANTS Batches,   \* sizes of the batches (100 and 50 in the code)
          LastId,    \* the last id in use (100)
          Unset      \* INT_MAX, the minimum over no moves

ASSUME GameManagerAssumption == /\ Batches \in Seq(Nat) /\ LastId \in Int
                                /\ Unset \in Nat /\ Unset > Total

VARIABLES games,     \* id -> game
          next_id,
          batches,   \* batches still to come
          main       \* where main is: pc, the game ids of the batch to play, whose turn
vars == <<games, next_id, batches, main>>

Verdict == {"PLAYER1_WINS", "PLAYER2_WINS", "DRAW"}

NoGains == [total |-> 0, max |-> 0, min |-> Unset, tuz |-> 0]
NewGame == [holes |-> StartHoles, kazans |-> StartKazans, tuz |-> [p \in Side |-> NoTuz],
            status |-> "WAITING_FOR_PLAYERS", game_over |-> FALSE,
            gains |-> [p \in Side |-> NoGains]]

(* set_last_game_id_from_db is the first call.                             *)
Init == /\ games = << >> /\ next_id = LastId + 1
        /\ batches = Batches
        /\ main = [pc |-> "next batch", left |-> 0, ids |-> <<>>, turn |-> "top"]

NextBatch == /\ main.pc = "next batch" /\ batches # <<>>
             /\ main' = [main EXCEPT !.pc = "create", !.left = Head(batches)]
             /\ batches' = Tail(batches)
             /\ UNCHANGED <<games, next_id>>

CreateGame == /\ main.pc = "create" /\ main.left > 0
              /\ games' = [id \in DOMAIN games \union {next_id} |->
                             IF id = next_id THEN NewGame ELSE games[id]]
              /\ next_id' = next_id + 1
              /\ main' = [main EXCEPT !.left = @ - 1, !.ids = Append(@, next_id)]
              /\ UNCHANGED batches

(* play_automatic_game up to its loop; there is no such game: it returns.  *)
PlayNext ==
  /\ main.pc = "create" /\ main.left = 0
  /\ UNCHANGED <<next_id, batches>>
  /\ IF main.ids = <<>>
       THEN main' = [main EXCEPT !.pc = "next batch"] /\ UNCHANGED games
       ELSE LET id == Head(main.ids)
            IN  /\ games' = IF games[id].status = "WAITING_FOR_PLAYERS"
                              THEN [games EXCEPT ![id].status = "IN_PROGRESS"] ELSE games
                /\ main' = [main EXCEPT !.pc = "play", !.turn = "top"]

-----------------------------------------------------------------------------
(* The korgools that either tuz took during the sowing, all of them        *)
(* credited to the player who moves.                                       *)
TuzGain_Own(game, sown, player) == sown.kazans[player] - game.kazans[player]

TuzGain(game, sown, player) == InKazans(sown.kazans) - InKazans(game.kazans)

(* The counters after a move that brought the player so much.              *)
Counted(gains, gain, tuz_gain) ==
  [total |-> gains.total + gain,
   max |-> IF gain > gains.max THEN gain ELSE gains.max,
   min |-> IF gain < gains.min THEN gain ELSE gains.min,
   tuz |-> gains.tuz + tuz_gain]

(* move, for a hole with korgools in a game in progress.                   *)
Moved(game, player, pos) ==
  LET sown == Sown(game.holes, game.kazans, game.tuz, player, pos)
      after == CheckTuz(CheckCapture(sown, player), game.tuz, player)
      status == CheckGameEnd(after.ring.holes, after.ring.kazans)
  IN  [holes |-> after.ring.holes, kazans |-> after.ring.kazans, tuz |-> after.tuz,
       status |-> status, game_over |-> status # "IN_PROGRESS",
       gains |-> [game.gains EXCEPT ![player] =
                    Counted(@, after.ring.kazans[player] - game.kazans[player],
                            TuzGain(game, sown, player))]]

(* One turn of the loop: an available move of the player whose turn it is, *)
(* and the other player's turn.                                            *)
PlayMove ==
  LET id == Head(main.ids)
      game == games[id]
  IN  /\ main.pc = "play" /\ ~ game.game_over /\ game.status = "IN_PROGRESS"
      /\ \E pos \in Hole : /\ game.holes[main.turn][pos] > 0
                           /\ games' = [games EXCEPT ![id] = Moved(game, main.turn, pos)]
      /\ main' = [main EXCEPT !.turn = Opponent(@)]
      /\ UNCHANGED <<next_id, batches>>

(* The loop ends: the game is over, or there is no move, or it fails.      *)
EndPlay ==
  LET game == games[Head(main.ids)]
  IN  /\ main.pc = "play"
      /\ game.game_over \/ ~ HasKorgools(game.holes[main.turn]) \/ game.status # "IN_PROGRESS"
      /\ main' = [main EXCEPT !.pc = "create", !.ids = Tail(@)]
      /\ UNCHANGED <<games, next_id, batches>>

RemoveFinishedGames ==
  /\ main.pc = "next batch" /\ batches = <<>>
  /\ games' = [id \in {i \in DOMAIN games :
                         games[i].status \in {"WAITING_FOR_PLAYERS", "IN_PROGRESS"}}
                 |-> games[id]]
  /\ main' = [main EXCEPT !.pc = "done"]
  /\ UNCHANGED <<next_id, batches>>

Next == NextBatch \/ CreateGame \/ PlayNext \/ PlayMove \/ EndPlay \/ RemoveFinishedGames

Spec == Init /\ [][Next]_vars

-----------------------------------------------------------------------------
(* get_statistics.  Without games it returns at once: its counts and sums  *)
(* are 0 as over no games, but the minima are not set to 0.                *)
Having(verdict) == Cardinality({id \in DOMAIN games : games[id].status = verdict})

statistics ==
  [total_games |-> Cardinality(DOMAIN games),
   player1_wins |-> Having("PLAYER1_WINS"),
   player2_wins |-> Having("PLAYER2_WINS"),
   draws |-> Having("DRAW"),
   games_with_tuz |-> Cardinality({id \in DOMAIN games :
                                     \E p \in Side : games[id].tuz[p] # NoTuz}),
   total_kazan_gain |-> [p \in Side |-> SumOver([id \in DOMAIN games |-> games[id].gains[p].total])],
   total_tuz_kazan_gain |-> [p \in Side |-> SumOver([id \in DOMAIN games |-> games[id].gains[p].tuz])],
   max_single_move_gain |-> [p \in Side |-> Max({games[id].gains[p].max : id \in DOMAIN games} \union {0})],
   min_single_move_gain |-> [p \in Side |->
      LET least == Min({games[id].gains[p].min : id \in DOMAIN games} \union {Unset})
      IN  IF DOMAIN games # {} /\ least = Unset THEN 0 ELSE least]]

(* The automatic player never leaves a game undecided: the games of        *)
(* earlier batches, and those of this batch that were played, have a       *)
(* verdict, so that remove_finished_games leaves none.  The loop has three *)
(* other ways to end ("No moves available", "Invalid move selection",      *)
(* "Move failed"), and the turns alternate without a look at the board.    *)
EveryGameDecided ==
  /\ \A id \in DOMAIN games :
       (\A i \in DOMAIN main.ids : main.ids[i] # id) => games[id].status \in Verdict
  /\ main.pc = "done" => games = << >>

(* Whenever get_statistics is called, what a player's moves brought it is  *)
(* in its kazan, and what else is there its tuz took on the opponent's     *)
(* moves, which the tuz gains count for the opponent; the tuz gains of a   *)
(* player are in its own moves' gains or in that rest of the opponent's    *)
(* kazan.  Only where no tuz was won is it as the comments on the counters *)
(* (62-63, 68-69) have it: the total is the kazan, and what came through   *)
(* the own tuz is nothing.  The extreme moves fit the totals as soon as    *)
(* there is a game, and each game with a tuz has at least the three        *)
(* korgools that won it.                                                   *)
StatisticsAddUp ==
  LET s == statistics
      total == s.total_kazan_gain
      tuz_gain == s.total_tuz_kazan_gain
      kazan == [p \in Side |-> SumOver([id \in DOMAIN games |-> games[id].kazans[p]])]
  IN  /\ \A p \in Side :
           /\ total[p] <= kazan[p]
           /\ kazan[p] <= total[p] + tuz_gain[Opponent(p)]
           /\ tuz_gain[p] + total[Opponent(p)] <= total[p] + kazan[Opponent(p)]
           /\ s.games_with_tuz = 0 => total[p] = kazan[p] /\ tuz_gain[p] = 0
           /\ DOMAIN games # {} => s.min_single_move_gain[p] <= s.max_single_move_gain[p]
           /\ s.max_single_move_gain[p] <= total[p]
      /\ 3 * s.games_with_tuz <= InKazans(total)
      /\ s.player1_wins + s.player2_wins + s.draws <= s.total_games
=============================================================================
