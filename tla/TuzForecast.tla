----------------------------- MODULE TuzForecast -----------------------------
(***************************************************************************)
(* The forecast of a tuz by modular arithmetic, which MoveSelector uses to *)
(* rank moves without sowing: calculateTuzProb in                          *)
(* include/core/statistics/game_manager_ringfull_statistics_hash_probability.cpp. *)
(* The probability is 0 or 1, so it is a state predicate here.             *)
(***************************************************************************)
EXTENDS Ring

(* The unrolled board: the top holes, then the down holes in the order in  *)
(* which they are sown.                                                    *)
LinearStart(player, pos) == IF player = "top" THEN pos ELSE 2 * NHoles - 1 - pos

FinalLinear_FromStart(player, pos, korgools) ==
  (LinearStart(player, pos) + korgools - 1) % (2 * NHoles)

FinalLinear(player, pos, korgools) ==
  (LinearStart(player, pos) + korgools) % (2 * NHoles)

LandsOnOpponent(player, linear) == (player = "top") <=> (linear >= NHoles)

(* The conversion back.  Of the top holes that the down player reaches it  *)
(* takes the index from the other end.                                     *)
FinalHole(player, linear) ==
  IF player = "top"
    THEN IF linear < NHoles THEN linear ELSE 2 * NHoles - 1 - linear
    ELSE IF linear < NHoles THEN Last - linear ELSE linear - NHoles

ForecastsTuz(holes, tuz, player, pos) ==
  LET korgools == holes[player][pos]
      linear == FinalLinear(player, pos, korgools)
      hole == FinalHole(player, linear)
  IN  /\ pos # Last
      /\ tuz[player] = NoTuz
      /\ korgools > 0
      /\ LandsOnOpponent(player, linear) /\ hole # Last
      /\ holes[Opponent(player)][hole] + 1 = 3
=============================================================================
