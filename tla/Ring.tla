-------------------------------- MODULE Ring --------------------------------
(***************************************************************************)
(* The board of a toguz korgool game and what one move does to it: class   *)
(* Ring and the private helpers of ToguzKorgoolGame in                     *)
(* include/core/game_manager_tuz.cpp.  The 9 holes of 9 korgools of the    *)
(* code are the constants NHoles and Seeds; its literals 8, 81 and         *)
(* WIN_SCORE follow from them.                                             *)
(*                                                                         *)
(* The module holds operators only: ToguzKorgoolGame owns the variables.   *)
(* An operator whose name ends in a suffix after "_" is a faulty variant   *)
(* of the operator below it.  No specification uses one: each stands for a *)
(* plausible slip in the code, and substituting it must break a property.  *)
(***************************************************************************)
EXTENDS Integers

CONSTANTS NHoles,   \* holes on each side (9 in the code)
          Seeds     \* korgools in each hole at the start (9 in the code)

ASSUME RingAssumption == /\ NHoles \in Nat \ {0}
                         /\ Seeds \in Nat \ {0}

Side == {"top", "down"}
Last == NHoles - 1
Hole == 0..Last
NoTuz == -1
Half == NHoles * Seeds          \* 81
WIN_SCORE == Half + 1           \* 82
Total == 2 * Half

Opponent(side) == IF side = "top" THEN "down" ELSE "top"

Row == [Hole -> Nat]
Holes == [Side -> Row]
Kazans == [Side -> Nat]
Tuzes == [Side -> Hole \union {NoTuz}]

StartHoles == [side \in Side |-> [h \in Hole |-> Seeds]]
StartKazans == [side \in Side |-> 0]

(***************************************************************************)
(* The korgools of a row, as prefix sums, so that facts about the sum can  *)
(* be proved by induction on the hole.                                     *)
(***************************************************************************)
PrefixSums(row) ==
  LET upTo[h \in Hole] == IF h = 0 THEN row[0] ELSE upTo[h - 1] + row[h]
  IN  upTo

RowSum(row) == PrefixSums(row)[Last]
OnBoard(holes) == RowSum(holes["top"]) + RowSum(holes["down"])
InKazans(kazans) == kazans["top"] + kazans["down"]

HasKorgools(row) == \E h \in Hole : row[h] > 0

(* One hole holds n korgools now; n more korgools lie in a player's kazan. *)
SetHole(holes, side, pos, n) == [holes EXCEPT ![side][pos] = n]
Credit(kazans, player, n) == [kazans EXCEPT ![player] = @ + n]

-----------------------------------------------------------------------------
(* A sowing in flight: the board, and the place the last korgool went to.  *)
Sowing == [holes : Holes, kazans : Kazans, side : Side, pos : Hole]

(***************************************************************************)
(* The route: the top side upwards, then the down side from its last hole  *)
(* downwards, then the top side again.                                     *)
(***************************************************************************)
NextPlace_SameIndexAcross(side, pos) ==
  IF side = "top"
    THEN IF pos < Last THEN [side |-> "top",  pos |-> pos + 1]
                       ELSE [side |-> "down", pos |-> 0]
    ELSE IF pos > 0    THEN [side |-> "down", pos |-> pos - 1]
                       ELSE [side |-> "top",  pos |-> 0]

NextPlace(side, pos) ==
  IF side = "top"
    THEN IF pos < Last THEN [side |-> "top",  pos |-> pos + 1]
                       ELSE [side |-> "down", pos |-> Last]
    ELSE IF pos > 0    THEN [side |-> "down", pos |-> pos - 1]
                       ELSE [side |-> "top",  pos |-> 0]

(***************************************************************************)
(* Whose kazan a korgool arriving at a hole goes to, "none" when it stays. *)
(* A tuz is only an index and takes korgools on both sides; the opponent   *)
(* of the side's owner is asked first.                                     *)
(***************************************************************************)
Taker_OwnSideForgotten(tuz, side, pos) ==
  IF tuz[side] = pos THEN side ELSE "none"

Taker(tuz, side, pos) ==
  CASE tuz[Opponent(side)] = pos -> Opponent(side)
    [] tuz[Opponent(side)] # pos /\ tuz[side] = pos -> side
    [] OTHER -> "none"

(* One turn of the loop of distribute_korgools.                            *)
Drop_TakenAndSown(tuz, s) ==
  LET next == NextPlace(s.side, s.pos)
      taker == Taker(tuz, next.side, next.pos)
  IN  [holes |-> SetHole(s.holes, next.side, next.pos, s.holes[next.side][next.pos] + 1),
       kazans |-> IF taker \in Side THEN Credit(s.kazans, taker, 1) ELSE s.kazans,
       side |-> next.side, pos |-> next.pos]

Drop(tuz, s) ==
  LET next == NextPlace(s.side, s.pos)
      taker == Taker(tuz, next.side, next.pos)
  IN  IF taker \in Side
        THEN [s EXCEPT !.kazans = Credit(@, taker, 1),
                       !.side = next.side, !.pos = next.pos]
        ELSE [s EXCEPT !.holes = SetHole(@, next.side, next.pos,
                                         @[next.side][next.pos] + 1),
                       !.side = next.side, !.pos = next.pos]

(* distribute_korgools: n korgools from s, one place after the other.      *)
Sow(tuz, s, n) ==
  LET after[i \in 0..n] == IF i = 0 THEN s ELSE Drop(tuz, after[i - 1])
  IN  after[n]

(* The chosen hole emptied, nothing sown yet.                              *)
Lift(holes, kazans, player, pos) ==
  [holes |-> SetHole(holes, player, pos, 0),
   kazans |-> kazans, side |-> player, pos |-> pos]

-----------------------------------------------------------------------------
InLastHole(s) == s.holes[s.side][s.pos]

Collect_HoleNotEmptied(s, player) ==
  [s EXCEPT !.kazans = Credit(@, player, InLastHole(s))]

(* The player takes the korgools of the last hole into its kazan.          *)
Collect(s, player) ==
  [s EXCEPT !.kazans = Credit(@, player, InLastHole(s)),
            !.holes = SetHole(@, s.side, s.pos, 0)]

CheckCapture(s, player) ==
  IF s.side # player /\ InLastHole(s) % 2 = 0 /\ InLastHole(s) > 0
    THEN Collect(s, player)
    ELSE s

WinsTuz_Again(s, tuz, player) ==
  /\ s.side # player
  /\ InLastHole(s) = 3
  /\ s.pos # Last
  /\ tuz[Opponent(player)] # s.pos

WinsTuz(s, tuz, player) ==
  /\ s.side # player
  /\ InLastHole(s) = 3
  /\ s.pos # Last
  /\ tuz[player] = NoTuz
  /\ tuz[Opponent(player)] # s.pos

CheckTuz_StoresKorgools(s, tuz, player) ==
  IF WinsTuz(s, tuz, player)
    THEN [ring |-> Collect(s, player), tuz |-> [tuz EXCEPT ![player] = InLastHole(s)]]
    ELSE [ring |-> s, tuz |-> tuz]

CheckTuz(s, tuz, player) ==
  IF WinsTuz(s, tuz, player)
    THEN [ring |-> Collect(s, player), tuz |-> [tuz EXCEPT ![player] = s.pos]]
    ELSE [ring |-> s, tuz |-> tuz]

(***************************************************************************)
(* The board and the tuzes after the player moves from pos.                *)
(***************************************************************************)
Sown(holes, kazans, tuz, player, pos) ==
  Sow(tuz, Lift(holes, kazans, player, pos), holes[player][pos])

AfterMove(holes, kazans, tuz, player, pos) ==
  CheckTuz(CheckCapture(Sown(holes, kazans, tuz, player, pos), player),
           tuz, player)

(***************************************************************************)
(* check_game_end: the status the game ends with, or "IN_PROGRESS".        *)
(***************************************************************************)
Leader_TieToTop(kazans) ==
  IF kazans["top"] >= kazans["down"] THEN "PLAYER1_WINS" ELSE "PLAYER2_WINS"

Leader(kazans) ==
  CASE kazans["top"] > kazans["down"] -> "PLAYER1_WINS"
    [] kazans["down"] > kazans["top"] -> "PLAYER2_WINS"
    [] OTHER -> "DRAW"

CheckGameEnd_TopSideOnly(holes, kazans) ==
  IF kazans["top"] >= WIN_SCORE THEN "PLAYER1_WINS"
  ELSE IF kazans["down"] >= WIN_SCORE THEN "PLAYER2_WINS"
  ELSE IF ~ HasKorgools(holes["top"]) THEN Leader(kazans)
  ELSE "IN_PROGRESS"

CheckGameEnd(holes, kazans) ==
  IF kazans["top"] >= WIN_SCORE THEN "PLAYER1_WINS"
  ELSE IF kazans["down"] >= WIN_SCORE THEN "PLAYER2_WINS"
  ELSE IF \E side \in Side : ~ HasKorgools(holes[side]) THEN Leader(kazans)
  ELSE IF kazans["top"] = Half /\ kazans["down"] = Half THEN "DRAW"
  ELSE "IN_PROGRESS"
=============================================================================
