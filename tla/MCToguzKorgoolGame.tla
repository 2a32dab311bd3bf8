------------------------ MODULE MCToguzKorgoolGame ------------------------
(***************************************************************************)
(* One game on a small board, with a reference for the sowing and for the  *)
(* forecast of a tuz.  Game.cfg gives three holes of three korgools: the   *)
(* smallest board on which both players can hold a tuz (two holes are      *)
(* eligible), sowings go around more than once and every verdict is        *)
(* reached.                                                                *)
(***************************************************************************)
EXTENDS ToguzKorgoolGame, TuzForecast, Sums

(* A reference for distribute_korgools: the places of the route numbered   *)
(* 0..2 * NHoles - 1, the korgools that arrive at each by division.        *)
Index(side, pos) == IF side = "top" THEN pos ELSE 2 * NHoles - 1 - pos

Arrivals(from, to, n) ==
  LET d == ((to - from - 1) % (2 * NHoles)) + 1    \* steps to the first arrival
  IN  IF n < d THEN 0 ELSE ((n - d) \div (2 * NHoles)) + 1

(* The loop of distribute_korgools does what the division says for every   *)
(* move a player could make: how many korgools each hole gets or its tuz   *)
(* takes, however often the sowing goes around, and where it ends.         *)
SowingByDivision ==
  \A player \in Side, pos \in Hole :
    LET n == holes[player][pos]
        from == Index(player, pos)
        s == Sown(holes, kazans, tuz, player, pos)
        arriving(z, h) == Arrivals(from, Index(z, h), n)
        taken(p) == {zh \in Side \X Hole : Taker(tuz, zh[1], zh[2]) = p}
    IN  n > 0 =>
          /\ Index(s.side, s.pos) = (from + n) % (2 * NHoles)
          /\ \A z \in Side, h \in Hole :
               s.holes[z][h] = (IF z = player /\ h = pos THEN 0 ELSE holes[z][h])
                                 + (IF Taker(tuz, z, h) = "none" THEN arriving(z, h) ELSE 0)
          /\ \A p \in Side :
               s.kazans[p] = kazans[p]
                 + SumOver([zh \in taken(p) |-> arriving(zh[1], zh[2])])

(* The forecast of MoveSelector is exact for the top player on a board     *)
(* without tuzes, for a move that does not come around to its start: it    *)
(* says "tuz" if and only if the move would win one.  The last hole is     *)
(* excepted (the forecast never looks at it); so is the down player, for   *)
(* whom the hole is taken from the wrong end.                              *)
TopForecastIsExact ==
  \A pos \in Hole \ {Last} :
    LET s == CheckCapture(Sown(holes, kazans, tuz, "top", pos), "top")
    IN  /\ holes["top"][pos] \in 1..(2 * NHoles - 1)
        /\ \A p \in Side : tuz[p] = NoTuz
        => (ForecastsTuz(holes, tuz, "top", pos) <=> WinsTuz(s, tuz, "top"))
=============================================================================
