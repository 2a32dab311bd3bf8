------------------------- MODULE GameManager_proofs -------------------------
(***************************************************************************)
(* The invariants of GameManager, for any board, batches and first id.     *)
(* What holds of one game is carried to the statistics by facts about      *)
(* sums over all of them.                                                  *)
(***************************************************************************)
EXTENDS GameManager, RingFacts, FiniteSetTheorems, SequenceTheorems

-----------------------------------------------------------------------------
(* One game.                                                               *)
Status == {"WAITING_FOR_PLAYERS", "IN_PROGRESS"} \union Verdict
Gains == [total : Nat, max : Nat, min : Nat, tuz : Nat]
GameState == [holes : Holes, kazans : Kazans, tuz : Tuzes, status : Status,
              game_over : BOOLEAN, gains : [Side -> Gains]]

Gained(g) == g.gains["top"].total + g.gains["down"].total

(* Its counters and its kazans agree.                                      *)
GainsAgree(g) ==
  /\ \A p \in Side :
       /\ g.gains[p].total <= g.kazans[p]
       /\ g.kazans[p] <= g.gains[p].total + g.gains[Opponent(p)].tuz
       /\ g.gains[p].tuz + g.gains[Opponent(p)].total
            <= g.gains[p].total + g.kazans[Opponent(p)]
       /\ g.gains[p].max <= g.gains[p].total
       /\ g.gains[p].min <= g.gains[p].max \/ g.gains[p].min = Unset
  /\ (\E p \in Side : g.tuz[p] # NoTuz) => 3 <= Gained(g)
  /\ (\A p \in Side : g.tuz[p] = NoTuz) =>
       \A p \in Side : g.gains[p].total = g.kazans[p] /\ g.gains[p].tuz = 0

(* Until there is a verdict both sides have korgools.                      *)
GameOK(g) ==
  /\ g \in GameState
  /\ g.status \notin Verdict => \A side \in Side : HasKorgools(g.holes[side])
  /\ g.game_over <=> g.status \in Verdict
  /\ GainsAgree(g)

LEMMA NewGameFact == GameOK(NewGame) /\ NewGame.status = "WAITING_FOR_PLAYERS"
<1>1. /\ StartHoles \in Holes /\ StartKazans \in Kazans
      /\ [p \in Side |-> NoTuz] \in Tuzes /\ NoGains \in Gains
  BY RingAssumption, GameManagerAssumption
     DEF StartHoles, StartKazans, Holes, Row, Kazans, Tuzes, NoGains, Gains
<1>2. \A side \in Side : HasKorgools(StartHoles[side])
  BY LastFact, RingAssumption DEF StartHoles, HasKorgools
<1>3. /\ NewGame \in GameState /\ NewGame.status = "WAITING_FOR_PLAYERS"
      /\ NewGame.holes = StartHoles /\ NewGame.kazans = StartKazans
      /\ NewGame.game_over = FALSE /\ NewGame.gains = [p \in Side |-> NoGains]
      /\ NewGame.tuz = [p \in Side |-> NoTuz]
  BY <1>1 DEF NewGame, GameState, Status
<1>4. GainsAgree(NewGame)
  <2>1. \A p \in Side : /\ NewGame.gains[p] = NoGains /\ NewGame.kazans[p] = 0
                        /\ NewGame.tuz[p] = NoTuz
    BY <1>3 DEF StartKazans
  <2>2. NoGains.total = 0 /\ NoGains.max = 0 /\ NoGains.min = Unset /\ NoGains.tuz = 0
    BY DEF NoGains
  <2>3. \A p \in Side : Opponent(p) \in Side
    BY DEF Side, Opponent
  <2>4. (\E p \in Side : NewGame.tuz[p] # NoTuz) => 3 <= Gained(NewGame)
    BY <2>1
  <2> QED
    BY <2>1, <2>2, <2>3, <2>4 DEF GainsAgree
<1> QED
  BY <1>2, <1>3, <1>4 DEF GameOK, Verdict

(* Only the player who moves collects what lies on the board, and at least *)
(* three korgools with a tuz.                                              *)
LEMMA OnlyMoverCollects ==
  ASSUME NEW s \in Sowing, NEW tuz \in Tuzes, NEW player \in Side
  PROVE  /\ CheckCapture(s, player).kazans[Opponent(player)] = s.kazans[Opponent(player)]
         /\ CheckTuz(s, tuz, player).ring.kazans[Opponent(player)]
              = s.kazans[Opponent(player)]
         /\ CheckTuz(s, tuz, player).tuz # tuz =>
              CheckTuz(s, tuz, player).ring.kazans[player] = s.kazans[player] + 3
<1> DEFINE c == Collect(s, player)
<1>1. /\ s.kazans \in Kazans /\ s.holes \in Holes /\ s.side \in Side /\ s.pos \in Hole
      /\ \A p \in Side : s.kazans[p] \in Nat
  BY SowingTypes
<1>2. InLastHole(s) \in Nat
  BY <1>1 DEF InLastHole, Holes, Row
<1>3. c.kazans = Credit(s.kazans, player, InLastHole(s))
  BY DEF Collect, Sowing
<1>4. Opponent(player) \in Side /\ Opponent(player) # player
  BY DEF Opponent, Side
<1>5. /\ c.kazans[Opponent(player)] = s.kazans[Opponent(player)] + 0
      /\ c.kazans[player] = s.kazans[player] + InLastHole(s)
  <2> HIDE DEF c
  <2> DEFINE credited == Credit(s.kazans, player, InLastHole(s))
  <2>1. \A q \in Side :
          credited[q] = s.kazans[q] + (IF q = player THEN InLastHole(s) ELSE 0)
    BY <1>1, <1>2, InKazansExcept
  <2>2. c.kazans = credited
    BY <1>3
  <2> HIDE DEF credited
  <2> QED
    BY <1>4, <2>1, <2>2
<1>6. c.kazans[Opponent(player)] = s.kazans[Opponent(player)]
  BY <1>1, <1>4, <1>5
<1> HIDE DEF c
<1>7. CheckCapture(s, player) \in {c, s}
  BY DEF CheckCapture, c
<1>8. CASE WinsTuz(s, tuz, player)
  <2>1. CheckTuz(s, tuz, player).ring = c /\ InLastHole(s) = 3
    BY <1>8 DEF CheckTuz, WinsTuz, c
  <2> QED
    BY <1>5, <1>6, <1>7, <2>1
<1>9. CASE ~ WinsTuz(s, tuz, player)
  <2>1. CheckTuz(s, tuz, player).ring = s /\ CheckTuz(s, tuz, player).tuz = tuz
    BY <1>9 DEF CheckTuz
  <2> QED
    BY <1>6, <1>7, <2>1
<1> QED
  BY <1>8, <1>9

(* After a move both sides have korgools or there is a verdict.            *)
LEMMA CheckGameEndFact ==
  ASSUME NEW holes, NEW kazans
  PROVE  /\ CheckGameEnd(holes, kazans) \in Verdict \union {"IN_PROGRESS"}
         /\ CheckGameEnd(holes, kazans) = "IN_PROGRESS" =>
              \A side \in Side : HasKorgools(holes[side])
<1>1. Leader(kazans) \in Verdict
  BY DEF Leader, Verdict
<1>2. "IN_PROGRESS" \notin Verdict
  BY DEF Verdict
<1> QED
  BY <1>1, <1>2 DEF CheckGameEnd, Verdict

(* What a move brings each player, from where the korgools came.           *)
LEMMA GainFact ==
  ASSUME NEW g \in GameState, NEW player \in Side, NEW pos \in Hole
  PROVE  LET sown == Sown(g.holes, g.kazans, g.tuz, player, pos)
             after == AfterMove(g.holes, g.kazans, g.tuz, player, pos)
             k == after.ring.kazans
         IN  /\ sown.kazans \in Kazans /\ k \in Kazans
             /\ after.ring.holes \in Holes /\ after.tuz \in Tuzes
             /\ \A p \in Side : sown.kazans[p] >= g.kazans[p]
             /\ k[Opponent(player)] = sown.kazans[Opponent(player)]
             /\ k[player] >= sown.kazans[player]
             /\ after.tuz # g.tuz => k[player] >= g.kazans[player] + 3
             /\ \A p \in Side : g.tuz[p] # NoTuz => after.tuz[p] = g.tuz[p]
             /\ (\A p \in Side : g.tuz[p] = NoTuz) => sown.kazans = g.kazans
<1> DEFINE lifted == Lift(g.holes, g.kazans, player, pos)
           sown == Sown(g.holes, g.kazans, g.tuz, player, pos)
           c == CheckCapture(sown, player)
           after == AfterMove(g.holes, g.kazans, g.tuz, player, pos)
<1>1. g.holes \in Holes /\ g.kazans \in Kazans /\ g.tuz \in Tuzes
  BY DEF GameState
<1>2. MoveEffect(g.holes, g.kazans, g.tuz, after)
  BY <1>1, MoveEffectFact
<1>3. lifted \in Sowing /\ lifted.kazans = g.kazans /\ g.holes[player][pos] \in Nat
  BY <1>1, LiftFact
<1>4. /\ Sows(g.tuz, lifted, g.holes[player][pos], sown)
      /\ (\A p \in Side : g.tuz[p] = NoTuz) => sown.kazans = g.kazans
  <2> HIDE DEF lifted
  <2>1. sown = Sow(g.tuz, lifted, g.holes[player][pos])
    BY DEF Sown, lifted
  <2> HIDE DEF sown
  <2> QED
    BY <1>1, <1>3, <2>1, SowSows, SowWithoutTuz
<1>5. after = CheckTuz(c, g.tuz, player)
  BY DEF AfterMove
<1> HIDE DEF lifted, sown, after
<1>6. sown \in Sowing /\ \A p \in Side : sown.kazans[p] >= g.kazans[p]
  BY <1>3, <1>4 DEF Sows
<1>7. c \in Sowing /\ \A p \in Side : c.kazans[p] >= sown.kazans[p]
  BY <1>6, CheckCaptureFact
<1>8. c.kazans[Opponent(player)] = sown.kazans[Opponent(player)]
  BY <1>1, <1>6, OnlyMoverCollects
<1> HIDE DEF c
<1>9. \A p \in Side : after.ring.kazans[p] >= c.kazans[p]
  BY <1>1, <1>5, <1>7, CheckTuzFact
<1>10. /\ after.ring.kazans[Opponent(player)] = c.kazans[Opponent(player)]
       /\ after.tuz # g.tuz => after.ring.kazans[player] = c.kazans[player] + 3
  BY <1>1, <1>5, <1>7, OnlyMoverCollects
<1>11. /\ sown.kazans \in Kazans /\ c.kazans \in Kazans /\ after.ring.kazans \in Kazans
       /\ after.ring.holes \in Holes /\ after.tuz \in Tuzes
  BY <1>2, <1>6, <1>7, SowingTypes DEF MoveEffect
<1>12. /\ sown.kazans[player] \in Nat /\ c.kazans[player] \in Nat
       /\ after.ring.kazans[player] \in Nat /\ g.kazans[player] \in Nat
  BY <1>1, <1>11 DEF Kazans
<1>13. after.ring.kazans[player] >= sown.kazans[player]
  BY <1>7, <1>9, <1>12
<1>14. after.tuz # g.tuz => after.ring.kazans[player] >= g.kazans[player] + 3
  BY <1>6, <1>7, <1>10, <1>12
<1>15. \A p \in Side : g.tuz[p] # NoTuz => after.tuz[p] = g.tuz[p]
  BY <1>2 DEF MoveEffect
<1> QED
  BY <1>4, <1>6, <1>8, <1>10, <1>11, <1>13, <1>14, <1>15 DEF sown, after

LEMMA CountedFact ==
  ASSUME NEW e \in Gains, NEW gain \in Nat, NEW tuz_gain \in Nat
  PROVE  LET d == Counted(e, gain, tuz_gain)
         IN  /\ d \in Gains
             /\ d.total = e.total + gain /\ d.tuz = e.tuz + tuz_gain
             /\ e.max <= e.total => d.max <= d.total
             /\ e.min <= e.max \/ e.min = Unset => d.min <= d.max \/ d.min = Unset
<1> DEFINE d == Counted(e, gain, tuz_gain)
<1>1. /\ d.total = e.total + gain /\ d.tuz = e.tuz + tuz_gain
      /\ d.max = IF gain > e.max THEN gain ELSE e.max
      /\ d.min = IF gain < e.min THEN gain ELSE e.min
      /\ e.total \in Nat /\ e.tuz \in Nat /\ e.max \in Nat /\ e.min \in Nat
  BY DEF Counted, Gains
<1>2. d \in Gains
  BY DEF Counted, Gains
<1> HIDE DEF d
<1>3. e.max <= e.total => d.max <= d.total
  BY <1>1
<1>4. e.min <= e.max \/ e.min = Unset => d.min <= d.max \/ d.min = Unset
  BY <1>1
<1> QED
  BY <1>1, <1>2, <1>3, <1>4 DEF d

(* A move keeps a game in order, and there is a verdict or it goes on.     *)
LEMMA MovedFact ==
  ASSUME NEW g, GameOK(g), NEW player \in Side, NEW pos \in Hole
  PROVE  GameOK(Moved(g, player, pos))
<1> DEFINE sown == Sown(g.holes, g.kazans, g.tuz, player, pos)
           after == AfterMove(g.holes, g.kazans, g.tuz, player, pos)
           k == after.ring.kazans
           status == CheckGameEnd(after.ring.holes, k)
           gain == k[player] - g.kazans[player]
           tuz_gain == InKazans(sown.kazans) - InKazans(g.kazans)
           counted == Counted(g.gains[player], gain, tuz_gain)
           m == Moved(g, player, pos)
           other == Opponent(player)
<1>1. m = [holes |-> after.ring.holes, kazans |-> k, tuz |-> after.tuz,
           status |-> status, game_over |-> status # "IN_PROGRESS",
           gains |-> [g.gains EXCEPT ![player] = counted]]
  BY DEF Moved, AfterMove, TuzGain
<1>2. /\ g \in GameState /\ GainsAgree(g) /\ g.kazans \in Kazans
      /\ g.gains \in [Side -> Gains] /\ g.tuz \in Tuzes
  BY DEF GameOK, GameState
<1>3. /\ sown.kazans \in Kazans /\ k \in Kazans
      /\ after.ring.holes \in Holes /\ after.tuz \in Tuzes
      /\ \A p \in Side : sown.kazans[p] >= g.kazans[p]
      /\ k[other] = sown.kazans[other]
      /\ k[player] >= sown.kazans[player]
      /\ after.tuz # g.tuz => k[player] >= g.kazans[player] + 3
      /\ \A p \in Side : g.tuz[p] # NoTuz => after.tuz[p] = g.tuz[p]
      /\ (\A p \in Side : g.tuz[p] = NoTuz) => sown.kazans = g.kazans
  BY <1>2, GainFact
<1>4. /\ status \in Verdict \union {"IN_PROGRESS"}
      /\ status = "IN_PROGRESS" => \A side \in Side : HasKorgools(after.ring.holes[side])
  BY CheckGameEndFact
<1> HIDE DEF sown, after, status, m
<1>5. /\ Side = {player, other} /\ player # other /\ other \in Side
      /\ \/ player = "top" /\ other = "down"
         \/ player = "down" /\ other = "top"
  BY DEF Side, Opponent
<1> HIDE DEF other
<1>6. /\ k[player] \in Nat /\ k[other] \in Nat
      /\ sown.kazans[player] \in Nat /\ sown.kazans[other] \in Nat
      /\ g.kazans[player] \in Nat /\ g.kazans[other] \in Nat
      /\ sown.kazans[player] >= g.kazans[player]
      /\ sown.kazans[other] >= g.kazans[other]
  BY <1>2, <1>3, <1>5 DEF Kazans
<1>7. /\ InKazans(k) = k[player] + k[other]
      /\ InKazans(sown.kazans) = sown.kazans[player] + sown.kazans[other]
      /\ InKazans(g.kazans) = g.kazans[player] + g.kazans[other]
  BY <1>5, <1>6 DEF InKazans
<1>8. gain \in Nat /\ tuz_gain \in Nat /\ g.gains[player] \in Gains /\ g.gains[other] \in Gains
  BY <1>2, <1>3, <1>5, <1>6, <1>7
<1>9. /\ tuz_gain <= gain + (k[other] - g.kazans[other])
      /\ k[other] - g.kazans[other] <= tuz_gain
      /\ after.tuz # g.tuz => gain >= 3
      /\ k[player] = g.kazans[player] + gain
      /\ k[other] >= g.kazans[other]
      /\ sown.kazans = g.kazans => tuz_gain = 0 /\ k[other] = g.kazans[other]
  BY <1>3, <1>6, <1>7
<1> HIDE DEF gain, tuz_gain
<1>10. /\ counted \in Gains
       /\ counted.total = g.gains[player].total + gain
       /\ counted.tuz = g.gains[player].tuz + tuz_gain
       /\ counted.max <= counted.total
       /\ counted.min <= counted.max \/ counted.min = Unset
  BY <1>2, <1>8, CountedFact DEF GainsAgree
<1> HIDE DEF counted
<1>11. /\ m.holes = after.ring.holes /\ m.kazans = k /\ m.tuz = after.tuz
       /\ m.status = status /\ m.game_over = (status # "IN_PROGRESS")
       /\ m.gains = [g.gains EXCEPT ![player] = counted]
  BY <1>1
<1>12. m.gains[player] = counted /\ m.gains[other] = g.gains[other]
  BY <1>2, <1>5, <1>11
<1>13. m \in GameState
  BY <1>1, <1>2, <1>3, <1>4, <1>10 DEF GameState, Status
<1>14. GainsAgree(m)
  <2>1. /\ g.gains[player].total \in Nat /\ g.gains[other].total \in Nat
        /\ g.gains[player].tuz \in Nat /\ g.gains[other].tuz \in Nat
    BY <1>8 DEF Gains
  <2>2. Opponent(player) = other /\ Opponent(other) = player
    BY <1>5 DEF Opponent
  <2>3. ASSUME NEW p \in Side
        PROVE  /\ g.gains[p].total <= g.kazans[p]
               /\ g.kazans[p] <= g.gains[p].total + g.gains[Opponent(p)].tuz
               /\ g.gains[p].tuz + g.gains[Opponent(p)].total
                    <= g.gains[p].total + g.kazans[Opponent(p)]
               /\ g.gains[p].max <= g.gains[p].total
               /\ g.gains[p].min <= g.gains[p].max \/ g.gains[p].min = Unset
    BY <1>2 DEF GainsAgree
  <2>4. /\ m.gains[player].total = g.gains[player].total + gain
        /\ m.gains[player].tuz = g.gains[player].tuz + tuz_gain
        /\ m.gains[other].total = g.gains[other].total
        /\ m.gains[other].tuz = g.gains[other].tuz
        /\ m.kazans[player] = k[player] /\ m.kazans[other] = k[other]
    BY <1>10, <1>11, <1>12
  <2>5. Gained(m) = Gained(g) + gain /\ Gained(g) \in Nat
    BY <1>5, <1>8, <2>1, <2>4 DEF Gained
  <2>6. (\E p \in Side : m.tuz[p] # NoTuz) => 3 <= Gained(m)
    <3>1. CASE m.tuz = g.tuz
      <4>1. (\E p \in Side : m.tuz[p] # NoTuz) => 3 <= Gained(g)
        BY <1>2, <3>1 DEF GainsAgree
      <4> QED
        BY <1>8, <2>5, <4>1
    <3>2. CASE m.tuz # g.tuz
      BY <1>8, <1>9, <1>11, <2>5, <3>2
    <3> QED
      BY <3>1, <3>2
  <2>7. (\A p \in Side : m.tuz[p] = NoTuz) =>
          \A p \in Side : m.gains[p].total = m.kazans[p] /\ m.gains[p].tuz = 0
    <3> SUFFICES ASSUME \A p \in Side : m.tuz[p] = NoTuz
                 PROVE  \A p \in {player, other} :
                          m.gains[p].total = m.kazans[p] /\ m.gains[p].tuz = 0
      BY <1>5
    <3>1. \A p \in Side : g.tuz[p] = NoTuz
      BY <1>3, <1>11
    <3>2. \A p \in Side : g.gains[p].total = g.kazans[p] /\ g.gains[p].tuz = 0
      BY <1>2, <3>1 DEF GainsAgree
    <3>3. tuz_gain = 0 /\ k[other] = g.kazans[other]
      BY <1>3, <1>9, <3>1
    <3>4. /\ g.gains[player].total = g.kazans[player] /\ g.gains[player].tuz = 0
          /\ g.gains[other].total = g.kazans[other] /\ g.gains[other].tuz = 0
      BY <1>5, <3>2
    <3>5. m.gains[player].total = m.kazans[player] /\ m.gains[player].tuz = 0
      BY <1>9, <2>4, <3>3, <3>4
    <3>6. m.gains[other].total = m.kazans[other] /\ m.gains[other].tuz = 0
      BY <2>4, <3>3, <3>4
    <3> QED
      BY <3>5, <3>6
  <2>8. ASSUME NEW p \in Side
        PROVE  /\ m.gains[p].total <= m.kazans[p]
               /\ m.kazans[p] <= m.gains[p].total + m.gains[Opponent(p)].tuz
               /\ m.gains[p].tuz + m.gains[Opponent(p)].total
                    <= m.gains[p].total + m.kazans[Opponent(p)]
    <3>1. /\ g.gains[player].total <= g.kazans[player]
          /\ g.gains[other].total <= g.kazans[other]
          /\ g.kazans[player] <= g.gains[player].total + g.gains[other].tuz
          /\ g.kazans[other] <= g.gains[other].total + g.gains[player].tuz
          /\ g.gains[player].tuz + g.gains[other].total
               <= g.gains[player].total + g.kazans[other]
          /\ g.gains[other].tuz + g.gains[player].total
               <= g.gains[other].total + g.kazans[player]
      BY <1>5, <2>2, <2>3
    <3>2. CASE p = player
      BY <1>6, <1>8, <1>9, <2>1, <2>2, <2>4, <3>1, <3>2
    <3>3. CASE p = other
      BY <1>6, <1>8, <1>9, <2>1, <2>2, <2>4, <3>1, <3>3
    <3> QED
      BY <1>5, <3>2, <3>3
  <2>9. ASSUME NEW p \in Side
        PROVE  /\ m.gains[p].max <= m.gains[p].total
               /\ m.gains[p].min <= m.gains[p].max \/ m.gains[p].min = Unset
    BY <1>5, <1>10, <1>12, <2>3
  <2> QED
    BY <2>6, <2>7, <2>8, <2>9 DEF GainsAgree
<1>15. "IN_PROGRESS" \notin Verdict
  BY DEF Verdict
<1>16. /\ m.status \notin Verdict => \A side \in Side : HasKorgools(m.holes[side])
       /\ m.game_over <=> m.status \in Verdict
  BY <1>4, <1>11, <1>15
<1> QED
  BY <1>13, <1>14, <1>16 DEF GameOK, m

-----------------------------------------------------------------------------
(* The registry: every game is in order, and the next id is a new one.     *)
Registry ==
  /\ next_id \in Int
  /\ IsFiniteSet(DOMAIN games)
  /\ games = [id \in DOMAIN games |-> games[id]]
  /\ \A id \in DOMAIN games : id \in Int /\ id < next_id /\ GameOK(games[id])

(* The batch: games of the registry, each to be played once.  The one in   *)
(* play has started.                                                       *)
Batch ==
  /\ main \in [pc : {"next batch", "create", "play", "done"}, left : Nat,
               ids : Seq(Int), turn : Side]
  /\ \A i \in DOMAIN main.ids : main.ids[i] \in DOMAIN games
  /\ \A i, j \in DOMAIN main.ids : main.ids[i] = main.ids[j] => i = j
  /\ main.pc = "play" => /\ main.ids # <<>>
                         /\ games[Head(main.ids)].status # "WAITING_FOR_PLAYERS"
  /\ main.pc \in {"next batch", "done"} => main.ids = <<>>

IInv == Registry /\ batches \in Seq(Nat) /\ Batch /\ EveryGameDecided

LEMMA EmptyFact ==
  /\ DOMAIN << >> = {}
  /\ << >> = [x \in DOMAIN << >> |-> << >>[x]]
  /\ << >> \in Seq(Int)
OBVIOUS

LEMMA EmptyFunction ==
  ASSUME NEW f, f = [x \in DOMAIN f |-> f[x]], DOMAIN f = {}
  PROVE  f = << >>
<1>1. f \in Seq(Nat) /\ Len(f) = 0
  <2>1. f \in [1..0 -> Nat]
    OBVIOUS
  <2> QED
    BY <2>1
<1>2. << >> \in Seq(Nat) /\ Len(<< >>) = 0
  BY EmptySeq
<1> QED
  BY <1>1, <1>2, SeqEqual

LEMMA HeadFact ==
  ASSUME NEW S, NEW s \in Seq(S), s # << >>
  PROVE  /\ Head(s) = s[1] /\ 1 \in DOMAIN s /\ Head(s) \in S
         /\ Tail(s) \in Seq(S)
         /\ \A i \in DOMAIN Tail(s) : i \in Nat /\ i + 1 \in DOMAIN s /\ Tail(s)[i] = s[i + 1]
         /\ \A i \in DOMAIN s : i \in Nat /\ (i = 1 \/ i - 1 \in DOMAIN Tail(s))
<1>1. Len(s) \in Nat \ {0} /\ DOMAIN s = 1..Len(s)
  BY EmptySeq, LenProperties
<1>2. Head(s) = s[1]
  BY <1>1
<1>3. /\ Head(s) \in S /\ Tail(s) \in Seq(S) /\ Len(Tail(s)) = Len(s) - 1
      /\ \A i \in 1..Len(Tail(s)) : Tail(s)[i] = s[i + 1]
  BY HeadTailProperties
<1>4. DOMAIN Tail(s) = 1..Len(s) - 1
  BY <1>3, LenProperties
<1> QED
  BY <1>1, <1>2, <1>3, <1>4

LEMMA AppendFact ==
  ASSUME NEW S, NEW s \in Seq(S), NEW x \in S
  PROVE  \E n \in Nat : /\ Append(s, x) \in Seq(S)
                        /\ n \notin DOMAIN s
                        /\ DOMAIN Append(s, x) = DOMAIN s \union {n}
                        /\ Append(s, x)[n] = x
                        /\ \A i \in DOMAIN s : Append(s, x)[i] = s[i]
<1> DEFINE t == Append(s, x)
<1>1. Len(s) \in Nat /\ DOMAIN s = 1..Len(s)
  BY LenProperties
<1>2. /\ t \in Seq(S) /\ Len(t) = Len(s) + 1 /\ t[Len(s) + 1] = x
      /\ \A i \in 1..Len(s) : t[i] = s[i]
  BY <1>1
<1>3. DOMAIN t = 1..Len(s) + 1
  BY <1>2, LenProperties
<1> HIDE DEF t
<1>4. DOMAIN t = DOMAIN s \union {Len(s) + 1} /\ Len(s) + 1 \notin DOMAIN s
  BY <1>1, <1>3
<1>5. Len(s) + 1 \in Nat
  BY <1>1
<1> QED
  BY <1>1, <1>2, <1>4, <1>5 DEF t

LEMMA InitInv == Init => IInv
<1> SUFFICES ASSUME Init PROVE IInv
  OBVIOUS
<1>1. /\ games = << >> /\ next_id = LastId + 1 /\ batches = Batches
      /\ main = [pc |-> "next batch", left |-> 0, ids |-> <<>>, turn |-> "top"]
  BY DEF Init
<1>a. DOMAIN games = {} /\ games = [x \in DOMAIN games |-> games[x]]
  BY <1>1, EmptyFact
<1>b. /\ main \in [pc : {"next batch", "create", "play", "done"}, left : Nat,
                   ids : Seq(Int), turn : Side]
      /\ main.pc = "next batch" /\ main.ids = <<>> /\ DOMAIN main.ids = {}
  BY <1>1, EmptyFact DEF Side
<1>2. Registry
  <2>1. next_id \in Int
    <3>1. LastId \in Int
      BY GameManagerAssumption
    <3>2. next_id = LastId + 1
      BY <1>1
    <3> QED
      BY <3>1, <3>2
  <2> QED
    BY <1>a, <2>1, FS_EmptySet DEF Registry
<1>3. Batch
  BY <1>b DEF Batch
<1>4. EveryGameDecided
  BY <1>a, <1>b DEF EveryGameDecided
<1> QED
  BY <1>1, <1>2, <1>3, <1>4, GameManagerAssumption DEF IInv

LEMMA NextBatchInv == IInv /\ NextBatch => IInv'
<1> SUFFICES ASSUME IInv, NextBatch PROVE IInv'
  OBVIOUS
<1>1. /\ main.pc = "next batch" /\ batches # <<>> /\ batches \in Seq(Nat)
      /\ main' = [main EXCEPT !.pc = "create", !.left = Head(batches)]
      /\ batches' = Tail(batches) /\ games' = games /\ next_id' = next_id
  BY DEF IInv, NextBatch
<1>2. Head(batches) \in Nat /\ Tail(batches) \in Seq(Nat)
  BY <1>1, HeadFact
<1>3. /\ main'.pc = "create" /\ main'.ids = main.ids
      /\ main' \in [pc : {"next batch", "create", "play", "done"}, left : Nat,
                    ids : Seq(Int), turn : Side]
  BY <1>1, <1>2 DEF IInv, Batch
<1>4. Registry'
  BY <1>1 DEF IInv, Registry
<1>5. Batch'
  BY <1>1, <1>3 DEF IInv, Batch
<1>6. EveryGameDecided'
  BY <1>1, <1>3 DEF IInv, EveryGameDecided
<1> QED
  BY <1>1, <1>2, <1>4, <1>5, <1>6 DEF IInv

LEMMA CreateGameInv == IInv /\ CreateGame => IInv'
<1> SUFFICES ASSUME IInv, CreateGame PROVE IInv'
  OBVIOUS
<1>1. /\ main.pc = "create" /\ main.left > 0
      /\ games' = [id \in DOMAIN games \union {next_id} |->
                     IF id = next_id THEN NewGame ELSE games[id]]
      /\ next_id' = next_id + 1
      /\ main' = [main EXCEPT !.left = @ - 1, !.ids = Append(@, next_id)]
      /\ batches' = batches
  BY DEF CreateGame
<1>2. /\ next_id \in Int /\ IsFiniteSet(DOMAIN games)
      /\ \A id \in DOMAIN games : id \in Int /\ id < next_id /\ GameOK(games[id])
  BY DEF IInv, Registry
<1>3. /\ main.left \in Nat /\ main.ids \in Seq(Int) /\ main.turn \in Side
      /\ main = [pc |-> main.pc, left |-> main.left, ids |-> main.ids, turn |-> main.turn]
      /\ \A i \in DOMAIN main.ids : main.ids[i] \in DOMAIN games
      /\ \A i, j \in DOMAIN main.ids : main.ids[i] = main.ids[j] => i = j
  BY DEF IInv, Batch
<1>4. PICK new : /\ new = games' /\ DOMAIN new = DOMAIN games \union {next_id}
                 /\ new[next_id] = NewGame
                 /\ \A id \in DOMAIN games : new[id] = games[id]
                 /\ new = [id \in DOMAIN new |-> new[id]]
  BY <1>1, <1>2
<1>a. PICK ids : ids = Append(main.ids, next_id)
  OBVIOUS
<1>5. PICK n \in Nat : /\ ids \in Seq(Int) /\ n \notin DOMAIN main.ids
                       /\ DOMAIN ids = DOMAIN main.ids \union {n}
                       /\ ids[n] = next_id
                       /\ \A i \in DOMAIN main.ids : ids[i] = main.ids[i]
  BY <1>2, <1>3, <1>a, AppendFact
<1>6. main' = [pc |-> "create", left |-> main.left - 1, ids |-> ids, turn |-> main.turn]
  BY <1>1, <1>3, <1>a
<1>7. Registry'
  <2>1. IsFiniteSet(DOMAIN games \union {next_id})
    BY <1>2, FS_AddElement
  <2>2. ASSUME NEW id \in DOMAIN new
        PROVE  id \in Int /\ id < next_id + 1 /\ GameOK(new[id])
    BY <1>2, <1>4, NewGameFact
  <2> QED
    <3>1. next_id' = next_id + 1 /\ next_id' \in Int
      BY <1>1, <1>2
    <3>2. IsFiniteSet(DOMAIN games') /\ games' = [id \in DOMAIN games' |-> games'[id]]
      BY <1>4, <2>1
    <3>3. \A id \in DOMAIN games' : id \in Int /\ id < next_id' /\ GameOK(games'[id])
      BY <1>4, <2>2, <3>1
    <3> QED
      BY <3>1, <3>2, <3>3 DEF Registry
<1>8. Batch'
  <2>1. \A i \in DOMAIN ids : ids[i] \in DOMAIN new
    BY <1>3, <1>4, <1>5
  <2>2. \A i, j \in DOMAIN ids : ids[i] = ids[j] => i = j
    <3>1. \A i \in DOMAIN main.ids : main.ids[i] # next_id
      BY <1>2, <1>3
    <3> QED
      BY <1>3, <1>5, <3>1
  <2>3. main.left - 1 \in Nat
    BY <1>1, <1>3
  <2> QED
    BY <1>3, <1>4, <1>5, <1>6, <2>1, <2>2, <2>3 DEF Batch
<1>9. EveryGameDecided'
  <2>1. ASSUME NEW id \in DOMAIN new, \A i \in DOMAIN ids : ids[i] # id
        PROVE  new[id].status \in Verdict
    <3>1. id \in DOMAIN games /\ \A i \in DOMAIN main.ids : main.ids[i] # id
      BY <1>4, <1>5, <2>1
    <3> QED
      BY <1>4, <3>1 DEF IInv, EveryGameDecided
  <2> QED
    BY <1>4, <1>6, <2>1 DEF EveryGameDecided
<1> QED
  BY <1>1, <1>7, <1>8, <1>9 DEF IInv

(* One game of the batch changes, and not in a way that undoes a verdict.  *)
LEMMA HeadChanges ==
  ASSUME IInv, main.ids # <<>>, NEW g, GameOK(g), g.status # "WAITING_FOR_PLAYERS",
         games' = [games EXCEPT ![Head(main.ids)] = g],
         main'.pc = "play", main'.ids = main.ids,
         main' \in [pc : {"next batch", "create", "play", "done"}, left : Nat,
                    ids : Seq(Int), turn : Side],
         next_id' = next_id, batches' = batches
  PROVE  IInv'
<1>0. main.ids \in Seq(Int)
  BY DEF IInv, Batch
<1>1. /\ Head(main.ids) = main.ids[1] /\ 1 \in DOMAIN main.ids
      /\ main.ids[1] \in DOMAIN games
  BY <1>0, HeadFact DEF IInv, Batch
<1>2. PICK new : /\ new = games' /\ DOMAIN new = DOMAIN games
                 /\ new[main.ids[1]] = g
                 /\ \A id \in DOMAIN games : id # main.ids[1] => new[id] = games[id]
                 /\ new = [id \in DOMAIN new |-> new[id]]
  <2>1. games = [id \in DOMAIN games |-> games[id]]
    BY DEF IInv, Registry
  <2>2. games' = [id \in DOMAIN games |-> IF id = main.ids[1] THEN g ELSE games[id]]
    BY <1>1, <2>1
  <2> QED
    BY <1>1, <2>2
<1>3. Registry'
  <2>1. ASSUME NEW id \in DOMAIN new
        PROVE  id \in Int /\ id < next_id /\ GameOK(new[id])
    <3>1. id \in DOMAIN games
      BY <1>2
    <3>2. id \in Int /\ id < next_id /\ GameOK(games[id])
      BY <3>1 DEF IInv, Registry
    <3>3. new[id] = g \/ new[id] = games[id]
      BY <1>2, <3>1
    <3> QED
      BY <3>2, <3>3
  <2> QED
    <3>1. next_id' \in Int /\ IsFiniteSet(DOMAIN games)
      BY DEF IInv, Registry
    <3>2. IsFiniteSet(DOMAIN games') /\ games' = [id \in DOMAIN games' |-> games'[id]]
      BY <1>2, <3>1
    <3>3. \A id \in DOMAIN games' : id \in Int /\ id < next_id' /\ GameOK(games'[id])
      BY <1>2, <2>1
    <3> QED
      BY <3>1, <3>2, <3>3 DEF Registry
<1>4. Batch'
  BY <1>1, <1>2 DEF IInv, Batch
<1>5. EveryGameDecided'
  <2>1. ASSUME NEW id \in DOMAIN new, \A i \in DOMAIN main.ids : main.ids[i] # id
        PROVE  new[id].status \in Verdict
    BY <1>1, <1>2, <2>1 DEF IInv, EveryGameDecided
  <2>2. games' = new /\ main'.pc # "done" /\ main'.ids = main.ids
    BY <1>2
  <2> QED
    BY <2>1, <2>2 DEF EveryGameDecided
<1> QED
  BY <1>3, <1>4, <1>5 DEF IInv

LEMMA PlayNextInv == IInv /\ PlayNext => IInv'
<1> SUFFICES ASSUME IInv, PlayNext PROVE IInv'
  OBVIOUS
<1>0. /\ next_id' = next_id /\ batches' = batches /\ main.pc = "create"
      /\ main.left \in Nat /\ main.ids \in Seq(Int) /\ main.turn \in Side
      /\ main = [pc |-> main.pc, left |-> main.left, ids |-> main.ids, turn |-> main.turn]
  BY DEF IInv, Batch, PlayNext
<1>1. CASE main.ids = <<>>
  <2>1. /\ games' = games
        /\ main' = [pc |-> "next batch", left |-> main.left, ids |-> <<>>, turn |-> main.turn]
    BY <1>0, <1>1 DEF PlayNext
  <2>2. Registry'
    BY <1>0, <2>1 DEF IInv, Registry
  <2>4. Batch'
    BY <1>0, <2>1, EmptyFact DEF Batch
  <2>3. EveryGameDecided'
    BY <1>0, <1>1, <2>1 DEF IInv, EveryGameDecided
  <2> QED
    BY <1>0, <2>2, <2>3, <2>4 DEF IInv
<1>2. CASE main.ids # <<>>
  <2> DEFINE id == Head(main.ids)
             g == games[id]
             new == IF g.status = "WAITING_FOR_PLAYERS"
                      THEN [g EXCEPT !.status = "IN_PROGRESS"] ELSE g
  <2>1. /\ games' = IF g.status = "WAITING_FOR_PLAYERS"
                      THEN [games EXCEPT ![id].status = "IN_PROGRESS"] ELSE games
        /\ main' = [pc |-> "play", left |-> main.left, ids |-> main.ids, turn |-> "top"]
    BY <1>0, <1>2 DEF PlayNext
  <2>2. id \in DOMAIN games /\ GameOK(g) /\ games = [i \in DOMAIN games |-> games[i]]
    <3>1. id = main.ids[1] /\ 1 \in DOMAIN main.ids
      BY <1>0, <1>2, HeadFact
    <3> QED
      BY <3>1 DEF IInv, Batch, Registry
  <2>3. games' = [games EXCEPT ![id] = new]
    <3> HIDE DEF id
    <3> QED
      BY <2>1, <2>2
  <2> HIDE DEF id, g
  <2>4. GameOK(new) /\ new.status # "WAITING_FOR_PLAYERS"
    <3>1. CASE g.status = "WAITING_FOR_PLAYERS"
      <4>1. g \in GameState /\ new = [g EXCEPT !.status = "IN_PROGRESS"]
        BY <2>2, <3>1 DEF GameOK
      <4> HIDE DEF new
      <4>2. /\ new \in GameState /\ new.status = "IN_PROGRESS" /\ new.holes = g.holes
            /\ new.kazans = g.kazans /\ new.gains = g.gains /\ new.tuz = g.tuz
            /\ new.game_over = g.game_over
        BY <4>1 DEF GameState, Status
      <4>3. "IN_PROGRESS" \notin Verdict /\ "WAITING_FOR_PLAYERS" \notin Verdict
        BY DEF Verdict
      <4>4. GainsAgree(new)
        BY <2>2, <4>2 DEF GameOK, GainsAgree, Gained
      <4> QED
        BY <2>2, <3>1, <4>2, <4>3, <4>4 DEF GameOK
    <3>2. CASE g.status # "WAITING_FOR_PLAYERS"
      BY <2>2, <3>2
    <3> QED
      BY <3>1, <3>2
  <2> HIDE DEF new
  <2>5. /\ main'.pc = "play" /\ main'.ids = main.ids
        /\ main' \in [pc : {"next batch", "create", "play", "done"}, left : Nat,
                      ids : Seq(Int), turn : Side]
    BY <1>0, <2>1 DEF Side
  <2> QED
    BY <1>0, <1>2, <2>3, <2>4, <2>5, HeadChanges DEF id
<1> QED
  BY <1>1, <1>2

LEMMA PlayMoveInv == IInv /\ PlayMove => IInv'
<1> SUFFICES ASSUME IInv, PlayMove PROVE IInv'
  OBVIOUS
<1>1. /\ next_id' = next_id /\ batches' = batches /\ main.pc = "play"
      /\ main' = [main EXCEPT !.turn = Opponent(@)]
  BY DEF PlayMove
<1>2. /\ main.left \in Nat /\ main.ids \in Seq(Int) /\ main.turn \in Side
      /\ main = [pc |-> main.pc, left |-> main.left, ids |-> main.ids, turn |-> main.turn]
      /\ main.ids # <<>>
  BY <1>1 DEF IInv, Batch
<1>3. GameOK(games[Head(main.ids)])
  <2>1. Head(main.ids) = main.ids[1] /\ 1 \in DOMAIN main.ids
    BY <1>2, HeadFact
  <2> QED
    BY <2>1 DEF IInv, Batch, Registry
<1>4. PICK pos \in Hole :
        games' = [games EXCEPT ![Head(main.ids)]
                    = Moved(games[Head(main.ids)], main.turn, pos)]
  BY DEF PlayMove
<1>5. PICK g : g = Moved(games[Head(main.ids)], main.turn, pos)
  OBVIOUS
<1>6. GameOK(g) /\ g.status # "WAITING_FOR_PLAYERS"
  <2>1. GameOK(g)
    BY <1>2, <1>3, <1>5, MovedFact
  <2>2. g.status \in Verdict \union {"IN_PROGRESS"}
    BY <1>5, CheckGameEndFact DEF Moved
  <2> QED
    BY <2>1, <2>2 DEF Verdict
<1>7. /\ main'.pc = "play" /\ main'.ids = main.ids
      /\ main' \in [pc : {"next batch", "create", "play", "done"}, left : Nat,
                    ids : Seq(Int), turn : Side]
  BY <1>1, <1>2 DEF Opponent, Side
<1> QED
  BY <1>1, <1>2, <1>4, <1>5, <1>6, <1>7, HeadChanges

(* The loop of the automatic player ends with a verdict only.              *)
LEMMA EndPlayInv == IInv /\ EndPlay => IInv'
<1> SUFFICES ASSUME IInv, EndPlay PROVE IInv'
  OBVIOUS
<1> DEFINE g == games[Head(main.ids)]
<1>1. /\ main.pc = "play"
      /\ g.game_over \/ ~ HasKorgools(g.holes[main.turn]) \/ g.status # "IN_PROGRESS"
      /\ main' = [main EXCEPT !.pc = "create", !.ids = Tail(@)]
      /\ games' = games /\ next_id' = next_id /\ batches' = batches
  BY DEF EndPlay
<1>2. /\ main.left \in Nat /\ main.ids \in Seq(Int) /\ main.turn \in Side
      /\ main = [pc |-> main.pc, left |-> main.left, ids |-> main.ids, turn |-> main.turn]
      /\ main.ids # <<>> /\ g.status # "WAITING_FOR_PLAYERS"
  BY <1>1 DEF IInv, Batch
<1>3. /\ Head(main.ids) = main.ids[1] /\ 1 \in DOMAIN main.ids
      /\ main.ids[1] \in DOMAIN games
  BY <1>2, HeadFact DEF IInv, Batch
<1>4. g.status \in Verdict
  <2>1. GameOK(g)
    BY <1>3 DEF IInv, Registry
  <2> HIDE DEF g
  <2>2. g.status \in Status
    BY <2>1 DEF GameOK, GameState
  <2> QED
    BY <1>1, <1>2, <2>1, <2>2 DEF GameOK, Status
<1>5. PICK ids : /\ ids = Tail(main.ids) /\ ids \in Seq(Int)
                 /\ \A i \in DOMAIN ids : i \in Nat /\ i + 1 \in DOMAIN main.ids
                                          /\ ids[i] = main.ids[i + 1]
                 /\ \A i \in DOMAIN main.ids : i \in Nat /\ (i = 1 \/ i - 1 \in DOMAIN ids)
  BY <1>2, HeadFact
<1>6. main' = [pc |-> "create", left |-> main.left, ids |-> ids, turn |-> main.turn]
  BY <1>1, <1>2, <1>5
<1>7. Registry'
  BY <1>1 DEF IInv, Registry
<1>8. Batch'
  <2>1. \A i \in DOMAIN ids : ids[i] \in DOMAIN games
    BY <1>5 DEF IInv, Batch
  <2>2. ASSUME NEW i \in DOMAIN ids, NEW j \in DOMAIN ids, ids[i] = ids[j] PROVE i = j
    <3>1. i \in Nat /\ j \in Nat /\ i + 1 = j + 1
      BY <1>5, <2>2 DEF IInv, Batch
    <3> QED
      BY <3>1
  <2> QED
    BY <1>1, <1>2, <1>5, <1>6, <2>1, <2>2 DEF Batch
<1>9. EveryGameDecided'
  <2>1. ASSUME NEW id \in DOMAIN games, \A i \in DOMAIN ids : ids[i] # id
        PROVE  games[id].status \in Verdict
    <3>1. CASE id = main.ids[1]
      BY <1>3, <1>4, <3>1
    <3>2. CASE id # main.ids[1]
      <4>1. ASSUME NEW i \in DOMAIN main.ids PROVE main.ids[i] # id
        <5>1. CASE i = 1
          BY <3>2, <5>1
        <5>2. CASE i # 1
          <6>1. i \in Nat /\ i - 1 \in DOMAIN ids
            BY <1>5, <5>2
          <6>2. ids[i - 1] = main.ids[(i - 1) + 1] /\ (i - 1) + 1 = i
            BY <1>5, <6>1
          <6> QED
            BY <2>1, <6>1, <6>2
        <5> QED
          BY <5>1, <5>2
      <4> QED
        BY <4>1 DEF IInv, EveryGameDecided
    <3> QED
      BY <3>1, <3>2
  <2>2. games' = games
    BY <1>1
  <2>3. main'.pc = "create" /\ main'.ids = ids
    BY <1>6
  <2> QED
    BY <2>1, <2>2, <2>3 DEF EveryGameDecided
<1> QED
  BY <1>1, <1>7, <1>8, <1>9 DEF IInv

LEMMA RemoveFinishedGamesInv == IInv /\ RemoveFinishedGames => IInv'
<1> SUFFICES ASSUME IInv, RemoveFinishedGames PROVE IInv'
  OBVIOUS
<1> DEFINE kept == {i \in DOMAIN games : games[i].status \in {"WAITING_FOR_PLAYERS", "IN_PROGRESS"}}
<1>1. /\ main.pc = "next batch"
      /\ games' = [id \in kept |-> games[id]]
      /\ main' = [main EXCEPT !.pc = "done"]
      /\ next_id' = next_id /\ batches' = batches
  BY DEF RemoveFinishedGames
<1>2. main.ids = <<>>
  BY <1>1 DEF IInv, Batch
<1>3. kept = {}
  BY <1>2 DEF IInv, EveryGameDecided, Verdict
<1>4. games' = << >> /\ DOMAIN games' = {}
  <2> HIDE DEF kept
  <2>1. DOMAIN games' = kept /\ games' = [x \in DOMAIN games' |-> games'[x]]
    BY <1>1
  <2>2. PICK f : f = games'
    OBVIOUS
  <2>3. f = << >>
    BY <1>3, <2>1, <2>2, EmptyFunction
  <2> QED
    BY <1>3, <2>1, <2>2, <2>3
<1>5. /\ main'.pc = "done" /\ main'.ids = <<>>
      /\ main' \in [pc : {"next batch", "create", "play", "done"}, left : Nat,
                    ids : Seq(Int), turn : Side]
  BY <1>1, <1>2 DEF IInv, Batch
<1>6. Registry' /\ EveryGameDecided'
  BY <1>1, <1>4, FS_EmptySet DEF IInv, Registry, EveryGameDecided
<1>7. Batch'
  BY <1>4, <1>5 DEF Batch
<1> QED
  BY <1>1, <1>6, <1>7 DEF IInv

LEMMA NextInv == IInv /\ [Next]_vars => IInv'
<1>1. IInv /\ UNCHANGED vars => IInv'
  <2> SUFFICES ASSUME IInv, UNCHANGED vars PROVE IInv'
    OBVIOUS
  <2>1. games' = games /\ next_id' = next_id /\ batches' = batches /\ main' = main
    BY DEF vars
  <2> QED
    BY <2>1 DEF IInv, Registry, Batch, EveryGameDecided
<1> QED
  BY <1>1, NextBatchInv, CreateGameInv, PlayNextInv, PlayMoveInv, EndPlayInv,
     RemoveFinishedGamesInv DEF Next

LEMMA Invariance == Spec => []IInv
<1> QED
  BY InitInv, NextInv, PTL DEF Spec

(* Whatever the board, the batches and the moves chosen, the automatic     *)
(* player leaves every game it played with a verdict (the loop of          *)
(* play_automatic_game), so remove_finished_games leaves none.             *)
THEOREM GamesEndDecided == Spec => []EveryGameDecided
<1>1. IInv => EveryGameDecided
  BY DEF IInv
<1> QED
  BY <1>1, Invariance, PTL

-----------------------------------------------------------------------------
(* The statistics.                                                         *)
LEMMA MaxFact ==
  ASSUME NEW M \in SUBSET Nat, M # {}, NEW b \in Nat, \A x \in M : x <= b
  PROVE  Max(M) \in M /\ \A y \in M : y <= Max(M)
<1> DEFINE D == {b - x : x \in M}
<1>1. D \in SUBSET Nat /\ D # {}
  <2>1. ASSUME NEW x \in M PROVE b - x \in Nat
    <3>1. x \in Nat /\ x <= b
      OBVIOUS
    <3> QED
      BY <3>1
  <2>2. D \in SUBSET Nat
    BY <2>1
  <2>3. D # {}
    OBVIOUS
  <2> QED
    BY <2>2, <2>3
<1>2. PICK d \in D : \A e \in D : d <= e
  <2> HIDE DEF D
  <2> QED
    BY <1>1, LeastElement
<1>3. PICK m \in M : d = b - m
  BY <1>2
<1>4. ASSUME NEW y \in M PROVE m >= y
  <2>1. b - m <= b - y
    BY <1>2, <1>3
  <2> QED
    BY <2>1
<1>5. \E x \in M : \A y \in M : x >= y
  BY <1>4
<1>6. Max(M) \in M /\ \A y \in M : Max(M) >= y
  BY <1>5 DEF Max
<1> QED
  BY <1>6

LEMMA MinFact ==
  ASSUME NEW M \in SUBSET Nat, M # {}
  PROVE  Min(M) \in M
<1>1. \E x \in M : \A y \in M : x <= y
  BY LeastElement
<1> QED
  BY <1>1 DEF Min

(* Three parts of a set without a common element.                          *)
LEMMA PartsFact ==
  ASSUME NEW S, IsFiniteSet(S), NEW A \in SUBSET S, NEW B \in SUBSET S, NEW C \in SUBSET S,
         A \intersect B = {}, (A \union B) \intersect C = {}
  PROVE  Cardinality(A) + Cardinality(B) + Cardinality(C) <= Cardinality(S)
<1>1. /\ IsFiniteSet(A) /\ IsFiniteSet(B) /\ IsFiniteSet(C) /\ IsFiniteSet(A \union B)
      /\ IsFiniteSet((A \union B) \union C)
  BY FS_Subset
<1>2. /\ Cardinality(A) \in Nat /\ Cardinality(B) \in Nat /\ Cardinality(C) \in Nat
      /\ Cardinality(S) \in Nat
  BY <1>1, FS_CardinalityType
<1>3. Cardinality(A \union B) = Cardinality(A) + Cardinality(B)
  <2>1. Cardinality(A \union B)
          = Cardinality(A) + Cardinality(B) - Cardinality(A \intersect B)
    BY <1>1, FS_Union
  <2>2. Cardinality(A \intersect B) = 0
    BY FS_EmptySet
  <2> QED
    BY <1>2, <2>1, <2>2
<1>4. Cardinality((A \union B) \union C) = Cardinality(A \union B) + Cardinality(C)
  <2>1. Cardinality((A \union B) \union C)
          = Cardinality(A \union B) + Cardinality(C) - Cardinality((A \union B) \intersect C)
    BY <1>1, FS_Union
  <2>2. Cardinality((A \union B) \intersect C) = 0
    BY FS_EmptySet
  <2> QED
    BY <1>2, <1>3, <2>1, <2>2
<1>5. Cardinality((A \union B) \union C) <= Cardinality(S)
  BY FS_Subset
<1> QED
  BY <1>2, <1>3, <1>4, <1>5

Totals(p) == [id \in DOMAIN games |-> games[id].gains[p].total]
TuzGains(p) == [id \in DOMAIN games |-> games[id].gains[p].tuz]
KazansOf(p) == [id \in DOMAIN games |-> games[id].kazans[p]]

(* What each game's counters are, and which sums are taken of them.        *)
LEMMA GamesFact ==
  ASSUME Registry, NEW id \in DOMAIN games
  PROVE  /\ GainsAgree(games[id]) /\ games[id] \in GameState
         /\ \A p \in Side : /\ games[id].gains[p] \in Gains
                            /\ games[id].gains[p].total \in Nat
                            /\ games[id].gains[p].max \in Nat
                            /\ games[id].gains[p].min \in Nat
                            /\ games[id].gains[p].tuz \in Nat
                            /\ games[id].kazans[p] \in Nat
<1>1. GainsAgree(games[id]) /\ games[id] \in GameState
  BY DEF Registry, GameOK
<1>2. games[id].gains \in [Side -> Gains] /\ games[id].kazans \in [Side -> Nat]
  BY <1>1 DEF GameState, Kazans
<1> QED
  BY <1>1, <1>2 DEF Gains

LEMMA TermsFact ==
  ASSUME Registry, NEW p \in Side
  PROVE  /\ Totals(p) \in [DOMAIN games -> Nat] /\ TuzGains(p) \in [DOMAIN games -> Nat]
         /\ KazansOf(p) \in [DOMAIN games -> Nat] /\ IsFiniteSet(DOMAIN games)
         /\ SumOver(Totals(p)) \in Nat /\ SumOver(TuzGains(p)) \in Nat
         /\ SumOver(KazansOf(p)) \in Nat
<1>1. /\ Totals(p) \in [DOMAIN games -> Nat] /\ TuzGains(p) \in [DOMAIN games -> Nat]
      /\ KazansOf(p) \in [DOMAIN games -> Nat]
  BY GamesFact DEF Totals, TuzGains, KazansOf
<1>2. IsFiniteSet(DOMAIN games)
  BY DEF Registry
<1> QED
  BY <1>1, <1>2, SumType

(* The extreme moves of a player.                                          *)
LEMMA ExtremesFact ==
  ASSUME Registry, NEW p \in Side
  PROVE  /\ DOMAIN games # {} =>
              statistics.min_single_move_gain[p] <= statistics.max_single_move_gain[p]
         /\ statistics.max_single_move_gain[p] <= SumOver(Totals(p))
<1> DEFINE S == DOMAIN games
           maxima == {games[id].gains[p].max : id \in S} \union {0}
           minima == {games[id].gains[p].min : id \in S} \union {Unset}
           sum == SumOver(Totals(p))
<1>1. /\ statistics.max_single_move_gain[p] = Max(maxima)
      /\ statistics.min_single_move_gain[p]
           = IF DOMAIN games # {} /\ Min(minima) = Unset THEN 0 ELSE Min(minima)
  BY DEF statistics
<1>2. Totals(p) \in [S -> Nat] /\ IsFiniteSet(S) /\ sum \in Nat
  BY TermsFact
<1>4. \A id \in S : games[id].gains[p].max <= sum
  <2> SUFFICES ASSUME NEW id \in S PROVE games[id].gains[p].max <= sum
    OBVIOUS
  <2>1. Totals(p)[id] <= sum
    BY <1>2, SumBound
  <2>2. games[id].gains[p].max <= games[id].gains[p].total
    BY GamesFact DEF GainsAgree
  <2>3. Totals(p)[id] = games[id].gains[p].total
    BY DEF Totals
  <2>4. games[id].gains[p].max \in Nat /\ games[id].gains[p].total \in Nat
    BY GamesFact
  <2> QED
    BY <1>2, <2>1, <2>2, <2>3, <2>4
<1>5. maxima \in SUBSET Nat /\ \A x \in maxima : x <= sum
  BY <1>2, <1>4, GamesFact
<1>6. minima \in SUBSET Nat
  BY GamesFact, GameManagerAssumption
<1> HIDE DEF sum
<1>7. Max(maxima) \in maxima /\ \A y \in maxima : y <= Max(maxima)
  <2>1. maxima # {}
    OBVIOUS
  <2> HIDE DEF maxima
  <2> QED
    BY <1>2, <1>5, <2>1, MaxFact
<1>8. Min(minima) \in minima
  <2>1. minima # {}
    OBVIOUS
  <2> HIDE DEF minima
  <2> QED
    BY <1>6, <2>1, MinFact
<1>9. (IF Min(minima) = Unset THEN 0 ELSE Min(minima)) <= Max(maxima)
  <2>1. CASE Min(minima) = Unset
    <3>1. 0 \in maxima
      OBVIOUS
    <3> QED
      BY <1>7, <2>1, <3>1
  <2>2. CASE Min(minima) # Unset
    <3>1. PICK id \in S : Min(minima) = games[id].gains[p].min
      BY <1>8, <2>2
    <3>2. games[id].gains[p].min <= games[id].gains[p].max
      BY <2>2, <3>1, GamesFact DEF GainsAgree
    <3>3. games[id].gains[p].max <= Max(maxima)
      <4>1. games[id].gains[p].max \in maxima
        OBVIOUS
      <4> HIDE DEF maxima
      <4> QED
        BY <1>7, <4>1
    <3>4. /\ games[id].gains[p].min \in Nat /\ games[id].gains[p].max \in Nat
          /\ Max(maxima) \in Nat
      BY <1>5, <1>7, GamesFact
    <3> HIDE DEF maxima, minima
    <3> QED
      BY <2>2, <3>1, <3>2, <3>3, <3>4
  <2> QED
    BY <2>1, <2>2
<1> HIDE DEF maxima, minima
<1> QED
  BY <1>1, <1>5, <1>7, <1>9 DEF sum

(* What holds of two counters of each game holds of their sums.            *)
LEMMA SumPairs ==
  ASSUME NEW S, IsFiniteSet(S), NEW a \in [S -> Nat], NEW b \in [S -> Nat],
         NEW c \in [S -> Nat], NEW d \in [S -> Nat],
         \A x \in S : a[x] + b[x] <= c[x] + d[x]
  PROVE  SumOver(a) + SumOver(b) <= SumOver(c) + SumOver(d)
<1> DEFINE e == [x \in S |-> a[x] + b[x]]
           f == [x \in S |-> c[x] + d[x]]
<1>1. /\ e \in [S -> Nat] /\ f \in [S -> Nat]
      /\ \A x \in S : e[x] = a[x] + b[x] /\ f[x] = c[x] + d[x] /\ e[x] <= f[x]
  OBVIOUS
<1> HIDE DEF e, f
<1>2. SumOver(e) = SumOver(a) + SumOver(b)
  BY <1>1, SumPlus
<1>3. SumOver(f) = SumOver(c) + SumOver(d)
  BY <1>1, SumPlus
<1>4. SumOver(e) <= SumOver(f)
  BY <1>1, SumMonotone
<1> QED
  BY <1>2, <1>3, <1>4

(* The totals, the tuz gains and the kazans of a player.                   *)
LEMMA GainsOfAPlayer ==
  ASSUME Registry, NEW p \in Side
  PROVE  LET o == Opponent(p)
         IN  /\ SumOver(Totals(p)) <= SumOver(KazansOf(p))
             /\ SumOver(KazansOf(p)) <= SumOver(Totals(p)) + SumOver(TuzGains(o))
             /\ SumOver(TuzGains(p)) + SumOver(Totals(o))
                  <= SumOver(Totals(p)) + SumOver(KazansOf(o))
<1> DEFINE S == DOMAIN games
           o == Opponent(p)
           zero == [id \in S |-> 0]
<1>1. o \in Side
  BY DEF Opponent, Side
<1>2. /\ Totals(p) \in [S -> Nat] /\ TuzGains(p) \in [S -> Nat] /\ KazansOf(p) \in [S -> Nat]
      /\ Totals(o) \in [S -> Nat] /\ TuzGains(o) \in [S -> Nat] /\ KazansOf(o) \in [S -> Nat]
      /\ IsFiniteSet(S) /\ SumOver(KazansOf(p)) \in Nat
  BY <1>1, TermsFact
<1>3. ASSUME NEW id \in S
      PROVE  /\ Totals(p)[id] <= KazansOf(p)[id]
             /\ KazansOf(p)[id] + zero[id] <= Totals(p)[id] + TuzGains(o)[id]
             /\ TuzGains(p)[id] + Totals(o)[id] <= Totals(p)[id] + KazansOf(o)[id]
  <2>1. /\ Totals(p)[id] = games[id].gains[p].total /\ Totals(o)[id] = games[id].gains[o].total
        /\ TuzGains(p)[id] = games[id].gains[p].tuz /\ TuzGains(o)[id] = games[id].gains[o].tuz
        /\ KazansOf(p)[id] = games[id].kazans[p] /\ KazansOf(o)[id] = games[id].kazans[o]
        /\ zero[id] = 0
    BY DEF Totals, TuzGains, KazansOf
  <2>2. /\ games[id].gains[p].total <= games[id].kazans[p]
        /\ games[id].kazans[p] <= games[id].gains[p].total + games[id].gains[o].tuz
        /\ games[id].gains[p].tuz + games[id].gains[o].total
             <= games[id].gains[p].total + games[id].kazans[o]
    BY GamesFact DEF GainsAgree
  <2>3. games[id].kazans[p] \in Nat
    BY GamesFact
  <2> HIDE DEF zero, o
  <2> QED
    BY <2>1, <2>2, <2>3
<1>4. zero \in [S -> Nat] /\ \A id \in S : zero[id] = 0
  OBVIOUS
<1> HIDE DEF S, o, zero
<1>5. SumOver(zero) = 0
  BY <1>2, <1>4, SumZero
<1>6. SumOver(Totals(p)) <= SumOver(KazansOf(p))
  BY <1>2, <1>3, SumMonotone
<1>7. SumOver(KazansOf(p)) + SumOver(zero) <= SumOver(Totals(p)) + SumOver(TuzGains(o))
  BY <1>2, <1>3, <1>4, SumPairs
<1>8. SumOver(TuzGains(p)) + SumOver(Totals(o)) <= SumOver(Totals(p)) + SumOver(KazansOf(o))
  BY <1>2, <1>3, SumPairs
<1> QED
  BY <1>2, <1>5, <1>6, <1>7, <1>8 DEF o

(* Without a tuz in any game the totals are the kazans.                    *)
LEMMA GainsWithoutTuz ==
  ASSUME Registry, statistics.games_with_tuz = 0, NEW p \in Side
  PROVE  SumOver(Totals(p)) = SumOver(KazansOf(p)) /\ SumOver(TuzGains(p)) = 0
<1> DEFINE S == DOMAIN games
           T == {id \in S : \E q \in Side : games[id].tuz[q] # NoTuz}
<1>1. statistics.games_with_tuz = Cardinality(T)
  BY DEF statistics
<1>2. T = {}
  <2>1. IsFiniteSet(T)
    BY FS_Subset DEF Registry
  <2> HIDE DEF T
  <2> QED
    BY <1>1, <2>1, FS_EmptySet
<1>3. ASSUME NEW id \in S
      PROVE  games[id].gains[p].total = games[id].kazans[p] /\ games[id].gains[p].tuz = 0
  <2>1. \A q \in Side : games[id].tuz[q] = NoTuz
    BY <1>2
  <2> QED
    BY <2>1, GamesFact DEF GainsAgree
<1>4. Totals(p) = KazansOf(p)
  BY <1>3 DEF Totals, KazansOf
<1>5. TuzGains(p) \in [S -> Nat] /\ IsFiniteSet(S)
  BY TermsFact
<1>6. \A id \in S : TuzGains(p)[id] = 0
  BY <1>3 DEF TuzGains
<1>7. SumOver(TuzGains(p)) = 0
  BY <1>5, <1>6, SumZero
<1> QED
  BY <1>4, <1>7

(* Each game with a tuz has brought three korgools.                        *)
LEMMA GamesWithTuz ==
  ASSUME Registry
  PROVE  3 * statistics.games_with_tuz <= SumOver(Totals("top")) + SumOver(Totals("down"))
<1> DEFINE S == DOMAIN games
           d == [id \in S |-> Gained(games[id])]
           T == {id \in S : \E p \in Side : games[id].tuz[p] # NoTuz}
<1>1. "top" \in Side /\ "down" \in Side
  BY DEF Side
<1>2. Totals("top") \in [S -> Nat] /\ Totals("down") \in [S -> Nat] /\ IsFiniteSet(S)
  BY <1>1, TermsFact
<1>3. ASSUME NEW id \in S
      PROVE  Gained(games[id]) \in Nat /\ d[id] = Totals("top")[id] + Totals("down")[id]
  BY <1>1, GamesFact DEF Gained, Totals
<1>4. d \in [S -> Nat]
  BY <1>3
<1>5. SumOver(d) = SumOver(Totals("top")) + SumOver(Totals("down"))
  <2> HIDE DEF S, d
  <2> QED
    BY <1>2, <1>3, <1>4, SumPlus
<1>6. 3 * Cardinality(T) <= SumOver(d)
  <2>1. \A id \in T : d[id] >= 3
    BY <1>3, GamesFact DEF GainsAgree
  <2>2. T \in SUBSET S
    OBVIOUS
  <2> HIDE DEF S, d, T
  <2> QED
    BY <1>2, <1>4, <2>1, <2>2, SumCounts
<1>7. statistics.games_with_tuz = Cardinality(T)
  BY DEF statistics
<1> HIDE DEF d, T
<1> QED
  BY <1>5, <1>6, <1>7

LEMMA RegistryAddsUp == Registry => StatisticsAddUp
<1> SUFFICES ASSUME Registry PROVE StatisticsAddUp
  OBVIOUS
<1> DEFINE total == statistics.total_kazan_gain
           tuz_gain == statistics.total_tuz_kazan_gain
           kazan == [p \in Side |-> SumOver([id \in DOMAIN games |-> games[id].kazans[p]])]
<1>1. \A p \in Side : /\ total[p] = SumOver(Totals(p)) /\ tuz_gain[p] = SumOver(TuzGains(p))
                      /\ kazan[p] = SumOver(KazansOf(p)) /\ Opponent(p) \in Side
  BY DEF statistics, Totals, TuzGains, KazansOf, Opponent, Side
<1>2. 3 * statistics.games_with_tuz <= InKazans(total)
  <2>1. "top" \in Side /\ "down" \in Side
    BY DEF Side
  <2> HIDE DEF total
  <2>2. InKazans(total) = SumOver(Totals("top")) + SumOver(Totals("down"))
    BY <1>1, <2>1 DEF InKazans
  <2> QED
    BY <2>2, GamesWithTuz
<1>3. statistics.player1_wins + statistics.player2_wins + statistics.draws
        <= statistics.total_games
  <2> DEFINE A == {id \in DOMAIN games : games[id].status = "PLAYER1_WINS"}
             B == {id \in DOMAIN games : games[id].status = "PLAYER2_WINS"}
             C == {id \in DOMAIN games : games[id].status = "DRAW"}
  <2>1. /\ statistics.player1_wins = Cardinality(A) /\ statistics.player2_wins = Cardinality(B)
        /\ statistics.draws = Cardinality(C)
        /\ statistics.total_games = Cardinality(DOMAIN games)
    BY DEF statistics, Having
  <2>2. /\ A \in SUBSET DOMAIN games /\ B \in SUBSET DOMAIN games /\ C \in SUBSET DOMAIN games
        /\ A \intersect B = {} /\ (A \union B) \intersect C = {}
    OBVIOUS
  <2>3. IsFiniteSet(DOMAIN games)
    BY DEF Registry
  <2> HIDE DEF A, B, C
  <2>4. Cardinality(A) + Cardinality(B) + Cardinality(C) <= Cardinality(DOMAIN games)
    BY <2>2, <2>3, PartsFact
  <2> QED
    BY <2>1, <2>4
<1> HIDE DEF total, tuz_gain, kazan
<1>4. ASSUME NEW p \in Side
      PROVE  /\ total[p] <= kazan[p]
             /\ kazan[p] <= total[p] + tuz_gain[Opponent(p)]
             /\ tuz_gain[p] + total[Opponent(p)] <= total[p] + kazan[Opponent(p)]
  BY <1>1, GainsOfAPlayer
<1>5. ASSUME NEW p \in Side
      PROVE  statistics.games_with_tuz = 0 => total[p] = kazan[p] /\ tuz_gain[p] = 0
  BY <1>1, GainsWithoutTuz
<1>6. ASSUME NEW p \in Side
      PROVE  /\ DOMAIN games # {} =>
                  statistics.min_single_move_gain[p] <= statistics.max_single_move_gain[p]
             /\ statistics.max_single_move_gain[p] <= total[p]
  BY <1>1, ExtremesFact
<1> QED
  BY <1>2, <1>3, <1>4, <1>5, <1>6 DEF StatisticsAddUp, total, tuz_gain, kazan

(* Whenever get_statistics is called, and however many games there are,    *)
(* each player's total fits its kazans, what is missing was taken by its   *)
(* tuz on the opponent's moves and counted as the opponent's tuz gain,     *)
(* nothing is missing where no tuz was won, and the extremes and the       *)
(* counts of games fit the totals.                                         *)
THEOREM StatisticsAgree == Spec => []StatisticsAddUp
<1>1. IInv => StatisticsAddUp
  BY RegistryAddsUp DEF IInv
<1> QED
  BY <1>1, Invariance, PTL
=============================================================================
