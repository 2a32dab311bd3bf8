----------------------- MODULE ToguzKorgoolGame_proofs -----------------------
(***************************************************************************)
(* Proofs of the invariants of ToguzKorgoolGame and of its refinement of   *)
(* Contest, for every number of holes and of korgools in a hole.  All that *)
(* these know of a move is theorem MoveEffectFact of RingFacts.  At the    *)
(* end the sowing is shown to be a division, place by place, and the       *)
(* forecast of a tuz to be exact.                                          *)
(***************************************************************************)
EXTENDS MCToguzKorgoolGame, RingFacts

(* While a game can still be played nobody has won it and both players     *)
(* have korgools.                                                          *)
Undecided ==
  status \in {"WAITING_FOR_PLAYERS", "IN_PROGRESS"} =>
    \A side \in Side : HasKorgools(holes[side]) /\ kazans[side] < WIN_SCORE

(* The inductive invariant: the checked invariants hold one another up.    *)
(* VerdictJustified needs Conservation (two players cannot both reach      *)
(* WIN_SCORE), InProgressPlayable needs Undecided for the waiting game.    *)
IInv == /\ TypeOK
        /\ Conservation
        /\ TuzStaysEmpty
        /\ Undecided
        /\ GameOverAgrees
        /\ VerdictJustified

LEMMA NumbersFact ==
  /\ Half \in Nat /\ Half >= 1 /\ Total = 2 * Half /\ Total \in Nat
  /\ WIN_SCORE = Half + 1 /\ Seeds \in Nat /\ Seeds > 0
<1>1. \A a, b \in Nat : a >= 1 /\ b >= 1 => a * b \in Nat /\ a * b >= 1
  <2> SUFFICES ASSUME NEW a \in Nat, NEW b \in Nat, a >= 1, b >= 1
               PROVE  a * b \in Nat /\ a * b >= 1
    OBVIOUS
  <2>1. a * b = (a - 1) * b + b /\ (a - 1) * b >= 0
    OBVIOUS
  <2> QED
    BY <2>1
<1>2. NHoles \in Nat /\ NHoles >= 1 /\ Seeds \in Nat /\ Seeds >= 1
  BY RingAssumption
<1>3. Half \in Nat /\ Half >= 1
  BY <1>1, <1>2 DEF Half
<1> QED
  BY <1>2, <1>3 DEF Total, WIN_SCORE

LEMMA StartFact ==
  /\ StartHoles \in Holes /\ OnBoard(StartHoles) = Total
  /\ StartKazans \in Kazans /\ InKazans(StartKazans) = 0
  /\ \A side \in Side : HasKorgools(StartHoles[side]) /\ StartKazans[side] < WIN_SCORE
<1> DEFINE row == [h \in Hole |-> Seeds]
<1>1. row \in Row /\ \A h \in Hole : row[h] > 0
  BY NumbersFact DEF Row
<1>2. RowSum(row) = Half
  BY StartRowSum
<1>3. \A side \in Side : StartHoles[side] = row
  BY DEF StartHoles
<1>4. StartHoles \in Holes
  BY <1>1 DEF StartHoles, Holes
<1> HIDE DEF row
<1>5. OnBoard(StartHoles) = Total
  BY <1>2, <1>3, NumbersFact DEF OnBoard, Side
<1>6. /\ StartKazans \in Kazans /\ InKazans(StartKazans) = 0
      /\ \A side \in Side : StartKazans[side] < WIN_SCORE
  BY NumbersFact DEF StartKazans, Kazans, InKazans, Side
<1>7. \A side \in Side : HasKorgools(StartHoles[side])
  BY <1>1, <1>3, LastFact DEF HasKorgools
<1> QED
  BY <1>4, <1>5, <1>6, <1>7

-----------------------------------------------------------------------------
(* What the status set by check_game_end says of the board.                *)
LEMMA CheckGameEndFact ==
  ASSUME NEW h \in Holes, NEW k \in Kazans, OnBoard(h) + InKazans(k) = Total
  PROVE  LET end == CheckGameEnd(h, k)
         IN  /\ end \in Verdict \union {"IN_PROGRESS"}
             /\ end = "IN_PROGRESS" =>
                  \A side \in Side : HasKorgools(h[side]) /\ k[side] < WIN_SCORE
             /\ end = "PLAYER1_WINS" => k["top"] > k["down"]
             /\ end = "PLAYER2_WINS" => k["down"] > k["top"]
             /\ end = "DRAW" => k["top"] = k["down"]
<1>1. k["top"] \in Nat /\ k["down"] \in Nat /\ OnBoard(h) \in Nat
  BY OnBoardType DEF Kazans, Side
<1>2. k["top"] + k["down"] <= 2 * Half
  BY <1>1, NumbersFact DEF InKazans
<1>3. CASE k["top"] >= WIN_SCORE
  BY <1>1, <1>2, <1>3, NumbersFact DEF CheckGameEnd, Verdict
<1>4. CASE ~ (k["top"] >= WIN_SCORE) /\ k["down"] >= WIN_SCORE
  BY <1>1, <1>2, <1>4, NumbersFact DEF CheckGameEnd, Verdict
<1>5. CASE ~ (k["top"] >= WIN_SCORE) /\ ~ (k["down"] >= WIN_SCORE)
  <2>1. \A side \in Side : k[side] < WIN_SCORE
    BY <1>1, <1>5, NumbersFact DEF Side
  <2>2. CASE \E side \in Side : ~ HasKorgools(h[side])
    <3>1. CheckGameEnd(h, k) = Leader(k)
      BY <1>5, <2>2 DEF CheckGameEnd
    <3> QED
      BY <1>1, <3>1 DEF Leader, Verdict
  <2>3. CASE ~ \E side \in Side : ~ HasKorgools(h[side])
    <3>1. CheckGameEnd(h, k)
            = IF k["top"] = Half /\ k["down"] = Half THEN "DRAW" ELSE "IN_PROGRESS"
      BY <1>5, <2>3 DEF CheckGameEnd
    <3> QED
      BY <2>1, <2>3, <3>1 DEF Verdict
  <2> QED
    BY <2>2, <2>3
<1> QED
  BY <1>3, <1>4, <1>5

LEMMA InitIInv == Init => IInv
<1> SUFFICES ASSUME Init PROVE IInv
  OBVIOUS
<1>1. TypeOK
  BY StartFact DEF Init, TypeOK, Tuzes, GameStatus
<1>2. Conservation
  BY StartFact, NumbersFact DEF Init, Conservation
<1>3. TuzStaysEmpty /\ GameOverAgrees /\ VerdictJustified
  BY DEF Init, TuzStaysEmpty, GameOverAgrees, VerdictJustified, Verdict
<1>4. Undecided
  BY StartFact DEF Init, Undecided
<1> QED
  BY <1>1, <1>2, <1>3, <1>4 DEF IInv

(* A move, seen through its effect on the board.                           *)
LEMMA MoveFact ==
  ASSUME IInv, NEW player \in Side, NEW pos \in Hole, Move(player, pos)
  PROVE  /\ MoveEffect(holes, kazans, tuz, [ring |-> [holes |-> holes', kazans |-> kazans'],
                                            tuz |-> tuz'])
         /\ OnBoard(holes') + InKazans(kazans') = Total
<1> DEFINE after == AfterMove(holes, kazans, tuz, player, pos)
<1>1. holes \in Holes /\ kazans \in Kazans /\ tuz \in Tuzes
  BY DEF IInv, TypeOK
<1>2. MoveEffect(holes, kazans, tuz, after)
  BY <1>1, MoveEffectFact
<1>3. holes' = after.ring.holes /\ kazans' = after.ring.kazans /\ tuz' = after.tuz
  BY DEF Move
<1> HIDE DEF after
<1>4. Korgools(holes', kazans') = Korgools(holes, kazans)
  BY <1>2, <1>3 DEF MoveEffect
<1> QED
  BY <1>2, <1>3, <1>4 DEF MoveEffect, IInv, Conservation, Korgools

LEMMA MoveIInv ==
  ASSUME IInv, NEW player \in Side, NEW pos \in Hole, Move(player, pos)
  PROVE  IInv'
<1>1. /\ holes' \in Holes /\ kazans' \in Kazans /\ tuz' \in Tuzes
      /\ \A p, z \in Side : tuz[p] # NoTuz => holes'[z][tuz[p]] <= holes[z][tuz[p]]
      /\ \A p \in Side : tuz[p] # NoTuz => tuz'[p] = tuz[p]
      /\ \A p \in Side : tuz'[p] # tuz[p] =>
           /\ tuz'[p] # Last
           /\ tuz'[p] # tuz[Opponent(p)]
           /\ tuz'[Opponent(p)] = tuz[Opponent(p)]
           /\ holes'[Opponent(p)][tuz'[p]] = 0
  BY MoveFact DEF MoveEffect
<1>2. Conservation'
  BY MoveFact DEF Conservation
<1>3. /\ status' = CheckGameEnd(holes', kazans')
      /\ game_over' = (status' # "IN_PROGRESS")
  BY DEF Move
<1>4. /\ status' \in Verdict \union {"IN_PROGRESS"}
      /\ status' = "IN_PROGRESS" =>
           \A side \in Side : HasKorgools(holes'[side]) /\ kazans'[side] < WIN_SCORE
      /\ status' = "PLAYER1_WINS" => kazans'["top"] > kazans'["down"]
      /\ status' = "PLAYER2_WINS" => kazans'["down"] > kazans'["top"]
      /\ status' = "DRAW" => kazans'["top"] = kazans'["down"]
  BY <1>1, <1>2, <1>3, CheckGameEndFact DEF Conservation
<1>5. TypeOK'
  BY <1>1, <1>3, <1>4 DEF TypeOK, GameStatus
<1>6. TuzStaysEmpty'
  <2> SUFFICES ASSUME NEW p \in Side, tuz'[p] # NoTuz
               PROVE  /\ tuz'[p] # Last
                      /\ tuz'[p] # tuz'[Opponent(p)]
                      /\ holes'[Opponent(p)][tuz'[p]] = 0
    BY DEF TuzStaysEmpty
  <2>1. Opponent(p) \in Side /\ Opponent(Opponent(p)) = p
    BY DEF Opponent, Side
  <2>2. CASE tuz'[p] # tuz[p]
    BY <1>1, <2>1, <2>2
  <2>3. CASE tuz'[p] = tuz[p]
    <3>1. /\ tuz[p] # Last /\ tuz[p] # tuz[Opponent(p)]
          /\ holes[Opponent(p)][tuz[p]] = 0
      BY <2>3 DEF IInv, TuzStaysEmpty
    <3>2. tuz[p] \in Hole
      BY <2>3 DEF IInv, TypeOK, Tuzes
    <3>3. tuz'[p] # tuz'[Opponent(p)]
      BY <1>1, <2>1, <2>3, <3>1
    <3>4. holes'[Opponent(p)][tuz[p]] \in Nat /\ holes'[Opponent(p)][tuz[p]] <= 0
      BY <1>1, <2>1, <2>3, <3>1, <3>2 DEF Holes, Row
    <3> QED
      BY <2>3, <3>1, <3>3, <3>4
  <2> QED
    BY <2>2, <2>3
<1>7. Undecided' /\ GameOverAgrees' /\ VerdictJustified'
  BY <1>3, <1>4 DEF Undecided, GameOverAgrees, VerdictJustified, Verdict
<1> QED
  BY <1>2, <1>5, <1>6, <1>7 DEF IInv

LEMMA NextIInv == IInv /\ [Next]_vars => IInv'
<1> SUFFICES ASSUME IInv, [Next]_vars PROVE IInv'
  OBVIOUS
<1> USE DEF IInv, TypeOK, Conservation, TuzStaysEmpty, Undecided, GameOverAgrees,
            VerdictJustified, GameStatus, Verdict
<1>1. CASE StartGame
  BY <1>1 DEF StartGame
<1>2. CASE AbandonGame
  BY <1>2 DEF AbandonGame
<1>3. ASSUME NEW player \in Side, NEW pos \in Hole, Move(player, pos) PROVE IInv'
  BY <1>3, MoveIInv
<1>4. CASE UNCHANGED vars
  BY <1>4 DEF vars
<1> QED
  BY <1>1, <1>2, <1>3, <1>4 DEF Next

THEOREM Invariance == Spec => []IInv
BY InitIInv, NextIInv, PTL DEF Spec

-----------------------------------------------------------------------------
(* Every variable keeps its type.                                          *)
THEOREM TypeCorrect == Spec => []TypeOK
<1>1. IInv => TypeOK
  BY DEF IInv
<1> QED
  BY <1>1, Invariance, PTL

(* No sequence of moves loses or makes a korgool.                          *)
THEOREM KorgoolsConserved == Spec => []Conservation
<1>1. IInv => Conservation
  BY DEF IInv
<1> QED
  BY <1>1, Invariance, PTL

(* A hole won as tuz stays empty, and the tuz rules hold throughout.       *)
THEOREM TuzEmpty == Spec => []TuzStaysEmpty
<1>1. IInv => TuzStaysEmpty
  BY DEF IInv
<1> QED
  BY <1>1, Invariance, PTL

(* "No moves available" is unreachable.                                    *)
THEOREM Playable == Spec => []InProgressPlayable
<1>1. IInv => InProgressPlayable
  BY DEF IInv, Undecided, InProgressPlayable
<1> QED
  BY <1>1, Invariance, PTL

(* The flag and the status of a game never disagree.                       *)
THEOREM FlagAgrees == Spec => []GameOverAgrees
<1>1. IInv => GameOverAgrees
  BY DEF IInv
<1> QED
  BY <1>1, Invariance, PTL

(* The verdict is the one the kazans justify.                              *)
THEOREM Verdicts == Spec => []VerdictJustified
<1>1. IInv => VerdictJustified
  BY DEF IInv
<1> QED
  BY <1>1, Invariance, PTL

-----------------------------------------------------------------------------
(* A tuz is never lost or moved, and its index never gains a korgool.      *)
THEOREM TuzForever == Spec => TuzIsForever
<1> DEFINE A == \A p \in Side : tuz[p] # NoTuz =>
                  /\ tuz'[p] = tuz[p]
                  /\ \A side \in Side : holes'[side][tuz[p]] <= holes[side][tuz[p]]
<1>1. IInv /\ [Next]_vars => [A]_vars
  <2> SUFFICES ASSUME IInv, Next PROVE A
    OBVIOUS
  <2>1. ASSUME NEW player \in Side, NEW pos \in Hole, Move(player, pos) PROVE A
    BY <2>1, MoveFact DEF MoveEffect
  <2>2. CASE UNCHANGED <<holes, tuz>>
    <3>1. \A p, side \in Side : tuz[p] # NoTuz => holes[side][tuz[p]] \in Nat
      BY DEF IInv, TypeOK, Tuzes, Holes, Row
    <3> QED
      BY <2>2, <3>1
  <2> QED
    BY <2>1, <2>2 DEF Next, StartGame, AbandonGame
<1> QED
  BY <1>1, Invariance, PTL DEF Spec, TuzIsForever

-----------------------------------------------------------------------------
(* Both players with a korgool means two korgools on the board.            *)
LEMMA TwoOnBoard ==
  ASSUME NEW h \in Holes, \A side \in Side : HasKorgools(h[side])
  PROVE  OnBoard(h) >= 2
<1>1. ASSUME NEW side \in Side PROVE RowSum(h[side]) \in Nat /\ RowSum(h[side]) >= 1
  <2>1. h[side] \in Row
    BY DEF Holes
  <2>2. PICK k \in Hole : h[side][k] > 0
    BY DEF HasKorgools
  <2>3. h[side][k] <= RowSum(h[side]) /\ RowSum(h[side]) \in Nat /\ h[side][k] \in Nat
    BY <2>1, RowSumBounds DEF Row
  <2> QED
    BY <2>2, <2>3
<1> QED
  BY <1>1 DEF OnBoard, Side

(* A move is a step of the contest: what left the board is in the kazans.  *)
LEMMA MovePlays ==
  ASSUME IInv, IInv', NEW player \in Side, NEW pos \in Hole, Move(player, pos)
  PROVE  C!Play
<1> DEFINE a == kazans'["top"] - kazans["top"]
           b == kazans'["down"] - kazans["down"]
<1>1. /\ kazans \in Kazans /\ kazans' \in Kazans
      /\ holes \in Holes /\ holes' \in Holes
  BY DEF IInv, TypeOK
<1>2. /\ kazans["top"] \in Nat /\ kazans["down"] \in Nat
      /\ kazans'["top"] \in Nat /\ kazans'["down"] \in Nat
      /\ OnBoard(holes) \in Nat /\ OnBoard(holes') \in Nat
  BY <1>1, OnBoardType DEF Kazans, Side
<1>3. kazans'["top"] >= kazans["top"] /\ kazans'["down"] >= kazans["down"]
  BY MoveFact DEF MoveEffect, Side
<1>4. /\ OnBoard(holes) + (kazans["top"] + kazans["down"]) = Total
      /\ OnBoard(holes') + (kazans'["top"] + kazans'["down"]) = Total
  BY DEF IInv, Conservation, InKazans
<1>5. /\ a \in 0..OnBoard(holes) /\ b \in 0..OnBoard(holes)
      /\ a + b <= OnBoard(holes)
      /\ OnBoard(holes') = OnBoard(holes) - a - b
  BY <1>2, <1>3, <1>4, NumbersFact
<1>6. kazans' = [kazans EXCEPT !["top"] = @ + a, !["down"] = @ + b]
  <2>1. kazans["top"] + a = kazans'["top"] /\ kazans["down"] + b = kazans'["down"]
    BY <1>2
  <2> HIDE DEF a, b
  <2>2. DOMAIN kazans = Side /\ DOMAIN kazans' = Side
    BY <1>1 DEF Kazans
  <2> QED
    BY <1>1, <2>1, <2>2 DEF Kazans, Side
<1>7. CASE status' = "IN_PROGRESS"
  <2>1. \A side \in Side : HasKorgools(holes'[side]) /\ kazans'[side] < WIN_SCORE
    BY <1>7 DEF IInv, Undecided
  <2>2. OnBoard(holes') >= 2
    BY <1>1, <2>1, TwoOnBoard
  <2>3. \A p \in C!Player : ~ C!Majority(kazans'[p])
    BY <1>2, <2>1, NumbersFact DEF C!Player, C!Majority, Side
  <2> QED
    BY <1>5, <1>6, <1>7, <2>2, <2>3 DEF C!Play, Move
<1>8. CASE status' # "IN_PROGRESS"
  <2>1. status' \in C!Verdict
    <3>1. status' = CheckGameEnd(holes', kazans')
      BY DEF Move
    <3>2. status' \in Verdict \union {"IN_PROGRESS"}
      BY <1>1, <3>1, CheckGameEndFact DEF IInv, Conservation
    <3> QED
      BY <1>8, <3>2 DEF C!Verdict, Verdict
  <2>2. C!Justified(status', kazans')
    BY <2>1 DEF C!Verdict, C!Justified, IInv, VerdictJustified
  <2> QED
    BY <1>5, <1>6, <2>1, <2>2 DEF C!Play, Move
<1> QED
  BY <1>7, <1>8

(* The detailed game implements the abstract contest.                      *)
THEOREM Refinement == Spec => ImplementsContest
<1>1. Init => C!Init
  BY StartFact DEF Init, C!Init, C!Player, StartKazans, Side
<1>2. IInv /\ IInv' /\ [Next]_vars => [C!Next]_(C!vars)
  <2> SUFFICES ASSUME IInv, IInv', [Next]_vars PROVE C!Next \/ UNCHANGED C!vars
    OBVIOUS
  <2>1. CASE StartGame
    BY <2>1 DEF StartGame, C!Next, C!Start
  <2>2. CASE AbandonGame
    BY <2>2 DEF AbandonGame, C!Next, C!Abandon
  <2>3. ASSUME NEW player \in Side, NEW pos \in Hole, Move(player, pos) PROVE C!Next
    BY <2>3, MovePlays DEF C!Next
  <2>4. CASE UNCHANGED vars
    BY <2>4 DEF vars, C!vars
  <2> QED
    BY <2>1, <2>2, <2>3, <2>4 DEF Next
<1> QED
  BY <1>1, <1>2, Invariance, PTL DEF Spec, C!Spec, ImplementsContest

-----------------------------------------------------------------------------
(* The sowing and the division.  The places of the route are numbered, and *)
(* the next place has the next number.                                     *)
LEMMA IndexFact ==
  ASSUME NEW z \in Side, NEW h \in Hole
  PROVE  /\ Index(z, h) \in 0..2 * NHoles - 1
         /\ \A y \in Side, g \in Hole : Index(y, g) = Index(z, h) => y = z /\ g = h
         /\ Index(NextPlace(z, h).side, NextPlace(z, h).pos)
              = IF Index(z, h) = 2 * NHoles - 1 THEN 0 ELSE Index(z, h) + 1
<1>1. NHoles \in Nat \ {0} /\ Last = NHoles - 1 /\ Hole = 0..NHoles - 1
  BY RingAssumption DEF Last, Hole
<1>2. \A y \in Side, g \in Hole : Index(y, g) = IF y = "top" THEN g ELSE 2 * NHoles - 1 - g
  BY DEF Index
<1>3. Index(z, h) \in 0..2 * NHoles - 1
  BY <1>1, <1>2
<1>4. \A y \in Side, g \in Hole : Index(y, g) = Index(z, h) => y = z /\ g = h
  BY <1>1, <1>2 DEF Side
<1>5. CASE z = "top"
  BY <1>1, <1>3, <1>4, <1>5 DEF Index, NextPlace
<1>6. CASE z = "down"
  BY <1>1, <1>3, <1>4, <1>6 DEF Index, NextPlace
<1> QED
  BY <1>5, <1>6 DEF Side

(* Another korgool arrives at a place if it is the next on the way there.  *)
LEMMA ArrivalsNext ==
  ASSUME NEW from \in 0..2 * NHoles - 1, NEW to \in 0..2 * NHoles - 1, NEW n \in Nat
  PROVE  /\ Arrivals(from, to, 0) = 0 /\ Arrivals(from, to, n) \in Nat
         /\ Arrivals(from, to, n + 1)
              = Arrivals(from, to, n) + (IF (from + n + 1) % (2 * NHoles) = to THEN 1 ELSE 0)
<1> DEFINE L == 2 * NHoles
           d == ((to - from - 1) % L) + 1
           place == (from + n + 1) % L
<1>1. L \in Nat \ {0} /\ from \in 0..L - 1 /\ to \in 0..L - 1
  BY RingAssumption
<1>2. \A m : Arrivals(from, to, m) = IF m < d THEN 0 ELSE ((m - d) \div L) + 1
  BY DEF Arrivals
<1> HIDE DEF L
<1>3. d \in 1..L /\ (from + d = to \/ from + d = to + L)
  <2>1. CASE to > from
    <3>1. to - from - 1 \in Int /\ to - from - 1 \in 0..L - 1
      BY <1>1, <2>1
    <3>2. (to - from - 1) % L = to - from - 1
      BY <1>1, <3>1, ModNear
    <3> QED
      BY <1>1, <2>1, <3>2
  <2>2. CASE ~ (to > from)
    <3>1. to - from - 1 \in Int /\ (to - from - 1) + L \in 0..L - 1
      BY <1>1, <2>2
    <3>2. (to - from - 1) % L = (to - from - 1) + L
      BY <1>1, <3>1, ModNear
    <3> QED
      BY <1>1, <2>2, <3>2
  <2> QED
    BY <2>1, <2>2
<1> HIDE DEF d
<1>4. Arrivals(from, to, 0) = 0
  BY <1>2, <1>3
<1>5. CASE n + 1 < d
  <2>1. Arrivals(from, to, n) = 0 /\ Arrivals(from, to, n + 1) = 0
    BY <1>2, <1>3, <1>5
  <2>2. place # to
    <3>1. CASE from + n + 1 < L
      <4>1. from + n + 1 \in Int /\ from + n + 1 \in 0..L - 1
        BY <1>1, <3>1
      <4>2. place = from + n + 1
        BY <1>1, <4>1, ModNear
      <4> QED
        BY <1>1, <1>3, <1>5, <4>2
    <3>2. CASE ~ (from + n + 1 < L)
      <4>1. from + n + 1 \in Int /\ (from + n + 1) - L \in 0..L - 1
        BY <1>1, <1>3, <1>5, <3>2
      <4>2. place = (from + n + 1) - L
        BY <1>1, <4>1, ModNear
      <4> QED
        BY <1>1, <1>3, <1>5, <4>2
    <3> QED
      BY <3>1, <3>2
  <2> HIDE DEF place
  <2> QED
    BY <1>4, <2>1, <2>2 DEF place, L
<1>6. CASE n + 1 >= d
  <2> DEFINE k == n + 1 - d
             q == k \div L
             r == k % L
  <2>1. k \in Nat /\ q \in Int /\ r \in 0..L - 1 /\ k = L * q + r
    <3>1. k \in Nat
      BY <1>3, <1>6
    <3> HIDE DEF k
    <3> QED
      BY <1>1, <3>1, DivModFact
  <2>2. q \in Nat
    <3> SUFFICES ASSUME q <= -1 PROVE FALSE
      BY <2>1
    <3> HIDE DEF q, r, k
    <3>1. L * (-q) >= L /\ L * (-q) = -(L * q) /\ L * q \in Int
      BY <1>1, <2>1, Product
    <3> QED
      BY <1>1, <2>1, <3>1
  <2>3. place = to <=> r = 0
    <3> HIDE DEF q, r
    <3>1. from + n + 1 = to + k \/ from + n + 1 = to + L + k
      BY <1>1, <1>3, <2>1
    <3> HIDE DEF k
    <3>2. PICK j \in Int : from + n + 1 = L * j + (to + r)
      <4>1. L * q \in Int /\ L * (q + 1) = L * q + L
        BY <1>1, <2>1
      <4>2. CASE from + n + 1 = to + k
        BY <1>1, <2>1, <4>1, <4>2
      <4>3. CASE from + n + 1 = to + L + k
        <5>1. from + n + 1 = L * (q + 1) + (to + r) /\ q + 1 \in Int
          BY <1>1, <2>1, <4>1, <4>3
        <5> QED
          BY <5>1
      <4> QED
        BY <3>1, <4>2, <4>3
    <3>3. from + n + 1 \in Int /\ to \in Int /\ r \in Int
      BY <1>1, <2>1
    <3>4. CASE to + r < L
      <4>1. to + r \in 0..L - 1
        BY <1>1, <2>1, <3>4
      <4>2. place = to + r
        BY <1>1, <3>2, <3>3, <4>1, DivModUnique
      <4> QED
        BY <3>3, <4>2
    <3>5. CASE ~ (to + r < L)
      <4>1. to + r - L \in 0..L - 1 /\ j + 1 \in Int
        BY <1>1, <2>1, <3>5
      <4>2. from + n + 1 = L * (j + 1) + (to + r - L)
        <5>1. L * (j + 1) = L * j + L /\ L * j \in Int
          BY <1>1, <3>2
        <5> QED
          BY <1>1, <3>2, <3>3, <5>1
      <4>3. place = to + r - L
        BY <1>1, <3>3, <4>1, <4>2, DivModUnique
      <4> QED
        BY <1>1, <2>1, <3>3, <3>5, <4>3
    <3> QED
      BY <3>4, <3>5
  <2>4. Arrivals(from, to, n + 1) = q + 1
    BY <1>2, <1>3, <1>6
  <2>5. CASE n < d
    <3>1. k = 0
      BY <1>3, <1>6, <2>5
    <3>2. k = L * 0 + 0 /\ 0 \in 0..L - 1
      BY <1>1, <3>1
    <3>3. q = 0 /\ r = 0
      BY <1>1, <2>1, <3>2, DivModUnique
    <3>4. Arrivals(from, to, n) = 0
      BY <1>2, <2>5
    <3> HIDE DEF place, q, r, k
    <3> QED
      BY <1>4, <2>3, <2>4, <3>3, <3>4 DEF place, L
  <2>6. CASE ~ (n < d)
    <3>1. n - d \in Nat /\ k = (n - d) + 1
      BY <1>3, <2>6
    <3>2. /\ r = IF (n - d) % L = L - 1 THEN 0 ELSE ((n - d) % L) + 1
          /\ q = ((n - d) \div L) + (IF (n - d) % L = L - 1 THEN 1 ELSE 0)
      BY <1>1, <3>1, DivModNext
    <3>3. (n - d) \div L \in Int /\ (n - d) % L \in 0..L - 1
      <4> DEFINE m == n - d
      <4>1. m \in Int
        BY <3>1
      <4> HIDE DEF m
      <4>2. m \div L \in Int /\ m % L \in 0..L - 1
        BY <1>1, <4>1, DivModFact
      <4> QED
        BY <4>2 DEF m
    <3>4. Arrivals(from, to, n) = ((n - d) \div L) + 1
      BY <1>2, <2>6
    <3> HIDE DEF place, q, r, k
    <3>5. q = ((n - d) \div L) + (IF r = 0 THEN 1 ELSE 0)
      BY <3>2, <3>3
    <3>6. Arrivals(from, to, n + 1)
            = Arrivals(from, to, n) + (IF place = to THEN 1 ELSE 0)
      BY <2>1, <2>3, <2>4, <3>3, <3>4, <3>5
    <3>7. (n - d) \div L >= 0
      <4>1. (n - d) \div L \in Nat
        BY <1>1, <3>1
      <4> QED
        BY <4>1
    <3> QED
      BY <1>4, <3>3, <3>4, <3>6, <3>7 DEF place, L
  <2> QED
    BY <2>5, <2>6
<1> QED
  BY <1>3, <1>5, <1>6

(* One turn of the loop, place by place.                                   *)
LEMMA DropEffect ==
  ASSUME NEW t \in Tuzes, NEW s \in Sowing
  PROVE  LET d == Drop(t, s)
             next == NextPlace(s.side, s.pos)
             taker == Taker(t, next.side, next.pos)
         IN  /\ d \in Sowing /\ d.side = next.side /\ d.pos = next.pos
             /\ \A z \in Side, h \in Hole :
                  d.holes[z][h] = s.holes[z][h]
                    + (IF taker = "none" /\ z = next.side /\ h = next.pos THEN 1 ELSE 0)
             /\ \A p \in Side : d.kazans[p] = s.kazans[p] + (IF taker = p THEN 1 ELSE 0)
<1> DEFINE next == NextPlace(s.side, s.pos)
           taker == Taker(t, next.side, next.pos)
           d == Drop(t, s)
<1>1. s.holes \in Holes /\ s.kazans \in Kazans /\ s.side \in Side /\ s.pos \in Hole
  BY DEF Sowing
<1>2. next.side \in Side /\ next.pos \in Hole
  BY <1>1, NextPlaceType
<1>3. taker \in Side \union {"none"}
  BY <1>2, TakerFact
<1>4. "none" \notin Side
  BY DEF Side
<1>5. d \in Sowing
  BY DropSowsOne DEF Sows
<1>6. /\ \A p \in Side : s.kazans[p] \in Nat
      /\ \A z \in Side, h \in Hole : s.holes[z][h] \in Nat
  BY <1>1 DEF Kazans, Holes, Row
<1>7. CASE taker \in Side
  <2> DEFINE new == Credit(s.kazans, taker, 1)
  <2>1. d = [holes |-> s.holes, kazans |-> new, side |-> next.side, pos |-> next.pos]
    BY <1>1, <1>7 DEF Drop, Sowing
  <2>2. \A q \in Side : new[q] = s.kazans[q] + (IF q = taker THEN 1 ELSE 0)
    BY <1>1, <1>7, InKazansExcept
  <2> HIDE DEF next, taker, new, d
  <2>3. d.holes = s.holes /\ d.kazans = new /\ d.side = next.side /\ d.pos = next.pos
    BY <2>1
  <2>4. taker # "none"
    BY <1>4, <1>7
  <2>5. \A z \in Side, h \in Hole :
          d.holes[z][h] = s.holes[z][h]
            + (IF taker = "none" /\ z = next.side /\ h = next.pos THEN 1 ELSE 0)
    BY <1>6, <2>3, <2>4
  <2>6. \A p \in Side : d.kazans[p] = s.kazans[p] + (IF taker = p THEN 1 ELSE 0)
    BY <2>2, <2>3
  <2> QED
    BY <1>5, <2>3, <2>5, <2>6 DEF d, next, taker
<1>8. CASE taker \notin Side
  <2> DEFINE old == s.holes[next.side][next.pos]
             new == SetHole(s.holes, next.side, next.pos, old + 1)
  <2>1. d = [holes |-> new, kazans |-> s.kazans, side |-> next.side, pos |-> next.pos]
    BY <1>1, <1>8 DEF Drop, Sowing
  <2>2. old + 1 \in Nat
    BY <1>2, <1>6
  <2>3. \A z \in Side, h \in Hole :
          new[z][h] = IF z = next.side /\ h = next.pos THEN old + 1 ELSE s.holes[z][h]
    <3> DEFINE v == old + 1
    <3>1. v \in Nat
      BY <2>2
    <3> HIDE DEF v, next
    <3>2. \A z \in Side, h \in Hole :
            SetHole(s.holes, next.side, next.pos, v)[z][h]
              = IF z = next.side /\ h = next.pos THEN v ELSE s.holes[z][h]
      BY <1>1, <1>2, <3>1, OnBoardExcept
    <3> QED
      BY <3>2 DEF v
  <2> HIDE DEF next, taker, new, d
  <2>4. d.holes = new /\ d.kazans = s.kazans /\ d.side = next.side /\ d.pos = next.pos
    BY <2>1
  <2>5. taker = "none"
    BY <1>3, <1>8
  <2>6. \A z \in Side, h \in Hole :
          d.holes[z][h] = s.holes[z][h]
            + (IF taker = "none" /\ z = next.side /\ h = next.pos THEN 1 ELSE 0)
    BY <1>6, <2>3, <2>4, <2>5
  <2>7. \A p \in Side : d.kazans[p] = s.kazans[p] + (IF taker = p THEN 1 ELSE 0)
    BY <1>4, <1>6, <2>4, <2>5
  <2> QED
    BY <1>5, <2>4, <2>6, <2>7 DEF d, next, taker
<1> QED
  BY <1>7, <1>8

(* The places whose korgools a player takes, and how many arrive there.    *)
Takes(t, p) == {zh \in Side \X Hole : Taker(t, zh[1], zh[2]) = p}
Arriving(t, p, from, n) == [zh \in Takes(t, p) |-> Arrivals(from, Index(zh[1], zh[2]), n)]

(* What the division says of n korgools sown from s.                       *)
Divided(t, s, n, d) ==
  LET from == Index(s.side, s.pos)
  IN  /\ d \in Sowing
      /\ Index(d.side, d.pos) = (from + n) % (2 * NHoles)
      /\ \A z \in Side, h \in Hole :
           d.holes[z][h] = s.holes[z][h]
             + (IF Taker(t, z, h) = "none" THEN Arrivals(from, Index(z, h), n) ELSE 0)
      /\ \A p \in Side : d.kazans[p] = s.kazans[p] + SumOver(Arriving(t, p, from, n))

LEMMA ArrivingFact ==
  ASSUME NEW t \in Tuzes, NEW p \in Side, NEW from \in 0..2 * NHoles - 1, NEW n \in Nat
  PROVE  /\ IsFiniteSet(Takes(t, p)) /\ Arriving(t, p, from, n) \in [Takes(t, p) -> Nat]
         /\ SumOver(Arriving(t, p, from, n)) \in Nat
<1>1. IsFiniteSet(Takes(t, p))
  <2>1. IsFiniteSet(Side)
    <3>1. Side = {"top"} \union {"down"}
      BY DEF Side
    <3> QED
      BY <3>1, FS_Singleton, FS_Union
  <2>2. IsFiniteSet(Hole)
    BY LastFact, FS_Interval DEF Hole
  <2>3. IsFiniteSet(Side \X Hole)
    BY <2>1, <2>2, FS_Product
  <2> QED
    BY <2>3, FS_Subset DEF Takes
<1>2. Arriving(t, p, from, n) \in [Takes(t, p) -> Nat]
  <2>1. ASSUME NEW zh \in Takes(t, p)
        PROVE  Arrivals(from, Index(zh[1], zh[2]), n) \in Nat
    <3>1. zh[1] \in Side /\ zh[2] \in Hole
      BY DEF Takes
    <3>2. Index(zh[1], zh[2]) \in 0..2 * NHoles - 1
      BY <3>1, IndexFact
    <3> QED
      BY <3>2, ArrivalsNext
  <2> QED
    BY <2>1 DEF Arriving
<1> QED
  BY <1>1, <1>2, SumType

LEMMA NothingSown ==
  ASSUME NEW t \in Tuzes, NEW s \in Sowing
  PROVE  Divided(t, s, 0, s)
<1> DEFINE from == Index(s.side, s.pos)
<1>1. s.side \in Side /\ s.pos \in Hole
  BY SowingTypes
<1>2. from \in 0..2 * NHoles - 1
  BY <1>1, IndexFact
<1>3. /\ \A p \in Side : s.kazans[p] \in Nat
      /\ \A z \in Side, h \in Hole : s.holes[z][h] \in Nat
  BY SowingTypes DEF Holes, Row
<1>4. from = (from + 0) % (2 * NHoles)
  <2> DEFINE L == 2 * NHoles
  <2>1. L \in Nat \ {0}
    BY RingAssumption
  <2> HIDE DEF from, L
  <2>2. from \in Int /\ from + 0 = from /\ from \in 0..L - 1
    BY <1>2, <2>1 DEF L
  <2>3. from % L = from
    BY <2>1, <2>2, ModNear
  <2> QED
    BY <2>2, <2>3 DEF L
<1> HIDE DEF from
<1>5. ASSUME NEW z \in Side, NEW h \in Hole
      PROVE  s.holes[z][h] = s.holes[z][h]
               + (IF Taker(t, z, h) = "none" THEN Arrivals(from, Index(z, h), 0) ELSE 0)
  <2>1. Arrivals(from, Index(z, h), 0) = 0
    BY <1>2, IndexFact, ArrivalsNext
  <2> QED
    BY <1>3, <2>1
<1>6. ASSUME NEW p \in Side
      PROVE  s.kazans[p] = s.kazans[p] + SumOver(Arriving(t, p, from, 0))
  <2> DEFINE f == Arriving(t, p, from, 0)
             T == Takes(t, p)
  <2>1. ASSUME NEW zh \in Takes(t, p) PROVE Arriving(t, p, from, 0)[zh] = 0
    <3>1. zh[1] \in Side /\ zh[2] \in Hole
      BY DEF Takes
    <3>2. Arrivals(from, Index(zh[1], zh[2]), 0) = 0
      BY <1>2, <3>1, IndexFact, ArrivalsNext
    <3> QED
      BY <3>2 DEF Arriving
  <2>2. IsFiniteSet(T) /\ f \in [T -> Nat] /\ \A zh \in T : f[zh] = 0
    BY <1>2, <2>1, ArrivingFact
  <2> HIDE DEF f, T
  <2>3. SumOver(f) = 0
    BY <2>2, SumZero
  <2> QED
    BY <1>3, <2>3 DEF f
<1> QED
  BY <1>4, <1>5, <1>6 DEF Divided, from


LEMMA OneMoreSown ==
  ASSUME NEW t \in Tuzes, NEW s \in Sowing, NEW n \in Nat, NEW d, Divided(t, s, n, d)
  PROVE  Divided(t, s, n + 1, Drop(t, d))
<1> DEFINE L == 2 * NHoles
           from == Index(s.side, s.pos)
           e == Drop(t, d)
           next == NextPlace(d.side, d.pos)
           taker == Taker(t, next.side, next.pos)
<1>1. /\ d \in Sowing /\ Index(d.side, d.pos) = (from + n) % L
      /\ \A z \in Side, h \in Hole :
           d.holes[z][h] = s.holes[z][h]
             + (IF Taker(t, z, h) = "none" THEN Arrivals(from, Index(z, h), n) ELSE 0)
      /\ \A p \in Side : d.kazans[p] = s.kazans[p] + SumOver(Arriving(t, p, from, n))
  BY DEF Divided
<1>2. /\ s.side \in Side /\ s.pos \in Hole /\ d.side \in Side /\ d.pos \in Hole
      /\ \A p \in Side : s.kazans[p] \in Nat
      /\ \A z \in Side, h \in Hole : s.holes[z][h] \in Nat
  BY <1>1, SowingTypes DEF Holes, Row
<1>3. next.side \in Side /\ next.pos \in Hole
  BY <1>2, NextPlaceType
<1>4. from \in 0..L - 1
  BY <1>2, IndexFact
<1>5. /\ e \in Sowing /\ e.side = next.side /\ e.pos = next.pos
      /\ \A z \in Side, h \in Hole :
           e.holes[z][h] = d.holes[z][h]
             + (IF taker = "none" /\ z = next.side /\ h = next.pos THEN 1 ELSE 0)
      /\ \A p \in Side : e.kazans[p] = d.kazans[p] + (IF taker = p THEN 1 ELSE 0)
  BY <1>1, DropEffect
<1> DEFINE place == (from + n + 1) % L
<1>6. Index(next.side, next.pos) = place
  <2>1. Index(next.side, next.pos)
          = IF Index(d.side, d.pos) = L - 1 THEN 0 ELSE Index(d.side, d.pos) + 1
    BY <1>2, IndexFact
  <2>2. L \in Nat \ {0} /\ from \in Nat
    BY <1>4, RingAssumption
  <2> HIDE DEF L, from, next
  <2> DEFINE m == from + n
  <2>3. m \in Nat
    BY <2>2
  <2> HIDE DEF m
  <2>4. (m + 1) % L = IF m % L = L - 1 THEN 0 ELSE (m % L) + 1
    BY <2>2, <2>3, DivModNext
  <2> QED
    BY <1>1, <2>1, <2>4 DEF m
<1>7. ASSUME NEW z \in Side, NEW h \in Hole
      PROVE  /\ Arrivals(from, Index(z, h), n) \in Nat
             /\ Arrivals(from, Index(z, h), n + 1)
                  = Arrivals(from, Index(z, h), n)
                      + (IF z = next.side /\ h = next.pos THEN 1 ELSE 0)
  <2>1. Index(z, h) \in 0..L - 1
    BY IndexFact
  <2>2. /\ Arrivals(from, Index(z, h), n) \in Nat
        /\ Arrivals(from, Index(z, h), n + 1)
             = Arrivals(from, Index(z, h), n) + (IF place = Index(z, h) THEN 1 ELSE 0)
    BY <1>4, <2>1, ArrivalsNext
  <2>3. place = Index(z, h) <=> z = next.side /\ h = next.pos
    BY <1>3, <1>6, IndexFact
  <2> HIDE DEF place, next
  <2> QED
    BY <2>2, <2>3
<1>8. Index(e.side, e.pos) = (from + (n + 1)) % L
  <2>1. from + n + 1 = from + (n + 1)
    BY <1>4
  <2> QED
    BY <1>5, <1>6, <2>1
<1> HIDE DEF from, e, next, place
<1>9. ASSUME NEW z \in Side, NEW h \in Hole
      PROVE  e.holes[z][h] = s.holes[z][h]
               + (IF Taker(t, z, h) = "none" THEN Arrivals(from, Index(z, h), n + 1) ELSE 0)
  <2> DEFINE a == Arrivals(from, Index(z, h), n)
             b == Arrivals(from, Index(z, h), n + 1)
             here == Taker(t, z, h) = "none"
  <2>1. a \in Nat /\ b = a + (IF z = next.side /\ h = next.pos THEN 1 ELSE 0)
    BY <1>7
  <2>2. d.holes[z][h] = s.holes[z][h] + (IF here THEN a ELSE 0) /\ s.holes[z][h] \in Nat
    BY <1>1, <1>2
  <2>3. e.holes[z][h] = d.holes[z][h]
          + (IF taker = "none" /\ z = next.side /\ h = next.pos THEN 1 ELSE 0)
    BY <1>5
  <2>4. z = next.side /\ h = next.pos => (taker = "none" <=> here)
    OBVIOUS
  <2> HIDE DEF a, b, here, taker
  <2>5. e.holes[z][h] = s.holes[z][h] + (IF here THEN b ELSE 0)
    <3>1. CASE z = next.side /\ h = next.pos /\ here
      BY <2>1, <2>2, <2>3, <2>4, <3>1
    <3>2. CASE z = next.side /\ h = next.pos /\ ~ here
      BY <2>1, <2>2, <2>3, <2>4, <3>2
    <3>3. CASE ~ (z = next.side /\ h = next.pos)
      BY <2>1, <2>2, <2>3, <3>3
    <3> QED
      BY <3>1, <3>2, <3>3
  <2> QED
    BY <2>5 DEF b, here
<1>10. ASSUME NEW p \in Side
       PROVE  e.kazans[p] = s.kazans[p] + SumOver(Arriving(t, p, from, n + 1))
  <2> DEFINE T == Takes(t, p)
             f == Arriving(t, p, from, n)
             g == Arriving(t, p, from, n + 1)
             y == <<next.side, next.pos>>
  <2>1. IsFiniteSet(T) /\ f \in [T -> Nat] /\ SumOver(f) \in Nat
    BY <1>4, ArrivingFact
  <2>2. n + 1 \in Nat
    OBVIOUS
  <2>3. g \in [T -> Nat]
    BY <1>4, <2>2, ArrivingFact
  <2>4. ASSUME NEW zh \in T PROVE g[zh] = f[zh] + (IF zh = y THEN 1 ELSE 0)
    <3>1. zh[1] \in Side /\ zh[2] \in Hole /\ zh = <<zh[1], zh[2]>>
      BY DEF Takes
    <3>2. /\ Arrivals(from, Index(zh[1], zh[2]), n + 1)
               = Arrivals(from, Index(zh[1], zh[2]), n)
                   + (IF zh[1] = next.side /\ zh[2] = next.pos THEN 1 ELSE 0)
      BY <1>7, <3>1
    <3>3. zh = y <=> zh[1] = next.side /\ zh[2] = next.pos
      BY <3>1
    <3>4. g[zh] = Arrivals(from, Index(zh[1], zh[2]), n + 1)
      BY DEF Arriving
    <3>5. f[zh] = Arrivals(from, Index(zh[1], zh[2]), n)
      BY DEF Arriving
    <3> HIDE DEF f, g, y
    <3> QED
      BY <3>2, <3>3, <3>4, <3>5
  <2>5. y \in T <=> taker = p
    BY <1>3 DEF Takes
  <2>6. d.kazans[p] = s.kazans[p] + SumOver(f) /\ s.kazans[p] \in Nat
    BY <1>1, <1>2
  <2>7. e.kazans[p] = d.kazans[p] + (IF taker = p THEN 1 ELSE 0)
    BY <1>5
  <2> HIDE DEF T, f, g, y, taker
  <2>8. CASE y \in T
    <3>1. SumOver(g) = SumOver(f) + 1
      BY <2>1, <2>3, <2>4, <2>8, SumIncrement
    <3>2. e.kazans[p] = s.kazans[p] + SumOver(g)
      BY <2>1, <2>5, <2>6, <2>7, <2>8, <3>1
    <3> QED
      BY <3>2 DEF g
  <2>9. CASE y \notin T
    <3>1. \A zh \in T : g[zh] = f[zh]
      <4>1. \A zh \in T : f[zh] \in Nat /\ zh # y
        BY <2>1, <2>9
      <4> QED
        BY <2>4, <4>1
    <3>2. g = f
      BY <2>1, <2>3, <3>1
    <3>3. e.kazans[p] = s.kazans[p] + SumOver(g)
      BY <2>1, <2>5, <2>6, <2>7, <2>9, <3>2
    <3> QED
      BY <3>3 DEF g
  <2> QED
    BY <2>8, <2>9
<1> QED
  BY <1>5, <1>8, <1>9, <1>10 DEF Divided, e, from

(* The loop, however many korgools.                                        *)
LEMMA SowDivides ==
  ASSUME NEW t \in Tuzes, NEW s \in Sowing, NEW n \in Nat
  PROVE  Divided(t, s, n, Sow(t, s, n))
<1>1. PICK after : /\ after[0] = s /\ Sow(t, s, n) = after[n]
                   /\ \A i \in 0..n : i # 0 => after[i] = Drop(t, after[i - 1])
  BY SowTable
<1> DEFINE P == {i \in Nat : i \in 0..n => Divided(t, s, i, after[i])}
<1>2. 0 \in P
  BY <1>1, NothingSown
<1>3. ASSUME NEW i \in P PROVE i + 1 \in P
  <2> SUFFICES ASSUME i + 1 \in 0..n PROVE Divided(t, s, i + 1, after[i + 1])
    OBVIOUS
  <2>1. i \in Nat /\ Divided(t, s, i, after[i])
    OBVIOUS
  <2>2. after[i + 1] = Drop(t, after[i])
    <3>1. i + 1 # 0 /\ (i + 1) - 1 = i
      BY <2>1
    <3> QED
      BY <1>1, <3>1
  <2> QED
    BY <2>1, <2>2, OneMoreSown
<1>4. P = Nat
  <2> HIDE DEF P
  <2>1. P \subseteq Nat
    BY DEF P
  <2> QED
    BY <1>2, <1>3, <2>1, SetInduction
<1>5. n \in P
  BY <1>4
<1> QED
  BY <1>1, <1>5

(* On every board and for every move, distribute_korgools puts into each   *)
(* hole and each kazan, and ends at, what the division says.               *)
THEOREM MoveDivides ==
  ASSUME NEW board \in Holes, NEW scores \in Kazans, NEW t \in Tuzes,
         NEW player \in Side, NEW pos \in Hole
  PROVE  LET n == board[player][pos]
             from == Index(player, pos)
             s == Sown(board, scores, t, player, pos)
         IN  /\ n \in Nat /\ s \in Sowing
             /\ Index(s.side, s.pos) = (from + n) % (2 * NHoles)
             /\ \A z \in Side, h \in Hole :
                  s.holes[z][h] = (IF z = player /\ h = pos THEN 0 ELSE board[z][h])
                    + (IF Taker(t, z, h) = "none" THEN Arrivals(from, Index(z, h), n) ELSE 0)
             /\ \A p \in Side : s.kazans[p] = scores[p] + SumOver(Arriving(t, p, from, n))
<1> DEFINE n == board[player][pos]
           lifted == Lift(board, scores, player, pos)
           s == Sown(board, scores, t, player, pos)
<1>1. lifted \in Sowing /\ n \in Nat
  BY LiftFact
<1>2. s = Sow(t, lifted, n)
  BY DEF Sown
<1>3. lifted.kazans = scores /\ lifted.side = player /\ lifted.pos = pos
  BY DEF Lift
<1>4. \A z \in Side, h \in Hole :
        lifted.holes[z][h] = IF z = player /\ h = pos THEN 0 ELSE board[z][h]
  BY OnBoardExcept DEF Lift
<1> HIDE DEF n, lifted, s
<1>5. Divided(t, lifted, n, s)
  BY <1>1, <1>2, SowDivides
<1> QED
  BY <1>1, <1>3, <1>4, <1>5 DEF Divided, n, s

(* In every reachable state the loop of distribute_korgools agrees with    *)
(* the division for every move: SowingByDivision of the run, on every      *)
(* board.                                                                  *)
THEOREM SowingIsDivision == Spec => []SowingByDivision
<1>1. TypeOK => SowingByDivision
  <2> SUFFICES ASSUME TypeOK PROVE SowingByDivision
    OBVIOUS
  <2>1. holes \in Holes /\ kazans \in Kazans /\ tuz \in Tuzes
    BY DEF TypeOK
  <2> QED
    BY <2>1, MoveDivides DEF SowingByDivision, Arriving, Takes
<1> QED
  BY <1>1, TypeCorrect, PTL


(* Less than once around, the last place gets one korgool.                 *)
LEMMA ArrivesOnce ==
  ASSUME NEW from \in 0..2 * NHoles - 1, NEW n \in 1..2 * NHoles - 1
  PROVE  Arrivals(from, (from + n) % (2 * NHoles), n) = 1
<1> DEFINE L == 2 * NHoles
           to == (from + n) % L
           d == ((to - from - 1) % L) + 1
<1>1. L \in Nat \ {0} /\ from \in 0..L - 1 /\ n \in 1..L - 1
  BY RingAssumption
<1>2. Arrivals(from, to, n) = IF n < d THEN 0 ELSE ((n - d) \div L) + 1
  BY DEF Arrivals
<1> HIDE DEF L
<1>3. d = n
  <2>1. CASE from + n < L
    <3>1. from + n \in Int /\ from + n \in 0..L - 1
      BY <1>1, <2>1
    <3>2. to = from + n
      BY <1>1, <3>1, ModNear
    <3>3. to - from - 1 = n - 1 /\ n - 1 \in Int /\ n - 1 \in 0..L - 1
      BY <1>1, <3>2
    <3> HIDE DEF to
    <3>4. (n - 1) % L = n - 1
      BY <1>1, <3>3, ModNear
    <3> QED
      BY <1>1, <3>3, <3>4
  <2>2. CASE ~ (from + n < L)
    <3>1. from + n \in Int /\ (from + n) - L \in 0..L - 1
      BY <1>1, <2>2
    <3>2. to = (from + n) - L
      BY <1>1, <3>1, ModNear
    <3> DEFINE m == to - from - 1
    <3>3. m \in Int /\ m + L = n - 1 /\ m + L \in 0..L - 1
      BY <1>1, <3>2
    <3> HIDE DEF m
    <3>4. m % L = m + L
      BY <1>1, <3>3, ModNear
    <3> QED
      BY <1>1, <3>3, <3>4 DEF m
  <2> QED
    BY <2>1, <2>2
<1> HIDE DEF d, to
<1>4. (n - d) \div L = 0
  <2>1. 0 \div L = 0
    BY <1>1
  <2>2. n - d = 0
    BY <1>1, <1>3
  <2> QED
    BY <2>1, <2>2
<1>5. Arrivals(from, to, n) = 1
  BY <1>1, <1>2, <1>3, <1>4
<1> QED
  BY <1>5 DEF to, L

(* What calculateTuzProb says of the top player's move is what the move    *)
(* does, on a board without tuzes and for a move that does not come around *)
(* to its start.                                                           *)
LEMMA ForecastFact ==
  ASSUME TypeOK, NEW pos \in Hole \ {Last}, holes["top"][pos] \in 1..(2 * NHoles - 1),
         \A p \in Side : tuz[p] = NoTuz
  PROVE  LET s == CheckCapture(Sown(holes, kazans, tuz, "top", pos), "top")
         IN  ForecastsTuz(holes, tuz, "top", pos) <=> WinsTuz(s, tuz, "top")
<1> DEFINE L == 2 * NHoles
           n == holes["top"][pos]
           s == Sown(holes, kazans, tuz, "top", pos)
           c == CheckCapture(s, "top")
           linear == (pos + n) % L
           hole == L - 1 - linear
<1>1. holes \in Holes /\ kazans \in Kazans /\ tuz \in Tuzes /\ "top" \in Side
  BY DEF TypeOK, Side
<1>2. /\ NHoles \in Nat \ {0} /\ L \in Nat \ {0} /\ L = 2 * NHoles
      /\ Last = NHoles - 1 /\ Hole = 0..NHoles - 1
  BY RingAssumption DEF Last, Hole
<1>3. Index("top", pos) = pos /\ pos \in 0..L - 1 /\ n \in 1..L - 1
  BY <1>2 DEF Index
<1>4. /\ s \in Sowing /\ Index(s.side, s.pos) = linear
      /\ \A z \in Side, h \in Hole :
           s.holes[z][h] = (IF z = "top" /\ h = pos THEN 0 ELSE holes[z][h])
             + (IF Taker(tuz, z, h) = "none" THEN Arrivals(pos, Index(z, h), n) ELSE 0)
  BY <1>1, <1>3, MoveDivides
<1>5. s.side \in Side /\ s.pos \in Hole /\ linear \in 0..L - 1
  BY <1>4, SowingTypes, IndexFact
<1>6. Arrivals(pos, linear, n) = 1
  BY <1>3, ArrivesOnce
<1>7. \A z \in Side, h \in Hole : Taker(tuz, z, h) = "none"
  <2>1. \A z \in Side : Opponent(z) \in Side
    BY DEF Side, Opponent
  <2>2. \A z \in Side, h \in Hole : tuz[z] # h /\ tuz[Opponent(z)] # h
    BY <1>2, <2>1 DEF NoTuz
  <2> QED
    BY <2>2 DEF Taker
<1>8. ForecastsTuz(holes, tuz, "top", pos)
        <=> linear >= NHoles /\ hole # Last /\ holes["down"][hole] + 1 = 3
  <2>1. FinalLinear("top", pos, n) = linear
    BY DEF FinalLinear, LinearStart
  <2>2. LandsOnOpponent("top", linear) <=> linear >= NHoles
    BY DEF LandsOnOpponent
  <2>3. linear >= NHoles => FinalHole("top", linear) = hole
    BY <1>2, <1>5 DEF FinalHole
  <2>4. tuz["top"] = NoTuz /\ n > 0 /\ pos # Last /\ Opponent("top") = "down"
    BY <1>1, <1>3 DEF Opponent
  <2> HIDE DEF linear, hole
  <2>5. ForecastsTuz(holes, tuz, "top", pos)
          <=> /\ LandsOnOpponent("top", linear) /\ FinalHole("top", linear) # Last
              /\ holes["down"][FinalHole("top", linear)] + 1 = 3
    BY <2>1, <2>4 DEF ForecastsTuz
  <2> QED
    BY <2>2, <2>3, <2>5
<1> HIDE DEF linear, n, s
<1>9. CASE s.side = "top"
  <2>1. ~ (linear >= NHoles)
    BY <1>2, <1>4, <1>5, <1>9 DEF Index
  <2>2. c = s
    BY <1>9 DEF CheckCapture
  <2>3. ~ WinsTuz(c, tuz, "top")
    BY <1>9, <2>2 DEF WinsTuz
  <2> QED
    BY <1>8, <2>1, <2>3 DEF s
<1>10. CASE s.side = "down"
  <2>1. linear = L - 1 - s.pos
    BY <1>2, <1>4, <1>10 DEF Index
  <2>2. linear >= NHoles /\ hole = s.pos
    BY <1>2, <1>5, <2>1
  <2>3. Index("down", s.pos) = linear /\ "down" \in Side
    BY <1>4, <1>10 DEF Side
  <2>4. InLastHole(s) = holes["down"][hole] + 1 /\ holes["down"][hole] \in Nat
    <3>1. holes["down"][s.pos] \in Nat
      BY <1>1, <1>5, <2>3 DEF Holes, Row
    <3>2. s.holes["down"][s.pos] = holes["down"][s.pos] + 1
      BY <1>4, <1>5, <1>6, <1>7, <2>3, <3>1
    <3> QED
      BY <1>10, <2>2, <3>1, <3>2 DEF InLastHole
  <2>5. c \in Sowing /\ c.side = "down" /\ c.pos = s.pos
    <3>1. /\ Collect(s, "top") \in Sowing
          /\ Collect(s, "top").side = s.side /\ Collect(s, "top").pos = s.pos
      BY <1>1, <1>4, CollectFact
    <3> QED
      BY <1>4, <1>10, <3>1 DEF CheckCapture
  <2>6. InLastHole(c) = 3 <=> InLastHole(s) = 3
    <3> DEFINE last == InLastHole(s)
    <3>1. CASE s.side # "top" /\ last % 2 = 0 /\ last > 0
      <4>1. c = Collect(s, "top")
        BY <3>1 DEF CheckCapture
      <4>2. InLastHole(c) = 0
        BY <1>1, <1>4, <4>1, CollectFact DEF InLastHole
      <4> HIDE DEF last
      <4>3. last # 3
        BY <3>1
      <4> QED
        BY <4>2, <4>3 DEF last
    <3>2. CASE ~ (s.side # "top" /\ last % 2 = 0 /\ last > 0)
      BY <3>2 DEF CheckCapture
    <3> QED
      BY <3>1, <3>2
  <2>7. tuz["top"] = NoTuz /\ tuz[Opponent("top")] # s.pos
    BY <1>1, <1>2, <1>5 DEF Opponent, Side, NoTuz
  <2> HIDE DEF c, hole
  <2>8. WinsTuz(c, tuz, "top") <=> InLastHole(s) = 3 /\ s.pos # Last
    BY <2>5, <2>6, <2>7 DEF WinsTuz
  <2> QED
    BY <1>8, <2>2, <2>4, <2>8 DEF c, s
<1> QED
  BY <1>5, <1>9, <1>10 DEF Side

(* The forecast by which MoveSelector ranks the top player's moves is      *)
(* exact in every reachable state, on every board: the invariant           *)
(* TopForecastIsExact of the run.                                          *)
THEOREM ForecastIsExact == Spec => []TopForecastIsExact
<1>1. TypeOK => TopForecastIsExact
  BY ForecastFact DEF TopForecastIsExact
<1> QED
  BY <1>1, TypeCorrect, PTL

=============================================================================
