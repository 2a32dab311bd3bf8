-------------------------- MODULE GameServer_proofs --------------------------
(***************************************************************************)
(* Proofs about GameServer, for any persons, descriptors and ratings.      *)
(***************************************************************************)
EXTENDS GameServer, FiniteSetTheorems, WellFoundedInduction, TLAPS

(***************************************************************************)
(* What the operators of MatchQueue do, for any list of players.           *)
(***************************************************************************)
(* A set of naturals with a member has a least one.                        *)
LEMMA LeastElement ==
  ASSUME NEW T \in SUBSET Nat, T # {}
  PROVE  \E m \in T : \A k \in T : m <= k
<1> DEFINE R == OpToRel(<, Nat)
<1>1. IsWellFoundedOn(R, Nat)
  BY NatLessThanWellFounded
<1>2. PICK m \in T : \A k \in T : ~ (<<k, m>> \in R)
  <2> HIDE DEF R
  <2> QED
    BY <1>1, WFMin
<1>3. ASSUME NEW k \in T PROVE m <= k
  <2>1. SUFFICES ASSUME k < m PROVE FALSE
    OBVIOUS
  <2>2. <<k, m>> \in R
    BY <2>1 DEF OpToRel
  <2> QED
    BY <1>2, <2>2
<1> QED
  BY <1>3

Rated(S) == \A p \in S : p.rating \in Nat /\ p.joinTime \in Nat

(* Players of one rating and one second cannot both wait.                  *)
DistinctKeys(S) == \A p, q \in S : p # q => ~ SameKey(p, q)

(* begin() of the set, and of what a search leaves of it, exists.          *)
LEMMA FirstFact ==
  ASSUME NEW S, S # {}, Rated(S), DistinctKeys(S)
  PROVE  First(S) \in S
<1> DEFINE ratings == {p.rating : p \in S}
<1>1. ratings \in SUBSET Nat /\ ratings # {}
  BY DEF Rated
<1>2. PICK r \in ratings : \A k \in ratings : r <= k
  <2> HIDE DEF ratings
  <2> QED
    BY <1>1, LeastElement
<1> DEFINE times == {p.joinTime : p \in {q \in S : q.rating = r}}
<1>3. times \in SUBSET Nat /\ times # {}
  BY <1>2 DEF Rated
<1>4. PICK j \in times : \A k \in times : j <= k
  <2> HIDE DEF times
  <2> QED
    BY <1>3, LeastElement
<1>5. PICK p \in S : p.rating = r /\ p.joinTime = j
  BY <1>4
<1>6. ASSUME NEW o \in S \ {p} PROVE Before(p, o)
  <2>1. /\ o.rating \in Int /\ o.joinTime \in Int /\ p.rating \in Int /\ p.joinTime \in Int
    BY DEF Rated
  <2>2. p.rating <= o.rating
    BY <1>2, <1>5
  <2>3. o.rating = p.rating => p.joinTime <= o.joinTime
    BY <1>4, <1>5
  <2>4. ~ SameKey(p, o)
    BY DEF DistinctKeys
  <2> QED
    BY <2>1, <2>2, <2>3, <2>4 DEF SameKey, Before
<1>7. \E q \in S : \A o \in S \ {q} : Before(q, o)
  BY <1>6
<1> QED
  BY <1>7 DEF First

(* What tryFindMatch takes: two players of the list, the second within the *)
(* first one's range.                                                      *)
LEMMA FindMatchFact ==
  ASSUME NEW Q, Rated(Q), DistinctKeys(Q), NEW n, HasMatch(Q, n),
         NEW m, m = FindMatch(Q, n)
  PROVE  /\ m \in [first : Q, second : Q] /\ m.first # m.second
         /\ m.second \in Candidates(Q, m.first, n)
<1>1. Seekers(Q, n) \in SUBSET Q /\ Seekers(Q, n) # {}
  BY DEF Seekers, HasMatch
<1>2. First(Seekers(Q, n)) \in Seekers(Q, n)
  <2>1. DistinctKeys(Seekers(Q, n)) /\ Rated(Seekers(Q, n))
    BY <1>1 DEF DistinctKeys, Rated
  <2> QED
    BY <1>1, <2>1, FirstFact
<1> DEFINE f == First(Seekers(Q, n))
<1>3. f \in Q /\ Candidates(Q, f, n) # {}
  BY <1>1, <1>2 DEF Seekers
<1>4. m = [first |-> f, second |-> First(Candidates(Q, f, n))]
  BY DEF FindMatch
<1> HIDE DEF f
<1>5. Candidates(Q, f, n) \in SUBSET Q /\ f \notin Candidates(Q, f, n)
  BY DEF Candidates
<1>6. First(Candidates(Q, f, n)) \in Candidates(Q, f, n)
  <2>1. DistinctKeys(Candidates(Q, f, n)) /\ Rated(Candidates(Q, f, n))
    BY <1>5 DEF DistinctKeys, Rated
  <2> QED
    BY <1>3, <2>1, FirstFact
<1>7. m.first = f /\ m.second = First(Candidates(Q, f, n))
  BY <1>4
<1> QED
  BY <1>3, <1>4, <1>5, <1>6, <1>7

(* The set takes one player at most for each rating and second.            *)
LEMMA InsertFact ==
  ASSUME NEW Q, DistinctKeys(Q), NEW p
  PROVE  /\ DistinctKeys(Insert(Q, p))
         /\ Insert(Q, p) = Q \/ Insert(Q, p) = Q \union {p}
         /\ Insert(Q, p) = Q => p \in Q \/ \E o \in Q : SameKey(o, p)
<1>1. CASE \E o \in Q : SameKey(o, p)
  BY <1>1 DEF Insert
<1>2. CASE ~ \E o \in Q : SameKey(o, p)
  <2>1. Insert(Q, p) = Q \union {p}
    BY <1>2 DEF Insert
  <2>2. \A o \in Q : ~ SameKey(o, p) /\ ~ SameKey(p, o)
    BY <1>2 DEF SameKey
  <2> QED
    BY <2>1, <2>2 DEF DistinctKeys
<1> QED
  BY <1>1, <1>2

-----------------------------------------------------------------------------

LEMMA WaitingRated ==
  ASSUME NEW S \in SUBSET Waiting
  PROVE  Rated(S)
<1>1. ASSUME NEW p \in S PROVE p.rating \in Nat /\ p.joinTime \in Nat
  <2>1. p.rating \in Rating /\ p.joinTime \in 0..LastSecond
    BY DEF Waiting
  <2>2. p.rating \in Nat
    BY <2>1, GameServerAssumption
  <2>3. p.joinTime \in Nat
    BY <2>1, GameServerAssumption
  <2> QED
    BY <2>2, <2>3
<1> QED
  BY <1>1 DEF Rated

-----------------------------------------------------------------------------
(* The games have the ids 0, 1, ... in turn, one for each match.           *)
Numbered == /\ now \in 0..LastSecond
            /\ game_id_count \in Nat /\ games = 0..(game_id_count - 1)
            /\ total_matches = game_id_count
            /\ \A t \in told : t.game \in games

(* A player that waits is at its descriptor, or has left.                  *)
Seated == \A p \in players : conn[p.client_fd] = p.id \/ p.id \in left

Texts == \A game \in Announced : {t.text : t \in About(game)} = {"Hello", "white", "black"}

DropsCounted == drops = Cardinality(games \ Announced)

IInv == /\ TypeOK /\ Numbered /\ Seated /\ DistinctKeys(players)
        /\ Texts /\ DropsCounted /\ ColoursReachThePlayers

LEMMA FinitelyManyGames ==
  ASSUME Numbered
  PROVE  IsFiniteSet(games) /\ Cardinality(games) = game_id_count
<1>1. IsFiniteSet(0..(game_id_count - 1))
      /\ Cardinality(0..(game_id_count - 1)) =
           IF 0 > game_id_count - 1 THEN 0 ELSE (game_id_count - 1) - 0 + 1
  BY FS_Interval DEF Numbered
<1> QED
  BY <1>1 DEF Numbered

LEMMA InvImpliesFailsAsAWhole == IInv => FailsAsAWhole
  BY FinitelyManyGames DEF IInv, Numbered, Texts, DropsCounted, FailsAsAWhole

LEMMA InvInit == Init => IInv
<1> SUFFICES ASSUME Init PROVE IInv
  OBVIOUS
<1>1. games = {} /\ told = {} /\ players = {} /\ drops = 0 /\ game_id_count = 0
      /\ total_matches = 0 /\ now = 0 /\ left = {} /\ gone = {}
      /\ conn = [fd \in Fd |-> Nobody]
      /\ left_to_right = NoEntries /\ right_to_left = NoEntries /\ matches = NoEntries
  BY DEF Init
<1>2. DOMAIN NoEntries = {}
  BY DEF NoEntries
<1>3. TypeOK
  BY <1>1, <1>2 DEF TypeOK
<1>4. Numbered
  BY <1>1, GameServerAssumption DEF Numbered
<1>5. DropsCounted
  BY <1>1, FS_EmptySet DEF DropsCounted
<1>6. Texts /\ Seated /\ DistinctKeys(players) /\ ColoursReachThePlayers
  BY <1>1 DEF Texts, Seated, DistinctKeys, ColoursReachThePlayers, Announced
<1> QED
  BY <1>3, <1>4, <1>5, <1>6 DEF IInv

-----------------------------------------------------------------------------
(* Steps that start no game.                                               *)
NoGame == UNCHANGED <<bimap, game_id_count, games, history, total_matches>>

LEMMA NoGameKeeps ==
  ASSUME IInv, NoGame, left \subseteq left', now' \in 0..LastSecond
  PROVE  Numbered' /\ Texts' /\ DropsCounted' /\ ColoursReachThePlayers'
<1>1. UNCHANGED <<game_id_count, games, told, drops, matches, total_matches>>
  BY DEF NoGame, history
<1>2. Announced' = Announced /\ \A g : About(g)' = About(g)
  BY <1>1 DEF Announced, About
<1>3. Numbered' /\ Texts' /\ DropsCounted'
  BY <1>1, <1>2 DEF IInv, Numbered, Texts, DropsCounted
<1>4. ColoursReachThePlayers'
  BY <1>1 DEF IInv, ColoursReachThePlayers
<1> QED
  BY <1>3, <1>4

(* A connection ends, or nobody's does.                                    *)
LEMMA DropFact ==
  ASSUME TypeOK, NEW fd \in Fd, Drop(fd) \/ Stay, conn[fd] # Nobody
  PROVE  /\ conn' \in [Fd -> Person \union {Nobody}]
         /\ gone' \subseteq {f \in Fd : conn'[f] # Nobody}
         /\ left' \subseteq Person /\ left \subseteq left'
         /\ \A f \in Fd : conn'[f] = conn[f] \/ conn[f] \in left'
<1>1. /\ conn \in [Fd -> Person \union {Nobody}] /\ left \subseteq Person
      /\ gone \subseteq {f \in Fd : conn[f] # Nobody}
  BY DEF TypeOK
<1>2. CASE Stay
  BY <1>1, <1>2 DEF Stay
<1>3. CASE Drop(fd)
  BY <1>1, <1>3 DEF Drop
<1> QED
  BY <1>2, <1>3

LEMMA SeatedDrop ==
  ASSUME TypeOK, Seated, NEW fd \in Fd, Drop(fd) \/ Stay, conn[fd] # Nobody,
         players' \subseteq players
  PROVE  Seated'
<1>1. \A p \in players : p.client_fd \in Fd
  BY DEF TypeOK, Waiting
<1> QED
  BY <1>1, DropFact DEF Seated

LEMMA AcceptNext ==
  ASSUME IInv, NEW person \in Person, Accept(person)
  PROVE  IInv'
<1>0. /\ conn \in [Fd -> Person \union {Nobody}]
      /\ gone \subseteq {f \in Fd : conn[f] # Nobody} /\ Nobody \notin Person
      /\ \A p \in players : p.client_fd \in Fd /\ p.id \in Person
  BY GameServerAssumption DEF IInv, TypeOK, Waiting
<1>1. PICK fd \in FreeFds : conn' = [conn EXCEPT ![fd] = person]
  <2>1. FreeFds \in SUBSET Nat /\ FreeFds # {}
    BY GameServerAssumption DEF Accept, FreeFds
  <2>2. \E f \in FreeFds : \A g \in FreeFds : f <= g
    BY <2>1, LeastElement
  <2> QED
    BY <2>2 DEF Accept
<1>2. fd \in Fd /\ conn[fd] = Nobody
  BY DEF FreeFds
<1>3. UNCHANGED <<gone, players, left, left_to_right, right_to_left, games, matches, now>>
      /\ NoGame
  BY DEF Accept, waitingList, bimap, history, NoGame
<1>4. TypeOK'
  <2>1. conn' \in [Fd -> Person \union {Nobody}]
    BY <1>0, <1>1, <1>2
  <2>2. gone' \subseteq {f \in Fd : conn'[f] # Nobody}
    BY <1>0, <1>1, <1>2, <1>3
  <2> QED
    BY <1>3, <2>1, <2>2 DEF IInv, TypeOK
<1>5. Seated'
  BY <1>0, <1>1, <1>2, <1>3 DEF IInv, Seated
<1>6. DistinctKeys(players')
  BY <1>3 DEF IInv
<1>7. Numbered' /\ Texts' /\ DropsCounted' /\ ColoursReachThePlayers'
  BY <1>3, NoGameKeeps DEF IInv, Numbered
<1> QED
  BY <1>4, <1>5, <1>6, <1>7 DEF IInv, DistinctKeys

(* Steps that may end a connection and start no game.                      *)
LEMMA EndsNext ==
  ASSUME IInv, NEW fd \in Fd, conn[fd] # Nobody, Drop(fd) \/ Stay,
         NoGame, players' = players, now' = now
  PROVE  IInv'
<1>1. TypeOK'
  <2>1. UNCHANGED <<left_to_right, right_to_left, games, matches, players>>
    BY DEF NoGame, bimap, history
  <2> QED
    BY <2>1, DropFact DEF IInv, TypeOK
<1>2. Seated'
  BY SeatedDrop DEF IInv
<1>3. Numbered' /\ Texts' /\ DropsCounted' /\ ColoursReachThePlayers'
  BY NoGameKeeps, DropFact DEF IInv, Numbered
<1> QED
  BY <1>1, <1>2, <1>3 DEF IInv, DistinctKeys

-----------------------------------------------------------------------------
(* find_game.                                                              *)
Newcomer(fd, rating) ==
  [client_fd |-> fd, id |-> conn[fd], rating |-> rating, joinTime |-> now]

LEMMA QueueFact ==
  ASSUME IInv, NEW fd \in Fd, conn[fd] # Nobody, NEW rating \in Rating,
         NEW queue, queue = Insert(players, Newcomer(fd, rating))
  PROVE  /\ queue \in SUBSET Waiting /\ DistinctKeys(queue) /\ Rated(queue)
         /\ \A p \in queue : conn[p.client_fd] = p.id \/ p.id \in left
<1>0. /\ conn[fd] \in Person /\ now \in 0..LastSecond
      /\ players \subseteq Waiting
  BY DEF IInv, TypeOK, Numbered
<1>1. Newcomer(fd, rating) \in Waiting
  BY <1>0 DEF Newcomer, Waiting
<1>2. DistinctKeys(queue) /\ (queue = players \/ queue = players \union {Newcomer(fd, rating)})
  BY InsertFact DEF IInv
<1>3. queue \in SUBSET Waiting
  BY <1>0, <1>1, <1>2
<1>4. conn[Newcomer(fd, rating).client_fd] = Newcomer(fd, rating).id
  BY DEF Newcomer
<1>5. \A p \in queue : conn[p.client_fd] = p.id \/ p.id \in left
  BY <1>2, <1>4 DEF IInv, Seated
<1>6. Rated(queue)
  BY <1>3, WaitingRated
<1> QED
  BY <1>2, <1>3, <1>5, <1>6

LEMMA QueueNext ==
  ASSUME IInv, NEW fd \in Fd, conn[fd] # Nobody, NEW rating \in Rating,
         players' = Insert(players, Newcomer(fd, rating)),
         Stay, NoGame, now' = now
  PROVE  IInv'
<1>1. UNCHANGED <<conn, gone, left, left_to_right, right_to_left, games, matches>>
  BY DEF Stay, NoGame, bimap, history
<1>2. /\ players' \in SUBSET Waiting /\ DistinctKeys(players')
      /\ \A p \in players' : conn[p.client_fd] = p.id \/ p.id \in left
  BY QueueFact
<1>3. TypeOK'
  BY <1>1, <1>2 DEF IInv, TypeOK
<1>4. Seated'
  BY <1>1, <1>2 DEF Seated
<1>5. Numbered' /\ Texts' /\ DropsCounted' /\ ColoursReachThePlayers'
  BY <1>1, NoGameKeeps DEF IInv, Numbered
<1> QED
  BY <1>2, <1>3, <1>4, <1>5 DEF IInv, DistinctKeys

(* A pair is inserted in both directions at once.                          *)
LEMMA InsertPairKeeps ==
  ASSUME TypeOK, NEW l \in Fd, NEW r \in Fd, InsertPair(l, r)
  PROVE  /\ DOMAIN left_to_right' \subseteq Fd /\ DOMAIN right_to_left' \subseteq Fd
         /\ \A f \in DOMAIN left_to_right' : left_to_right'[f] \in DOMAIN right_to_left'
         /\ \A f \in DOMAIN right_to_left' : right_to_left'[f] \in DOMAIN left_to_right'
<1>1. /\ DOMAIN left_to_right \subseteq Fd /\ DOMAIN right_to_left \subseteq Fd
      /\ \A f \in DOMAIN left_to_right : left_to_right[f] \in DOMAIN right_to_left
      /\ \A f \in DOMAIN right_to_left : right_to_left[f] \in DOMAIN left_to_right
  BY DEF TypeOK
<1>2. /\ DOMAIN left_to_right' = DOMAIN left_to_right \union {l}
      /\ left_to_right'[l] = r
      /\ \A x \in DOMAIN left_to_right \ {l} : left_to_right'[x] = left_to_right[x]
  <2>1. left_to_right' = Put(left_to_right, l, r)
    BY DEF InsertPair
  <2> QED
    BY <2>1 DEF Put
<1>3. /\ DOMAIN right_to_left' = DOMAIN right_to_left \union {r}
      /\ right_to_left'[r] = l
      /\ \A x \in DOMAIN right_to_left \ {r} : right_to_left'[x] = right_to_left[x]
  <2>1. right_to_left' = Put(right_to_left, r, l)
    BY DEF InsertPair
  <2> QED
    BY <2>1 DEF Put
<1> QED
  BY <1>1, <1>2, <1>3

(* A match makes a game of its own.                                        *)
NewGame(match) ==
  /\ game_id_count' = game_id_count + 1
  /\ games' = games \union {game_id_count}
  /\ matches' = Put(matches, game_id_count, match)

LEMMA NewGameFact ==
  ASSUME IInv, NEW match, NewGame(match)
  PROVE  /\ game_id_count \notin games /\ game_id_count \in Nat
         /\ games' = 0..(game_id_count' - 1) /\ game_id_count' \in Nat
         /\ games' \subseteq Nat
         /\ DOMAIN matches' = games'
         /\ matches'[game_id_count] = match
         /\ \A g \in games : matches'[g] = matches[g]
<1>1. game_id_count \in Nat /\ games = 0..(game_id_count - 1) /\ DOMAIN matches = games
  BY DEF IInv, TypeOK, Numbered
<1>2. game_id_count \notin games
  BY <1>1
<1>3. games' = 0..(game_id_count' - 1) /\ game_id_count' \in Nat
  BY <1>1 DEF NewGame
<1>4. /\ DOMAIN matches' = games \union {game_id_count}
      /\ matches'[game_id_count] = match
      /\ \A g \in games \ {game_id_count} : matches'[g] = matches[g]
  <2>1. matches' = Put(matches, game_id_count, match)
    BY DEF NewGame
  <2> QED
    BY <1>1, <2>1 DEF Put
<1> QED
  BY <1>1, <1>2, <1>3, <1>4 DEF NewGame

LEMMA MatchKeepsTypes ==
  ASSUME IInv, NEW fd \in Fd, conn[fd] # Nobody, Drop(fd) \/ Stay,
         NEW queue \in SUBSET Waiting, DistinctKeys(queue),
         \A p \in queue : conn[p.client_fd] = p.id \/ p.id \in left,
         NEW match \in [first : queue, second : queue],
         InsertPair(match.second.client_fd, match.first.client_fd), NewGame(match),
         players' = Removed(queue, match), total_matches' = total_matches + 1, now' = now
  PROVE  TypeOK' /\ Seated' /\ DistinctKeys(players)' /\ DOMAIN matches' = games'
<1>1. match.first \in Waiting /\ match.second \in Waiting
  OBVIOUS
<1>2. match.first.client_fd \in Fd /\ match.second.client_fd \in Fd
  BY <1>1 DEF Waiting
<1>3. players' \subseteq queue
  BY DEF Removed
<1>4. /\ games' \subseteq Nat /\ DOMAIN matches' = games'
      /\ \A g \in games' : matches'[g].first \in Waiting /\ matches'[g].second \in Waiting
  <2>1. games' = games \union {game_id_count}
    BY DEF NewGame
  <2>2. \A g \in games : matches[g].first \in Waiting /\ matches[g].second \in Waiting
    BY DEF IInv, TypeOK
  <2> QED
    BY <1>1, <2>1, <2>2, NewGameFact
<1>5. /\ conn' \in [Fd -> Person \union {Nobody}]
      /\ gone' \subseteq {f \in Fd : conn'[f] # Nobody}
      /\ left' \subseteq Person /\ left \subseteq left'
      /\ \A f \in Fd : conn'[f] = conn[f] \/ conn[f] \in left'
  BY DropFact DEF IInv
<1>6. /\ DOMAIN left_to_right' \subseteq Fd /\ DOMAIN right_to_left' \subseteq Fd
      /\ \A f \in DOMAIN left_to_right' : left_to_right'[f] \in DOMAIN right_to_left'
      /\ \A f \in DOMAIN right_to_left' : right_to_left'[f] \in DOMAIN left_to_right'
  BY <1>2, InsertPairKeeps DEF IInv
<1>7. TypeOK'
  BY <1>3, <1>4, <1>5, <1>6 DEF TypeOK
<1>8. Seated'
  <2>1. \A p \in queue : p.client_fd \in Fd
    BY DEF Waiting
  <2> QED
    BY <1>3, <1>5, <2>1 DEF Seated
<1>9. DistinctKeys(players)'
  BY <1>3 DEF DistinctKeys
<1> QED
  BY <1>4, <1>7, <1>8, <1>9

(* The three sends of a match.                                             *)
LEMMA AnnouncedNext ==
  ASSUME IInv, NEW fd \in Fd, conn[fd] # Nobody, Stay,
         NEW queue \in SUBSET Waiting,
         \A p \in queue : conn[p.client_fd] = p.id \/ p.id \in left,
         NEW match \in [first : queue, second : queue], NewGame(match),
         told' = told \union Announcement(fd, match, game_id_count), drops' = drops,
         total_matches' = total_matches + 1, now' = now
  PROVE  Numbered' /\ Texts' /\ DropsCounted' /\ ColoursReachThePlayers'
<1>0. PICK game : game = game_id_count
  OBVIOUS
<1> DEFINE hello == Sent(left_to_right'[fd], "Hello", game)
           white == Sent(match.first.client_fd, "white", game)
           black == Sent(match.second.client_fd, "black", game)
<1>1. told' = told \union {hello, white, black}
  BY <1>0 DEF Announcement
<1>2. /\ hello.game = game /\ hello.text = "Hello"
      /\ white.game = game /\ white.text = "white"
      /\ black.game = game /\ black.text = "black"
      /\ white.who \in {conn[match.first.client_fd], Nobody}
      /\ black.who \in {conn[match.second.client_fd], Nobody}
  BY DEF Sent
<1>3. /\ game \notin games /\ game \in Nat /\ matches'[game] = match
      /\ games' = 0..(game_id_count' - 1) /\ game_id_count' \in Nat
      /\ \A g \in games : matches'[g] = matches[g]
  BY <1>0, NewGameFact
<1>4. games' = games \union {game} /\ game_id_count' = game + 1
  BY <1>0 DEF NewGame
<1>5. \A t \in told : t.game \in games
  BY DEF IInv, Numbered
<1>6. total_matches = game /\ left' = left /\ now' \in 0..LastSecond
  BY <1>0 DEF IInv, Numbered, Stay
<1>7. match.first \in queue /\ match.second \in queue
  OBVIOUS
<1> HIDE DEF hello, white, black
<1>8. Numbered'
  BY <1>1, <1>2, <1>3, <1>4, <1>5, <1>6 DEF Numbered
<1>9. About(game)' = {hello, white, black}
  BY <1>1, <1>2, <1>3, <1>5 DEF About
<1>10. \A g \in games : About(g)' = About(g)
  BY <1>1, <1>2, <1>3 DEF About
<1>11. Announced' = Announced \union {game}
  BY <1>4, <1>9, <1>10 DEF Announced
<1>12. Announced \subseteq games
  BY DEF Announced
<1>13. Texts'
  <2>1. {t.text : t \in {hello, white, black}} = {"Hello", "white", "black"}
    BY <1>2
  <2>2. \A g \in Announced : {t.text : t \in About(g)'} = {"Hello", "white", "black"}
    BY <1>10, <1>12 DEF IInv, Texts
  <2> QED
    BY <1>9, <1>11, <2>1, <2>2 DEF Texts
<1>14. DropsCounted'
  <2>1. games' \ Announced' = games \ Announced
    BY <1>3, <1>4, <1>11
  <2> QED
    BY <2>1 DEF IInv, DropsCounted
<1>15. ColoursReachThePlayers'
  <2> SUFFICES ASSUME NEW t \in told'
               PROVE  LET m == matches'[t.game]
                      IN  /\ t.text = "white" =>
                               t.who \in {m.first.id, Nobody} \/ m.first.id \in left'
                          /\ t.text = "black" =>
                               t.who \in {m.second.id, Nobody} \/ m.second.id \in left'
    BY DEF ColoursReachThePlayers
  <2>1. CASE t \in told
    BY <1>3, <1>5, <1>6, <2>1 DEF IInv, ColoursReachThePlayers
  <2>2. CASE t = hello
    BY <1>2, <2>2
  <2>3. CASE t = white
    BY <1>2, <1>3, <1>6, <1>7, <2>3
  <2>4. CASE t = black
    BY <1>2, <1>3, <1>6, <1>7, <2>4
  <2> QED
    BY <1>1, <2>1, <2>2, <2>3, <2>4
<1> QED
  BY <1>8, <1>13, <1>14, <1>15

(* The exception of at_left: nothing is sent.                              *)
LEMMA UntoldNext ==
  ASSUME IInv, left \subseteq left', NEW match, NewGame(match),
         told' = told, drops' = drops + 1,
         total_matches' = total_matches + 1, now' = now
  PROVE  Numbered' /\ Texts' /\ DropsCounted' /\ ColoursReachThePlayers'
<1>1. /\ game_id_count \notin games /\ game_id_count \in Nat
      /\ games' = 0..(game_id_count' - 1) /\ game_id_count' \in Nat
      /\ \A g \in games : matches'[g] = matches[g]
  BY NewGameFact
<1>2. games' = games \union {game_id_count} /\ game_id_count' = game_id_count + 1
  BY DEF NewGame
<1>3. \A t \in told : t.game \in games
  BY DEF IInv, Numbered
<1>4. Numbered'
  BY <1>1, <1>2, <1>3 DEF IInv, Numbered
<1>5. \A g : About(g)' = About(g)
  BY DEF About
<1>6. Announced' = Announced
  BY <1>1, <1>2, <1>3, <1>5 DEF Announced, About
<1>7. Texts'
  BY <1>5, <1>6 DEF IInv, Texts
<1>8. DropsCounted'
  <2>1. IsFiniteSet(games \ Announced)
    BY FinitelyManyGames, FS_Subset DEF IInv
  <2>2. games' \ Announced' = (games \ Announced) \union {game_id_count}
        /\ game_id_count \notin games \ Announced
    BY <1>1, <1>2, <1>6 DEF Announced
  <2>3. Cardinality((games \ Announced) \union {game_id_count})
          = Cardinality(games \ Announced) + 1
    BY <2>1, <2>2, FS_AddElement
  <2> QED
    BY <2>2, <2>3 DEF IInv, DropsCounted
<1>9. ColoursReachThePlayers'
  BY <1>1, <1>3 DEF IInv, ColoursReachThePlayers
<1> QED
  BY <1>4, <1>7, <1>8, <1>9

LEMMA FindGameNext ==
  ASSUME IInv, NEW fd \in Fd, NEW rating \in Rating, FindGame(fd, rating)
  PROVE  IInv'
<1>0. PICK queue : queue = Insert(players, Newcomer(fd, rating))
  OBVIOUS
<1>1. conn[fd] # Nobody /\ now' = now
  BY DEF FindGame
<1>2. \/ /\ HasMatch(queue, now)
         /\ players' = Removed(queue, FindMatch(queue, now))
         /\ total_matches' = total_matches + 1
         /\ StartMatch(fd, FindMatch(queue, now))
      \/ /\ players' = queue
         /\ Stay
         /\ UNCHANGED <<total_matches, bimap, game_id_count, games, history>>
  BY <1>0 DEF FindGame, Newcomer
<1>3. CASE /\ players' = queue
           /\ Stay
           /\ UNCHANGED <<total_matches, bimap, game_id_count, games, history>>
  BY <1>0, <1>1, <1>3, QueueNext DEF NoGame
<1>4. CASE /\ HasMatch(queue, now)
           /\ players' = Removed(queue, FindMatch(queue, now))
           /\ total_matches' = total_matches + 1
           /\ StartMatch(fd, FindMatch(queue, now))
  <2>1. /\ queue \in SUBSET Waiting /\ DistinctKeys(queue) /\ Rated(queue)
        /\ \A p \in queue : conn[p.client_fd] = p.id \/ p.id \in left
    BY <1>0, <1>1, QueueFact
  <2>2. PICK match : match = FindMatch(queue, now)
    OBVIOUS
  <2>3. match \in [first : queue, second : queue]
    BY <1>4, <2>1, <2>2, FindMatchFact
  <2>4. StartMatch(fd, match)
    BY <1>4, <2>2
  <2>5. InsertPair(match.second.client_fd, match.first.client_fd) /\ NewGame(match)
    BY <2>4 DEF StartMatch, NewGame, GenerateGameId
  <2>6. game_id_count \notin games
    BY <2>5, NewGameFact
  <2>7. \/ /\ Stay /\ drops' = drops
           /\ told' = told \union Announcement(fd, match, game_id_count)
        \/ Drop(fd) /\ drops' = drops + 1 /\ told' = told
    BY <2>4, <2>6 DEF StartMatch
  <2>8. left \subseteq left'
    BY <1>1, <2>7, DropFact DEF IInv
  <2>9. TypeOK' /\ Seated' /\ DistinctKeys(players)'
    BY <1>1, <1>4, <2>1, <2>2, <2>3, <2>5, <2>7, MatchKeepsTypes
  <2>10. Numbered' /\ Texts' /\ DropsCounted' /\ ColoursReachThePlayers'
    <3>1. CASE /\ Stay /\ drops' = drops
               /\ told' = told \union Announcement(fd, match, game_id_count)
      BY <1>1, <1>4, <2>1, <2>3, <2>5, <3>1, AnnouncedNext
    <3>2. CASE Drop(fd) /\ drops' = drops + 1 /\ told' = told
      BY <1>1, <1>4, <2>5, <2>8, <3>2, UntoldNext
    <3> QED
      BY <2>7, <3>1, <3>2
  <2> QED
    BY <2>9, <2>10 DEF IInv
<1> QED
  BY <1>2, <1>3, <1>4

LEMMA InvNext == IInv /\ [Next]_vars => IInv'
<1> SUFFICES ASSUME IInv, [Next]_vars PROVE IInv'
  OBVIOUS
<1>1. ASSUME NEW person \in Person, Accept(person) PROVE IInv'
  BY <1>1, AcceptNext
<1>2. ASSUME NEW fd \in Fd, HangUp(fd) PROVE IInv'
  <2>1. /\ UNCHANGED <<conn, left, players, now>> /\ NoGame
        /\ conn[fd] # Nobody /\ gone' = gone \union {fd}
    BY <1>2 DEF HangUp, waitingList, NoGame
  <2>2. TypeOK'
    BY <2>1 DEF IInv, TypeOK, NoGame, bimap, history
  <2>3. Numbered' /\ Texts' /\ DropsCounted' /\ ColoursReachThePlayers'
    BY <2>1, NoGameKeeps DEF IInv, Numbered
  <2> QED
    BY <2>1, <2>2, <2>3 DEF IInv, Seated, DistinctKeys
<1>3. ASSUME NEW fd \in Fd, ReadEof(fd) PROVE IInv'
  <2>1. Drop(fd) /\ fd \in gone /\ NoGame /\ players' = players /\ now' = now
    BY <1>3 DEF ReadEof, waitingList, NoGame
  <2>2. conn[fd] # Nobody
    BY <2>1 DEF IInv, TypeOK
  <2> QED
    BY <2>1, <2>2, EndsNext
<1>4. ASSUME NEW fd \in Fd, NEW rating \in Rating, FindGame(fd, rating) PROVE IInv'
  BY <1>4, FindGameNext
<1>5. ASSUME NEW fd \in Fd, NEW game \in 0..game_id_count, MakeMove(fd, game) PROVE IInv'
  <2>1. /\ Drop(fd) \/ Stay
        /\ conn[fd] # Nobody /\ NoGame /\ players' = players /\ now' = now
    BY <1>5 DEF MakeMove, waitingList, NoGame
  <2> QED
    BY <2>1, EndsNext
<1>6. CASE Tick
  <2>1. /\ UNCHANGED <<conn, gone, left, players>> /\ NoGame
        /\ now < LastSecond /\ now' = now + 1
    BY <1>6 DEF Tick, waitingList, NoGame
  <2>2. now' \in 0..LastSecond
    BY <2>1, GameServerAssumption DEF IInv, Numbered
  <2>3. TypeOK'
    BY <2>1 DEF IInv, TypeOK, NoGame, bimap, history
  <2>4. Numbered' /\ Texts' /\ DropsCounted' /\ ColoursReachThePlayers'
    BY <2>1, <2>2, NoGameKeeps
  <2> QED
    BY <2>1, <2>3, <2>4 DEF IInv, Seated, DistinctKeys
<1>7. CASE UNCHANGED vars
  <2>1. /\ UNCHANGED <<conn, gone, left, players, now>> /\ NoGame
    BY <1>7 DEF vars, waitingList, NoGame
  <2>2. TypeOK'
    BY <2>1 DEF IInv, TypeOK, NoGame, bimap, history
  <2>3. Numbered' /\ Texts' /\ DropsCounted' /\ ColoursReachThePlayers'
    BY <2>1, NoGameKeeps DEF IInv, Numbered
  <2> QED
    BY <2>1, <2>2, <2>3 DEF IInv, Seated, DistinctKeys
<1> QED
  BY <1>1, <1>2, <1>3, <1>4, <1>5, <1>6, <1>7 DEF Next

-----------------------------------------------------------------------------
(* The inductive invariant of the server: ids in turn, players where they  *)
(* said they are, and announcements that are complete.                     *)
THEOREM Inductive == Spec => []IInv
  BY InvInit, InvNext, PTL DEF Spec

(* Whatever the clients do, the waiting list, the Bimap and the games have *)
(* their types, and the two directions of the Bimap lead into each other.  *)
THEOREM TypeCorrect == Spec => []TypeOK
<1>1. IInv => TypeOK
  BY DEF IInv
<1> QED
  BY <1>1, Inductive, PTL

(* Every match tryFindMatch makes starts a game of its own, and find_game  *)
(* then announces it completely or not at all.                             *)
THEOREM MatchesFailAsAWhole == Spec => []FailsAsAWhole
  BY InvImpliesFailsAsAWhole, Inductive, PTL

(* A stale descriptor in the waiting list misleads a colour only after the *)
(* player it was meant for has left.                                       *)
THEOREM ColoursGoToThePlayers == Spec => []ColoursReachThePlayers
<1>1. IInv => ColoursReachThePlayers
  BY DEF IInv
<1> QED
  BY <1>1, Inductive, PTL
=============================================================================
