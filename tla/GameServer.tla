----------------------------- MODULE GameServer -----------------------------
(***************************************************************************)
(* The coroutine game server (http-server/src/simple_server_coro.cpp) with *)
(* the parts it composes: the waiting list of ThreadSafeMatchmaker, the    *)
(* Bimap of socket descriptors (http-server/src/bimap.hpp) and the games   *)
(* of GameManager (include/core/game_manager.cpp).                         *)
(*                                                                         *)
(* All coroutines are resumed by the loop of init_socket_server, one at a  *)
(* time, and suspend only where they read: one command is one action.  No  *)
(* matching thread runs here; a pair is looked for by find_game only.  A   *)
(* command is taken when it is read: how long it was on the way, or        *)
(* whether the same read brought others (which are ignored), cannot be     *)
(* told apart from a client that sent it late, or never sent the others.   *)
(*                                                                         *)
(* Left out: the commands that change nothing (echo, time, pow), the cells *)
(* of a Board, and the signal a send to a closed peer may raise.           *)
(***************************************************************************)
EXTENDS MatchQueue, FiniteSets

CONSTANTS Person, Nobody,
          Rating,       \* ratings a client may claim
          Fd,           \* descriptors accept may return
          MaxCalls,     \* bound on connections, commands and hang-ups
          LastSecond    \* bound: the clock stops here

ASSUME GameServerAssumption ==
  /\ Nobody \notin Person
  /\ Fd \subseteq Nat /\ Rating \subseteq Nat
  /\ MaxCalls \in Nat /\ LastSecond \in Nat

VARIABLES conn,            \* who is at the other end of each open descriptor
          gone,            \* descriptors whose peer hung up, not read yet
          players, total_players, total_matches,
          left_to_right, right_to_left,
          game_id_count,
          games,           \* ids of the games in games_
          matches,         \* history: the pair each game was created for
          told,            \* history: what was sent about a game and who got it
          left,            \* history: persons whose connection has ended
          drops,           \* history: connections ended by find_game
          calls, now

waitingList == <<players, total_players, total_matches>>
bimap == <<left_to_right, right_to_left>>
history == <<matches, told, drops>>
vars == <<conn, gone, waitingList, bimap, game_id_count, games, history, left,
          calls, now>>

NoEntries == [fd \in {} |-> 0]

Init == /\ conn = [fd \in Fd |-> Nobody]
        /\ gone = {}
        /\ players = {} /\ total_players = 0 /\ total_matches = 0
        /\ left_to_right = NoEntries /\ right_to_left = NoEntries
        /\ game_id_count = 0
        /\ games = {}
        /\ matches = NoEntries
        /\ told = {} /\ left = {} /\ drops = 0
        /\ calls = 0 /\ now = 0

Call == calls < MaxCalls /\ calls' = calls + 1

FreeFds == {fd \in Fd : conn[fd] = Nobody}
Connected == {conn[fd] : fd \in Fd} \ {Nobody}

(* The catch of client_coroutine: ~SocketGuard closes the descriptor.  The *)
(* waiting list and the Bimap keep it.                                     *)
Drop(fd) == /\ conn' = [conn EXCEPT ![fd] = Nobody]
            /\ gone' = gone \ {fd}
            /\ left' = left \union {conn[fd]}

Stay == UNCHANGED <<conn, gone, left>>

(* The result of a send about a game is not looked at: on a descriptor     *)
(* that is closed, or whose peer is gone, the text is lost.                *)
Sent(fd, text, game) ==
  [game |-> game, text |-> text,
   who |-> IF fd \in gone THEN Nobody ELSE conn[fd]]

-----------------------------------------------------------------------------
(* accept returns the lowest free descriptor; the new coroutine is started *)
(* by the pool and waits for its first command.                            *)
Accept(person) ==
  /\ Call
  /\ person \notin Connected
  /\ FreeFds # {}
  /\ LET fd == CHOOSE f \in FreeFds : \A g \in FreeFds : f <= g
     IN  conn' = [conn EXCEPT ![fd] = person]
  /\ UNCHANGED <<gone, waitingList, bimap, game_id_count, games, history, left, now>>

HangUp(fd) ==
  /\ Call
  /\ conn[fd] # Nobody /\ fd \notin gone
  /\ gone' = gone \union {fd}
  /\ UNCHANGED <<conn, waitingList, bimap, game_id_count, games, history, left, now>>

(* read returns 0.                                                         *)
ReadEof(fd) ==
  /\ fd \in gone
  /\ Drop(fd)
  /\ UNCHANGED <<waitingList, bimap, game_id_count, games, history, calls, now>>

(* generate_game_id returns the count and increments it.                   *)
GenerateGameId == game_id_count' = game_id_count + 1

(* The subscript of a map, assigned to.                                    *)
Put(map, k, v) == [x \in DOMAIN map \union {k} |-> IF x = k THEN v ELSE map[x]]

(* Bimap::insert.                                                          *)
InsertPair_OneWay(l, r) == /\ left_to_right' = Put(left_to_right, l, r)
                           /\ UNCHANGED right_to_left

InsertPair(l, r) == /\ left_to_right' = Put(left_to_right, l, r)
                    /\ right_to_left' = Put(right_to_left, r, l)

(* The three sends of a match found by the coroutine of fd.                *)
Announcement_ToRequester(fd, match, game) ==
  {Sent(left_to_right'[fd], "Hello", game),
   Sent(match.first.client_fd, "white", game), Sent(fd, "black", game)}

Announcement(fd, match, game) ==
  {Sent(left_to_right'[fd], "Hello", game),
   Sent(match.first.client_fd, "white", game),
   Sent(match.second.client_fd, "black", game)}

(***************************************************************************)
(* What find_game does after tryFindMatch.  create_game throws when the id *)
(* is taken, at_left when the descriptor is no left key; either exception  *)
(* ends the connection of the client that asked.                           *)
(***************************************************************************)
StartMatch_ErrorSwallowed(fd, match) ==
  /\ InsertPair(match.second.client_fd, match.first.client_fd)
  /\ GenerateGameId
  /\ games' = games \union {game_id_count}
  /\ matches' = Put(matches, game_id_count, match)
  /\ Stay /\ UNCHANGED drops
  /\ told' = IF fd \in DOMAIN left_to_right'
               THEN told \union Announcement(fd, match, game_id_count) ELSE told

StartMatch(fd, match) ==
  LET game == game_id_count
      created == game \notin games
      found == fd \in DOMAIN left_to_right'
  IN  /\ InsertPair(match.second.client_fd, match.first.client_fd)
      /\ GenerateGameId
      /\ games' = games \union {game}
      /\ matches' = Put(matches, game, match)
      /\ \/ /\ created /\ found
            /\ told' = told \union Announcement(fd, match, game)
            /\ Stay /\ UNCHANGED drops
         \/ /\ ~ (created /\ found)
            /\ Drop(fd)
            /\ drops' = drops + 1
            /\ UNCHANGED told

(* find_game: addPlayer, then tryFindMatch; "in queue" when there is none. *)
FindGame(fd, rating) ==
  /\ Call
  /\ conn[fd] # Nobody /\ fd \notin gone
  /\ total_players' = total_players + 1
  /\ LET queue == Insert(players, [client_fd |-> fd, id |-> conn[fd],
                                   rating |-> rating, joinTime |-> now])
     IN  \/ /\ HasMatch(queue, now)
            /\ players' = Removed(queue, FindMatch(queue, now))
            /\ total_matches' = total_matches + 1
            /\ StartMatch(fd, FindMatch(queue, now))
         \/ /\ ~ HasMatch(queue, now)
            /\ players' = queue
            /\ Stay
            /\ UNCHANGED <<total_matches, bimap, game_id_count, games, history>>
  /\ UNCHANGED now

(* move: get_game throws when there is no such game.                       *)
MakeMove(fd, game) ==
  /\ Call
  /\ conn[fd] # Nobody /\ fd \notin gone
  /\ IF game \in games THEN Stay ELSE Drop(fd)
  /\ UNCHANGED <<waitingList, bimap, game_id_count, games, history, now>>

Tick == /\ now < LastSecond
        /\ now' = now + 1
        /\ UNCHANGED <<conn, gone, waitingList, bimap, game_id_count, games,
                       history, left, calls>>

Next == \/ \E person \in Person : Accept(person)
        \/ \E fd \in Fd : \/ HangUp(fd)
                          \/ ReadEof(fd)
                          \/ \E rating \in Rating : FindGame(fd, rating)
                          \/ \E game \in 0..game_id_count : MakeMove(fd, game)
        \/ Tick

Spec == Init /\ [][Next]_vars

-----------------------------------------------------------------------------
Waiting == [client_fd : Fd, id : Person, rating : Rating, joinTime : 0..LastSecond]

(* The variables have the types the classes declare.                       *)
TypeOK ==
  /\ conn \in [Fd -> Person \union {Nobody}]
  /\ gone \subseteq {fd \in Fd : conn[fd] # Nobody}
  /\ players \subseteq Waiting
  /\ DOMAIN left_to_right \subseteq Fd /\ DOMAIN right_to_left \subseteq Fd
  /\ \A fd \in DOMAIN left_to_right : left_to_right[fd] \in DOMAIN right_to_left
  /\ \A fd \in DOMAIN right_to_left : right_to_left[fd] \in DOMAIN left_to_right
  /\ games \subseteq Nat
  /\ DOMAIN matches = games
  /\ \A g \in games : matches[g].first \in Waiting /\ matches[g].second \in Waiting
  /\ left \subseteq Person

About(game) == {t \in told : t.game = game}
Announced == {game \in games : About(game) # {}}

(* Every pair that tryFindMatch took from the list got a game of its own,  *)
(* so create_game never finds its id taken; and a match fails as a whole:  *)
(* either both colours and the greeting went out, or nothing did and the   *)
(* client that asked lost its connection.                                  *)
FailsAsAWhole ==
  /\ Cardinality(games) = total_matches
  /\ \A game \in Announced :
       {t.text : t \in About(game)} = {"Hello", "white", "black"}
  /\ drops = Cardinality(games \ Announced)

(* A colour reaches the player it is meant for; somebody else gets it only *)
(* after that player left and its descriptor was given to another client.  *)
ColoursReachThePlayers ==
  \A t \in told :
    LET m == matches[t.game]
    IN  /\ t.text = "white" => t.who \in {m.first.id, Nobody} \/ m.first.id \in left
        /\ t.text = "black" => t.who \in {m.second.id, Nobody} \/ m.second.id \in left

(* match_maker.hpp, line 17: a player carries its descriptor so that both  *)
(* clients of a match are answered.                                        *)
BothPlayersTold ==
  \A game \in games :
    \A colour \in {"white", "black"} : \E t \in About(game) : t.text = colour

(* match_maker.hpp, line 96: a player is not compared with himself, so     *)
(* nobody is paired with himself.                                          *)
NobodyPlaysHimself == \A game \in games : matches[game].first.id # matches[game].second.id
=============================================================================
