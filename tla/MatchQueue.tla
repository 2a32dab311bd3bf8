----------------------------- MODULE MatchQueue -----------------------------
(***************************************************************************)
(* The waiting list of class ThreadSafeMatchmaker                          *)
(* (http-server/include/match_maker.hpp) and how a pair is chosen from it. *)
(* Operators only: Matchmaker and GameServer own the variables.            *)
(*                                                                         *)
(* A waiting player is a record with a rating and the second it joined at; *)
(* the fields that the choice ignores (client_fd, id) belong to the        *)
(* modules that use the list.  A suffix after "_" marks a faulty variant.  *)
(***************************************************************************)
EXTENDS Integers

CONSTANTS BaseDiff,     \* rating difference accepted at once (100 in the code)
          DiffPerSecond \* and how much more for each second of waiting (10)

ASSUME MatchQueueAssumption == BaseDiff \in Nat /\ DiffPerSecond \in Nat

(* The order of the set: by rating, then by joinTime.                      *)
Before(a, b) == \/ a.rating < b.rating
                \/ a.rating = b.rating /\ a.joinTime < b.joinTime

SameKey(a, b) == ~ Before(a, b) /\ ~ Before(b, a)

(* std::set drops a player whose key is already there.                     *)
Insert_RatingOnly(queue, player) ==
  IF \E other \in queue : other.rating = player.rating THEN queue
                                                      ELSE queue \union {player}

Insert(queue, player) ==
  IF \E other \in queue : SameKey(other, player) THEN queue
                                                 ELSE queue \union {player}

First(queue) == CHOOSE p \in queue : \A o \in queue \ {p} : Before(p, o)

DynamicMaxDiff_Fixed(player, now) == BaseDiff

DynamicMaxDiff(player, now) == BaseDiff + DiffPerSecond * (now - player.joinTime)

(***************************************************************************)
(* The players between lower_bound and upper_bound of a player's range.    *)
(* Both bounds carry the time zero, before every joinTime, so the lower    *)
(* rating is included and the upper one is not.                            *)
(***************************************************************************)
Candidates_WholeQueue(queue, player, now) == queue \ {player}

Candidates(queue, player, now) ==
  {c \in queue \ {player} :
     /\ player.rating - DynamicMaxDiff(player, now) <= c.rating
     /\ c.rating < player.rating + DynamicMaxDiff(player, now)}

Seekers(queue, now) == {p \in queue : Candidates(queue, p, now) # {}}

(* The pair tryFindMatch takes: the first player in order that has a       *)
(* candidate, with its first candidate.  Only for HasMatch queues.         *)
HasMatch(queue, now) == Seekers(queue, now) # {}

FindMatch(queue, now) ==
  LET first == First(Seekers(queue, now))
  IN  [first |-> first, second |-> First(Candidates(queue, first, now))]

Removed_SecondOnly(queue, match) == queue \ {match.second}

Removed(queue, match) == queue \ {match.first, match.second}
=============================================================================
