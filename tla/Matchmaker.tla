----------------------------- MODULE Matchmaker -----------------------------
(***************************************************************************)
(* ThreadSafeMatchmaker (http-server/include/match_maker.hpp) with its     *)
(* matching thread: clients add themselves from threads of their own, the  *)
(* matching thread pairs them or waits on the condition variable, and the  *)
(* owner shuts it down.                                                    *)
(*                                                                         *)
(* addPlayer and tryFindMatch hold mtx from start to end and are one       *)
(* action each.  The matching thread also holds mtx between evaluating the *)
(* wait predicate and falling asleep; shutdown never takes it.             *)
(***************************************************************************)
EXTENDS MatchQueue, FiniteSets

CONSTANTS Client,       \* callers of addPlayer, one call each
          Rating,       \* ratings they may have
          LastJoin,     \* bound: no client arrives after this second
          LastSecond    \* bound: the clock stops here

ASSUME MatchmakerAssumption == /\ Rating \subseteq Nat
                               /\ LastJoin \in Nat /\ LastSecond \in Nat

VARIABLES players,        \* the waiting list
          asked,          \* the Player each client built, with its clock reading
          added,          \* clients whose addPlayer has run
          matches,        \* pairs tryFindMatch returned
          total_players, total_matches,
          shutdown_flag,
          thread,         \* where the matching thread is
          owner,          \* where the thread that calls shutdown is
          now             \* system_clock, in seconds

vars == <<players, asked, added, matches, total_players, total_matches,
          shutdown_flag, thread, owner, now>>

NotAsked == [client |-> "none", rating |-> 0, joinTime |-> 0]

Init == /\ players = {}
        /\ asked = [c \in Client |-> NotAsked]
        /\ added = {}
        /\ matches = {}
        /\ total_players = 0 /\ total_matches = 0
        /\ shutdown_flag = FALSE
        /\ thread = "check"
        /\ owner = "running"
        /\ now = 0

MutexFree == thread # "falling asleep"

(* A sleeping thread that is notified evaluates its predicate again.       *)
Notify == thread' = IF thread = "asleep" THEN "predicate" ELSE thread

-----------------------------------------------------------------------------
(* Clients.  A client reads the clock before it asks for the mutex.        *)
Arrive(c, rating) ==
  /\ asked[c] = NotAsked
  /\ now <= LastJoin
  /\ asked' = [asked EXCEPT ![c] = [client |-> c, rating |-> rating, joinTime |-> now]]
  /\ UNCHANGED <<players, added, matches, total_players, total_matches,
                 shutdown_flag, thread, owner, now>>

AddPlayer_Unlocked(c) ==
  /\ asked[c] # NotAsked /\ c \notin added
  /\ added' = added \union {c}
  /\ players' = Insert(players, asked[c])
  /\ total_players' = total_players + 1
  /\ Notify
  /\ UNCHANGED <<asked, matches, total_matches, shutdown_flag, owner, now>>

AddPlayer_CountsInserted(c) ==
  /\ asked[c] # NotAsked /\ c \notin added
  /\ MutexFree
  /\ added' = added \union {c}
  /\ players' = Insert(players, asked[c])
  /\ total_players' = IF players' = players THEN total_players ELSE total_players + 1
  /\ Notify
  /\ UNCHANGED <<asked, matches, total_matches, shutdown_flag, owner, now>>

AddPlayer_BeforeBuilt(c) ==
  /\ c \notin added
  /\ MutexFree
  /\ added' = added \union {c}
  /\ players' = Insert(players, asked[c])
  /\ total_players' = total_players + 1
  /\ Notify
  /\ UNCHANGED <<asked, matches, total_matches, shutdown_flag, owner, now>>

AddPlayer(c) ==
  /\ asked[c] # NotAsked /\ c \notin added
  /\ MutexFree
  /\ added' = added \union {c}
  /\ players' = Insert(players, asked[c])
  /\ total_players' = total_players + 1
  /\ Notify
  /\ UNCHANGED <<asked, matches, total_matches, shutdown_flag, owner, now>>

-----------------------------------------------------------------------------
(* The matching thread.                                                    *)
CheckFlag == /\ thread = "check"
             /\ thread' = IF shutdown_flag THEN "done" ELSE "find"
             /\ UNCHANGED <<players, asked, added, matches, total_players,
                            total_matches, shutdown_flag, owner, now>>

TryFindMatch ==
  /\ thread = "find"
  /\ \/ /\ HasMatch(players, now)
        /\ LET match == FindMatch(players, now)
           IN  /\ players' = Removed(players, match)
               /\ matches' = matches \union {match}
        /\ total_matches' = total_matches + 1
        /\ thread' = "check"
     \/ /\ ~ HasMatch(players, now)
        /\ thread' = "predicate"
        /\ UNCHANGED <<players, matches, total_matches>>
  /\ UNCHANGED <<asked, added, total_players, shutdown_flag, owner, now>>

(* The predicate of wait_for, evaluated with mtx held.                     *)
Predicate ==
  /\ thread = "predicate"
  /\ thread' = IF shutdown_flag \/ Cardinality(players) >= 2
                 THEN "check" ELSE "falling asleep"
  /\ UNCHANGED <<players, asked, added, matches, total_players, total_matches,
                 shutdown_flag, owner, now>>

FallAsleep ==
  /\ thread = "falling asleep"
  /\ thread' = "asleep"
  /\ UNCHANGED <<players, asked, added, matches, total_players, total_matches,
                 shutdown_flag, owner, now>>

(* After one second wait_for gives up, whatever the predicate says.        *)
TimedOut_Never == FALSE

TimedOut ==
  /\ thread = "asleep"
  /\ thread' = "check"
  /\ UNCHANGED <<players, asked, added, matches, total_players, total_matches,
                 shutdown_flag, owner, now>>

SpuriousWakeup ==
  /\ thread = "asleep"
  /\ thread' = "predicate"
  /\ UNCHANGED <<players, asked, added, matches, total_players, total_matches,
                 shutdown_flag, owner, now>>

-----------------------------------------------------------------------------
(* shutdown: the flag, then notify_all, neither with mtx held.             *)
SetFlag == /\ owner = "running"
           /\ owner' = "notifying"
           /\ shutdown_flag' = TRUE
           /\ UNCHANGED <<players, asked, added, matches, total_players,
                          total_matches, thread, now>>

NotifyAll == /\ owner = "notifying"
             /\ owner' = "joining"
             /\ Notify
             /\ UNCHANGED <<players, asked, added, matches, total_players,
                            total_matches, shutdown_flag, now>>

Tick == /\ now < LastSecond
        /\ now' = now + 1
        /\ UNCHANGED <<players, asked, added, matches, total_players,
                       total_matches, shutdown_flag, thread, owner>>

ThreadStep == CheckFlag \/ TryFindMatch \/ Predicate \/ FallAsleep

Next == \/ \E c \in Client, r \in Rating : Arrive(c, r)
        \/ \E c \in Client : AddPlayer(c)
        \/ CheckFlag \/ TryFindMatch \/ Predicate \/ FallAsleep
        \/ TimedOut \/ SpuriousWakeup
        \/ SetFlag \/ NotifyAll
        \/ Tick

(* The scheduler runs the matching thread, its timed wait returns, and the *)
(* clock goes on.  Nothing forces clients to come or the owner to stop.    *)
Fairness == WF_vars(ThreadStep) /\ WF_vars(TimedOut) /\ WF_vars(Tick)

Spec == Init /\ [][Next]_vars /\ Fairness

-----------------------------------------------------------------------------
Waiting == [client : Client, rating : Rating, joinTime : 0..LastJoin]

(* The variables have the types the class declares.                        *)
TypeOK ==
  /\ players \subseteq Waiting
  /\ asked \in [Client -> Waiting \union {NotAsked}]
  /\ added \subseteq Client
  /\ matches \subseteq [first : Waiting, second : Waiting]
  /\ total_players \in Nat /\ total_matches \in Nat
  /\ shutdown_flag \in BOOLEAN
  /\ thread \in {"check", "find", "predicate", "falling asleep", "asleep", "done"}
  /\ owner \in {"running", "notifying", "joining"}
  /\ now \in 0..LastSecond

Paired == UNION {{m.first, m.second} : m \in matches}

(* Nobody is matched with himself or twice, and nobody who was matched is  *)
(* still in the list (both erasures of tryFindMatch happened).             *)
MatchedOnce ==
  /\ \A m \in matches : m.first # m.second
  /\ \A m, n \in matches : m # n => {m.first, m.second} \cap {n.first, n.second} = {}
  /\ Paired \cap players = {}

(* A player vanishes only because std::set had somebody with his rating    *)
(* and joinTime; everybody else waits or is in a pair.                     *)
OnlyTiesVanish ==
  \A c \in added : \/ asked[c] \in players \union Paired
                   \/ \E d \in added \ {c} : SameKey(asked[c], asked[d])

(* The three numbers of printStats fit: who is neither waiting nor matched *)
(* was counted by addPlayer but dropped by the set.                        *)
StatsAddUp ==
  total_players - (Cardinality(players) + 2 * total_matches)
    = Cardinality({c \in added : asked[c] \notin players \union Paired})

(***************************************************************************)
(* Who has waited longer sets the reach of a pair.  tryFindMatch pairs     *)
(* nobody beyond it, and when it finds no pair all the waiting players are *)
(* at least that far apart: the range open at one end, the search from one *)
(* player at a time and the order of the set hide no pair that is nearer.  *)
(***************************************************************************)
Gap(p, q) == IF p.rating < q.rating THEN q.rating - p.rating ELSE p.rating - q.rating

Reach(p, q) ==
  LET longer == IF p.joinTime <= q.joinTime THEN p ELSE q
  IN  DynamicMaxDiff(longer, now)

PairsWithinReach ==
  [][/\ \A m \in matches' \ matches : Gap(m.first, m.second) <= Reach(m.first, m.second)
     /\ thread = "find" /\ thread' = "predicate"
          => \A p, q \in players : p # q => Gap(p, q) >= Reach(p, q)]_vars

(* No lost wakeup from addPlayer: the matching thread never sleeps through *)
(* two waiting players, because addPlayer cannot run between the predicate *)
(* and the sleep.                                                          *)
NeverSleepsOnAPair ==
  thread \in {"falling asleep", "asleep"} => Cardinality(players) < 2

(* Ranges widen without end, so two waiting players do not both wait       *)
(* forever, unless the matchmaker is shut down.                            *)
PairsGetMatched ==
  Cardinality(players) >= 2 ~> (Cardinality(players) < 2 \/ shutdown_flag)

(* The matching thread can be joined after shutdown, although its          *)
(* notification can fall between the predicate and the sleep: the timeout  *)
(* of wait_for rescues the lost wakeup.                                    *)
ThreadStops == shutdown_flag ~> thread = "done"
=============================================================================
