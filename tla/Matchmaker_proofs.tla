-------------------------- MODULE Matchmaker_proofs --------------------------
(***************************************************************************)
(* Proofs about Matchmaker, for any clients, ratings, widths of the range  *)
(* and bounds on the clock, and about ThreadStudies, for any threads of    *)
(* the pool and any number of tasks.                                       *)
(***************************************************************************)
EXTENDS Matchmaker, ThreadStudies, FiniteSetTheorems, SequenceTheorems,
        WellFoundedInduction, TLAPS

(***************************************************************************)
(* What the operators of MatchQueue do, for any list of players.           *)
(***************************************************************************)
(* A set of naturals with a member has a least one.                        *)
LEMMA LeastElement ==
  ASSUME NEW T \in SUBSET Nat, T # {}
  PROVE  \E m \in T : \A k \in T : m <= k
<1> DEFINE R == OpToRel(<, Nat)
<1>1. IsWellFoundedOn(R, Nat)
  BY NatLessThanWellFounded
<1>2. PICK m \in T : \A k \in T : ~ (<<k, m>> \in R)
  <2> HIDE DEF R
  <2> QED
    BY <1>1, WFMin
<1>3. ASSUME NEW k \in T PROVE m <= k
  <2>1. SUFFICES ASSUME k < m PROVE FALSE
    OBVIOUS
  <2>2. <<k, m>> \in R
    BY <2>1 DEF OpToRel
  <2> QED
    BY <1>2, <2>2
<1> QED
  BY <1>3

LEMMA AddFact ==
  ASSUME NEW S, IsFiniteSet(S), NEW x
  PROVE  /\ IsFiniteSet(S \union {x}) /\ Cardinality(S) \in Nat
         /\ x \notin S => Cardinality(S \union {x}) = Cardinality(S) + 1
<1>1. /\ IsFiniteSet(S \union {x}) /\ Cardinality(S) \in Nat
      /\ Cardinality(S \union {x}) = IF x \in S THEN Cardinality(S) ELSE Cardinality(S) + 1
  BY FS_AddElement, FS_CardinalityType
<1>2. x \notin S => Cardinality(S \union {x}) = Cardinality(S) + 1
  BY <1>1
<1> QED
  BY <1>1, <1>2

LEMMA RemoveFact ==
  ASSUME NEW S, IsFiniteSet(S), NEW x \in S
  PROVE  /\ IsFiniteSet(S \ {x}) /\ Cardinality(S) \in Nat
         /\ Cardinality(S \ {x}) = Cardinality(S) - 1
<1>1. /\ IsFiniteSet(S \ {x}) /\ Cardinality(S) \in Nat
      /\ Cardinality(S \ {x}) = IF x \in S THEN Cardinality(S) - 1 ELSE Cardinality(S)
  BY FS_RemoveElement, FS_CardinalityType
<1> QED
  BY <1>1

Rated(S) == \A p \in S : p.rating \in Nat /\ p.joinTime \in Nat

(* Players of one rating and one second cannot both wait.                  *)
DistinctKeys(S) == \A p, q \in S : p # q => ~ SameKey(p, q)

(* begin() of the set, and of what a search leaves of it, exists.          *)
LEMMA FirstFact ==
  ASSUME NEW S, S # {}, Rated(S), DistinctKeys(S)
  PROVE  First(S) \in S
<1> DEFINE ratings == {p.rating : p \in S}
<1>1. ratings \in SUBSET Nat /\ ratings # {}
  BY DEF Rated
<1>2. PICK r \in ratings : \A k \in ratings : r <= k
  <2> HIDE DEF ratings
  <2> QED
    BY <1>1, LeastElement
<1> DEFINE times == {p.joinTime : p \in {q \in S : q.rating = r}}
<1>3. times \in SUBSET Nat /\ times # {}
  BY <1>2 DEF Rated
<1>4. PICK j \in times : \A k \in times : j <= k
  <2> HIDE DEF times
  <2> QED
    BY <1>3, LeastElement
<1>5. PICK p \in S : p.rating = r /\ p.joinTime = j
  BY <1>4
<1>6. ASSUME NEW o \in S \ {p} PROVE Before(p, o)
  <2>1. /\ o.rating \in Int /\ o.joinTime \in Int /\ p.rating \in Int /\ p.joinTime \in Int
    BY DEF Rated
  <2>2. p.rating <= o.rating
    BY <1>2, <1>5
  <2>3. o.rating = p.rating => p.joinTime <= o.joinTime
    BY <1>4, <1>5
  <2>4. ~ SameKey(p, o)
    BY DEF DistinctKeys
  <2> QED
    BY <2>1, <2>2, <2>3, <2>4 DEF SameKey, Before
<1>7. \E q \in S : \A o \in S \ {q} : Before(q, o)
  BY <1>6
<1> QED
  BY <1>7 DEF First

(* What tryFindMatch takes: two players of the list, the second within the *)
(* first one's range.                                                      *)
LEMMA FindMatchFact ==
  ASSUME NEW Q, Rated(Q), DistinctKeys(Q), NEW n, HasMatch(Q, n),
         NEW m, m = FindMatch(Q, n)
  PROVE  /\ m \in [first : Q, second : Q] /\ m.first # m.second
         /\ m.second \in Candidates(Q, m.first, n)
<1>1. Seekers(Q, n) \in SUBSET Q /\ Seekers(Q, n) # {}
  BY DEF Seekers, HasMatch
<1>2. First(Seekers(Q, n)) \in Seekers(Q, n)
  <2>1. DistinctKeys(Seekers(Q, n)) /\ Rated(Seekers(Q, n))
    BY <1>1 DEF DistinctKeys, Rated
  <2> QED
    BY <1>1, <2>1, FirstFact
<1> DEFINE f == First(Seekers(Q, n))
<1>3. f \in Q /\ Candidates(Q, f, n) # {}
  BY <1>1, <1>2 DEF Seekers
<1>4. m = [first |-> f, second |-> First(Candidates(Q, f, n))]
  BY DEF FindMatch
<1> HIDE DEF f
<1>5. Candidates(Q, f, n) \in SUBSET Q /\ f \notin Candidates(Q, f, n)
  BY DEF Candidates
<1>6. First(Candidates(Q, f, n)) \in Candidates(Q, f, n)
  <2>1. DistinctKeys(Candidates(Q, f, n)) /\ Rated(Candidates(Q, f, n))
    BY <1>5 DEF DistinctKeys, Rated
  <2> QED
    BY <1>3, <2>1, FirstFact
<1>7. m.first = f /\ m.second = First(Candidates(Q, f, n))
  BY <1>4
<1> QED
  BY <1>3, <1>4, <1>5, <1>6, <1>7

LEMMA SameKeySymmetric == \A p, q : SameKey(p, q) => SameKey(q, p)
  BY DEF SameKey

(* The set takes one player at most for each rating and second.            *)
LEMMA InsertFact ==
  ASSUME NEW Q, DistinctKeys(Q), NEW p
  PROVE  /\ DistinctKeys(Insert(Q, p))
         /\ Insert(Q, p) = Q \/ Insert(Q, p) = Q \union {p}
         /\ Insert(Q, p) = Q => p \in Q \/ \E o \in Q : SameKey(o, p)
<1>1. CASE \E o \in Q : SameKey(o, p)
  BY <1>1 DEF Insert
<1>2. CASE ~ \E o \in Q : SameKey(o, p)
  <2>1. Insert(Q, p) = Q \union {p}
    BY <1>2 DEF Insert
  <2>2. \A o \in Q : ~ SameKey(o, p) /\ ~ SameKey(p, o)
    BY <1>2 DEF SameKey
  <2> QED
    BY <2>1, <2>2 DEF DistinctKeys
<1> QED
  BY <1>1, <1>2

-----------------------------------------------------------------------------

LEMMA WaitingFact ==
  ASSUME NEW p \in Waiting
  PROVE  /\ p.client \in Client /\ p.rating \in Nat /\ p.joinTime \in Nat
         /\ p.rating \in Int /\ p.joinTime \in Int
<1>1. p.client \in Client /\ p.rating \in Rating /\ p.joinTime \in 0..LastJoin
  BY DEF Waiting
<1>2. p.rating \in Nat
  BY <1>1, MatchmakerAssumption
<1>3. p.joinTime \in Nat
  BY <1>1, MatchmakerAssumption
<1> QED
  BY <1>1, <1>2, <1>3

LEMMA WaitingRated == ASSUME NEW S \in SUBSET Waiting PROVE Rated(S)
  BY WaitingFact DEF Rated

-----------------------------------------------------------------------------
(* A waiting or matched player is the one a client that was added built.   *)
Known == /\ \A c \in Client : asked[c] # NotAsked => asked[c].client = c
         /\ \A c \in added : asked[c] # NotAsked
         /\ \A p \in players \union Paired : \E c \in added : p = asked[c]

QueueInv == TypeOK /\ DistinctKeys(players) /\ IsFiniteSet(players) /\ Known

LEMMA QueueInit == Init => QueueInv /\ MatchedOnce /\ OnlyTiesVanish
<1> SUFFICES ASSUME Init PROVE QueueInv /\ MatchedOnce /\ OnlyTiesVanish
  OBVIOUS
<1>1. Paired = {}
  BY DEF Init, Paired
<1>2. TypeOK
  <2>1. 0 \in 0..LastSecond /\ 0 \in Nat
    BY MatchmakerAssumption
  <2> QED
    BY <2>1 DEF Init, TypeOK
<1>3. IsFiniteSet({})
  BY FS_EmptySet
<1> QED
  BY <1>1, <1>2, <1>3 DEF Init, QueueInv, DistinctKeys, Known, MatchedOnce, OnlyTiesVanish

(* One pair is taken from the list.                                        *)
LEMMA MatchFact ==
  ASSUME QueueInv, TryFindMatch, HasMatch(players, now)
  PROVE  \E m \in [first : players, second : players] :
           /\ m.first # m.second
           /\ m.second \in Candidates(players, m.first, now)
           /\ matches' = matches \union {m}
           /\ players' = (players \ {m.first}) \ {m.second}
           /\ Paired' = Paired \union {m.first, m.second}
           /\ total_matches' = total_matches + 1
<1>1. PICK m : m = FindMatch(players, now)
  OBVIOUS
<1>2. /\ matches' = matches \union {m} /\ players' = Removed(players, m)
      /\ total_matches' = total_matches + 1
  BY <1>1 DEF TryFindMatch
<1>3. /\ m \in [first : players, second : players] /\ m.first # m.second
      /\ m.second \in Candidates(players, m.first, now)
  <2>1. Rated(players) /\ DistinctKeys(players)
    BY WaitingRated DEF QueueInv, TypeOK
  <2> QED
    BY <1>1, <2>1, FindMatchFact
<1>4. Paired' = Paired \union {m.first, m.second}
  BY <1>2 DEF Paired
<1> QED
  BY <1>2, <1>3, <1>4 DEF Removed

LEMMA NoMatchFact ==
  ASSUME TryFindMatch, ~ HasMatch(players, now)
  PROVE  UNCHANGED <<players, matches, total_matches>>
  BY DEF TryFindMatch

LEMMA TypeNext ==
  ASSUME QueueInv, [Next]_vars
  PROVE  TypeOK'
<1>0. /\ players \subseteq Waiting /\ asked \in [Client -> Waiting \union {NotAsked}]
      /\ added \subseteq Client /\ matches \subseteq [first : Waiting, second : Waiting]
      /\ total_players \in Nat /\ total_matches \in Nat
      /\ now \in 0..LastSecond /\ LastSecond \in Nat /\ LastJoin \in Nat
  BY MatchmakerAssumption DEF QueueInv, TypeOK
<1>1. ASSUME NEW c \in Client, NEW r \in Rating, Arrive(c, r) PROVE TypeOK'
  <2>1. now \in 0..LastJoin
    BY <1>0, <1>1 DEF Arrive
  <2>2. [client |-> c, rating |-> r, joinTime |-> now] \in Waiting
    BY <2>1 DEF Waiting
  <2>3. asked' \in [Client -> Waiting \union {NotAsked}]
    BY <1>0, <1>1, <2>2 DEF Arrive
  <2> QED
    BY <1>1, <2>3 DEF Arrive, QueueInv, TypeOK
<1>2. ASSUME NEW c \in Client, AddPlayer(c) PROVE TypeOK'
  <2>1. asked[c] \in Waiting
    BY <1>0, <1>2 DEF AddPlayer
  <2>2. players' \subseteq Waiting
    BY <1>0, <1>2, <2>1 DEF AddPlayer, Insert
  <2>3. added' \subseteq Client /\ total_players' \in Nat
    BY <1>0, <1>2 DEF AddPlayer
  <2>4. thread' \in {"check", "find", "predicate", "falling asleep", "asleep", "done"}
    BY <1>2 DEF AddPlayer, Notify, QueueInv, TypeOK
  <2> QED
    BY <1>2, <2>2, <2>3, <2>4 DEF AddPlayer, QueueInv, TypeOK
<1>3. ASSUME TryFindMatch PROVE TypeOK'
  <2>1. /\ UNCHANGED <<asked, added, total_players, shutdown_flag, owner, now>>
        /\ thread' \in {"check", "predicate"}
    BY <1>3 DEF TryFindMatch
  <2>2. players' \subseteq Waiting /\ matches' \subseteq [first : Waiting, second : Waiting]
        /\ total_matches' \in Nat
    <3>1. CASE HasMatch(players, now)
      <4>1. PICK m \in [first : players, second : players] :
              /\ matches' = matches \union {m}
              /\ players' = (players \ {m.first}) \ {m.second}
              /\ total_matches' = total_matches + 1
        BY <1>3, <3>1, MatchFact
      <4>2. m \in [first : Waiting, second : Waiting]
        BY <1>0
      <4> QED
        BY <1>0, <4>1, <4>2
    <3>2. CASE ~ HasMatch(players, now)
      BY <1>0, <1>3, <3>2, NoMatchFact
    <3> QED
      BY <3>1, <3>2
  <2> QED
    BY <2>1, <2>2 DEF QueueInv, TypeOK
<1>4. CASE CheckFlag
  BY <1>4 DEF CheckFlag, QueueInv, TypeOK
<1>5. CASE Predicate \/ FallAsleep \/ TimedOut \/ SpuriousWakeup
  BY <1>5 DEF Predicate, FallAsleep, TimedOut, SpuriousWakeup, QueueInv, TypeOK
<1>6. CASE SetFlag \/ NotifyAll
  BY <1>6 DEF SetFlag, NotifyAll, Notify, QueueInv, TypeOK
<1>7. CASE Tick
  <2>1. now' \in 0..LastSecond
    BY <1>0, <1>7 DEF Tick
  <2> QED
    BY <1>7, <2>1 DEF Tick, QueueInv, TypeOK
<1>8. CASE UNCHANGED vars
  BY <1>8 DEF vars, QueueInv, TypeOK
<1> QED
  BY <1>1, <1>2, <1>3, <1>4, <1>5, <1>6, <1>7, <1>8 DEF Next

(* Everything else keeps the list, the pairs and the clients' own data.    *)
LEMMA OtherSteps ==
  ASSUME [Next]_vars,
         ~ (\E c \in Client, r \in Rating : Arrive(c, r)),
         ~ (\E c \in Client : AddPlayer(c)), ~ TryFindMatch
  PROVE  UNCHANGED <<players, asked, added, matches, total_players, total_matches>>
  BY DEF Next, vars, CheckFlag, Predicate, FallAsleep, TimedOut, SpuriousWakeup, SetFlag,
         NotifyAll, Tick

LEMMA QueueNext ==
  ASSUME QueueInv, MatchedOnce, OnlyTiesVanish, [Next]_vars
  PROVE  QueueInv' /\ MatchedOnce' /\ OnlyTiesVanish'
<1>0. /\ TypeOK' /\ DistinctKeys(players) /\ IsFiniteSet(players) /\ Known /\ TypeOK
  BY TypeNext DEF QueueInv
<1>1. ASSUME NEW c \in Client, NEW r \in Rating, Arrive(c, r)
      PROVE  QueueInv' /\ MatchedOnce' /\ OnlyTiesVanish'
  <2>1. /\ UNCHANGED <<players, added, matches>> /\ asked[c] = NotAsked
        /\ asked' = [asked EXCEPT ![c] = [client |-> c, rating |-> r, joinTime |-> now]]
    BY <1>1 DEF Arrive
  <2>2. UNCHANGED Paired
    BY <2>1 DEF Paired
  <2>3. c \notin added
    BY <1>0, <2>1 DEF Known
  <2>4. /\ \A d \in Client \ {c} : asked'[d] = asked[d]
        /\ asked'[c].client = c
    BY <1>0, <2>1 DEF TypeOK
  <2>5. added \subseteq Client /\ \A d \in added : asked'[d] = asked[d]
    BY <1>0, <2>3, <2>4 DEF TypeOK
  <2>6. Known'
    BY <1>0, <2>1, <2>2, <2>4, <2>5 DEF Known
  <2>7. OnlyTiesVanish'
    BY <2>1, <2>2, <2>5 DEF OnlyTiesVanish
  <2>8. MatchedOnce'
    BY <2>1, <2>2 DEF MatchedOnce
  <2>9. DistinctKeys(players') /\ IsFiniteSet(players')
    BY <1>0, <2>1
  <2> QED
    BY <1>0, <2>6, <2>7, <2>8, <2>9 DEF QueueInv, DistinctKeys
<1>2. ASSUME NEW c \in Client, AddPlayer(c)
      PROVE  QueueInv' /\ MatchedOnce' /\ OnlyTiesVanish'
  <2> DEFINE p == asked[c]
  <2>1. /\ UNCHANGED <<asked, matches>> /\ p # NotAsked /\ c \notin added
        /\ added' = added \union {c} /\ players' = Insert(players, p)
    BY <1>2 DEF AddPlayer
  <2>2. UNCHANGED Paired
    BY <2>1 DEF Paired
  <2>3. \A d \in added : p # asked[d]
    <3> SUFFICES ASSUME NEW d \in added, p = asked[d] PROVE FALSE
      OBVIOUS
    <3>1. d \in Client /\ d # c
      BY <1>0, <2>1 DEF TypeOK
    <3>2. asked[c].client = c /\ asked[d].client = d
      BY <1>0, <2>1, <3>1 DEF Known
    <3> QED
      BY <3>1, <3>2
  <2>4. p \notin players \union Paired
    BY <1>0, <2>3 DEF Known
  <2> HIDE DEF p
  <2>5. CASE \E o \in players : SameKey(o, p)
    <3>1. players' = players
      BY <2>1, <2>5 DEF Insert
    <3>2. PICK o \in players, d \in added : SameKey(o, p) /\ o = asked[d]
      BY <1>0, <2>5 DEF Known
    <3>3. SameKey(p, asked[d]) /\ d # c
      BY <2>1, <3>2, SameKeySymmetric
    <3>4. Known'
      BY <1>0, <2>1, <2>2, <3>1 DEF Known, p
    <3>5. OnlyTiesVanish'
      <4> SUFFICES ASSUME NEW x \in added'
                   PROVE  (\/ asked[x] \in players \union Paired
                           \/ \E y \in added \ {x} : SameKey(asked[x], asked[y]))'
        BY DEF OnlyTiesVanish
      <4>1. CASE x = c
        BY <2>1, <3>3, <4>1 DEF p
      <4>2. CASE x \in added
        BY <2>1, <2>2, <3>1, <4>2 DEF OnlyTiesVanish
      <4> QED
        BY <2>1, <4>1, <4>2
    <3> QED
      BY <1>0, <2>1, <2>2, <3>1, <3>4, <3>5 DEF QueueInv, MatchedOnce, DistinctKeys
  <2>6. CASE ~ \E o \in players : SameKey(o, p)
    <3>1. players' = players \union {p}
      BY <2>1, <2>6 DEF Insert
    <3>2. DistinctKeys(players')
      BY <1>0, <2>6, <3>1, SameKeySymmetric DEF DistinctKeys
    <3>3. IsFiniteSet(players')
      BY <1>0, <3>1, AddFact
    <3>4. Known'
      BY <1>0, <2>1, <2>2, <3>1 DEF Known, p
    <3>5. MatchedOnce'
      BY <2>1, <2>2, <2>4, <3>1 DEF MatchedOnce
    <3>6. OnlyTiesVanish'
      <4> SUFFICES ASSUME NEW x \in added'
                   PROVE  (\/ asked[x] \in players \union Paired
                           \/ \E y \in added \ {x} : SameKey(asked[x], asked[y]))'
        BY DEF OnlyTiesVanish
      <4>1. CASE x = c
        BY <2>1, <3>1, <4>1 DEF p
      <4>2. CASE x \in added
        BY <2>1, <2>2, <3>1, <4>2 DEF OnlyTiesVanish
      <4> QED
        BY <2>1, <4>1, <4>2
    <3> QED
      BY <1>0, <3>2, <3>3, <3>4, <3>5, <3>6 DEF QueueInv, DistinctKeys
  <2> QED
    BY <2>5, <2>6
<1>3. ASSUME UNCHANGED <<players, asked, added, matches>>
      PROVE  QueueInv' /\ MatchedOnce' /\ OnlyTiesVanish'
  <2>1. UNCHANGED Paired
    BY <1>3 DEF Paired
  <2> QED
    BY <1>0, <1>3, <2>1 DEF QueueInv, MatchedOnce, OnlyTiesVanish, Known, DistinctKeys
<1>4. ASSUME TryFindMatch
      PROVE  QueueInv' /\ MatchedOnce' /\ OnlyTiesVanish'
  <2>1. UNCHANGED <<asked, added>>
    BY <1>4 DEF TryFindMatch
  <2>2. CASE ~ HasMatch(players, now)
    BY <1>3, <1>4, <2>1, <2>2, NoMatchFact
  <2>3. CASE HasMatch(players, now)
    <3>1. PICK m \in [first : players, second : players] :
            /\ m.first # m.second
            /\ matches' = matches \union {m}
            /\ players' = (players \ {m.first}) \ {m.second}
            /\ Paired' = Paired \union {m.first, m.second}
      BY <1>4, <2>3, MatchFact
    <3>2. m.first \in players /\ m.second \in players
      OBVIOUS
    <3>3. players' \subseteq players /\ players' \union Paired' = players \union Paired
      BY <3>1, <3>2
    <3>4. \A n \in matches : n.first \in Paired /\ n.second \in Paired
      BY DEF Paired
    <3>5. MatchedOnce'
      <4>1. Paired \cap players = {}
        BY DEF MatchedOnce
      <4>2. \A n \in matches : {m.first, m.second} \cap {n.first, n.second} = {}
        BY <3>2, <3>4, <4>1
      <4>3. Paired' \cap players' = {}
        BY <3>1, <3>3, <4>1
      <4>4. \A n \in matches' : n.first # n.second
        BY <3>1 DEF MatchedOnce
      <4>5. \A k, n \in matches' : k # n => {k.first, k.second} \cap {n.first, n.second} = {}
        BY <3>1, <4>2 DEF MatchedOnce
      <4> QED
        BY <4>3, <4>4, <4>5 DEF MatchedOnce
    <3>6. DistinctKeys(players')
      BY <1>0, <3>3 DEF DistinctKeys
    <3>7. IsFiniteSet(players')
      BY <1>0, <3>3, FS_Subset
    <3>8. Known'
      BY <1>0, <2>1, <3>3 DEF Known
    <3>9. OnlyTiesVanish'
      BY <2>1, <3>3 DEF OnlyTiesVanish
    <3> QED
      BY <1>0, <3>5, <3>6, <3>7, <3>8, <3>9 DEF QueueInv, DistinctKeys
  <2> QED
    BY <2>2, <2>3
<1> QED
  BY <1>1, <1>2, <1>3, <1>4, OtherSteps

-----------------------------------------------------------------------------
Lost == {c \in added : asked[c] \notin players \union Paired}
StatsInv == StatsAddUp /\ IsFiniteSet(added)

LEMMA LostFact ==
  StatsAddUp <=> total_players - (Cardinality(players) + 2 * total_matches) = Cardinality(Lost)
  BY DEF StatsAddUp, Lost

LEMMA StatsNext ==
  ASSUME QueueInv, StatsInv, [Next]_vars
  PROVE  StatsInv'
<1>0. /\ IsFiniteSet(players) /\ IsFiniteSet(added) /\ Known
      /\ total_players \in Nat /\ total_matches \in Nat
      /\ total_players - (Cardinality(players) + 2 * total_matches) = Cardinality(Lost)
  BY LostFact DEF QueueInv, StatsInv, TypeOK
<1>1. IsFiniteSet(Lost) /\ Cardinality(Lost) \in Nat /\ Cardinality(players) \in Nat
  <2>1. Lost \in SUBSET added
    BY DEF Lost
  <2> QED
    BY <1>0, <2>1, FS_Subset, FS_CardinalityType
<1>2. ASSUME UNCHANGED <<players, added, total_players, total_matches>>, Lost' = Lost
      PROVE  StatsInv'
  <2>1. (total_players - (Cardinality(players) + 2 * total_matches) = Cardinality(Lost))'
    BY <1>0, <1>2
  <2> QED
    BY <1>0, <1>2, <2>1 DEF StatsInv, StatsAddUp, Lost
<1>3. ASSUME NEW c \in Client, NEW r \in Rating, Arrive(c, r) PROVE StatsInv'
  <2>1. /\ UNCHANGED <<players, added, matches, total_players, total_matches>>
        /\ asked[c] = NotAsked
        /\ asked' = [asked EXCEPT ![c] = [client |-> c, rating |-> r, joinTime |-> now]]
    BY <1>3 DEF Arrive
  <2>2. UNCHANGED Paired
    BY <2>1 DEF Paired
  <2>3. \A d \in added : asked'[d] = asked[d]
    BY <1>0, <2>1 DEF Known, QueueInv, TypeOK
  <2>4. Lost' = Lost
    BY <2>1, <2>2, <2>3 DEF Lost
  <2> QED
    BY <1>2, <2>1, <2>4
<1>4. ASSUME NEW c \in Client, AddPlayer(c) PROVE StatsInv'
  <2> DEFINE p == asked[c]
  <2>1. /\ UNCHANGED <<asked, matches, total_matches>> /\ p # NotAsked /\ c \notin added
        /\ added' = added \union {c} /\ players' = Insert(players, p)
        /\ total_players' = total_players + 1
    BY <1>4 DEF AddPlayer
  <2>2. UNCHANGED Paired
    BY <2>1 DEF Paired
  <2>3. \A d \in added : p # asked[d]
    <3> SUFFICES ASSUME NEW d \in added, p = asked[d] PROVE FALSE
      OBVIOUS
    <3>1. d \in Client /\ d # c
      BY <2>1 DEF QueueInv, TypeOK
    <3>2. asked[c].client = c /\ asked[d].client = d
      BY <1>0, <2>1, <3>1 DEF Known
    <3> QED
      BY <3>1, <3>2
  <2>4. p \notin players \union Paired
    BY <1>0, <2>3 DEF Known
  <2>5. IsFiniteSet(added')
    BY <1>0, <2>1, AddFact
  <2> HIDE DEF p
  <2>6. (total_players - (Cardinality(players) + 2 * total_matches) = Cardinality(Lost))'
    <3>1. CASE players' = players
      <4>1. Lost' = Lost \union {c} /\ c \notin Lost
        BY <2>1, <2>2, <2>4, <3>1 DEF Lost, p
      <4>2. Cardinality(Lost') = Cardinality(Lost) + 1
        BY <1>1, <4>1, AddFact
      <4> QED
        BY <1>0, <1>1, <2>1, <3>1, <4>2
    <3>2. CASE players' = players \union {p}
      <4>1. Lost' = Lost
        BY <2>1, <2>2, <2>3, <3>2 DEF Lost, p
      <4>2. Cardinality(players') = Cardinality(players) + 1
        BY <1>0, <2>4, <3>2, AddFact
      <4> QED
        BY <1>0, <1>1, <2>1, <4>1, <4>2
    <3> QED
      BY <2>1, <3>1, <3>2 DEF Insert
  <2> QED
    BY <2>5, <2>6 DEF StatsInv, StatsAddUp, Lost
<1>5. ASSUME TryFindMatch PROVE StatsInv'
  <2>1. UNCHANGED <<asked, added, total_players>>
    BY <1>5 DEF TryFindMatch
  <2>2. CASE ~ HasMatch(players, now)
    <3>1. UNCHANGED <<players, matches, total_matches>>
      BY <1>5, <2>2, NoMatchFact
    <3>2. Lost' = Lost
      BY <2>1, <3>1 DEF Lost, Paired
    <3> QED
      BY <1>2, <2>1, <3>1, <3>2
  <2>3. CASE HasMatch(players, now)
    <3>1. PICK m \in [first : players, second : players] :
            /\ m.first # m.second
            /\ players' = (players \ {m.first}) \ {m.second}
            /\ Paired' = Paired \union {m.first, m.second}
            /\ total_matches' = total_matches + 1
      BY <1>5, <2>3, MatchFact
    <3>2. m.first \in players /\ m.second \in players \ {m.first}
      BY <3>1
    <3>3. Lost' = Lost
      BY <2>1, <3>1, <3>2 DEF Lost
    <3>4. /\ IsFiniteSet(players \ {m.first})
          /\ Cardinality(players \ {m.first}) = Cardinality(players) - 1
      BY <1>0, <3>2, RemoveFact
    <3>5. Cardinality(players') = Cardinality(players \ {m.first}) - 1
      BY <3>1, <3>2, <3>4, RemoveFact
    <3>6. (total_players - (Cardinality(players) + 2 * total_matches) = Cardinality(Lost))'
      BY <1>0, <1>1, <2>1, <3>1, <3>3, <3>4, <3>5
    <3> QED
      BY <1>0, <2>1, <3>6 DEF StatsInv, StatsAddUp, Lost
  <2> QED
    BY <2>2, <2>3
<1>6. ASSUME UNCHANGED <<players, asked, added, matches, total_players, total_matches>>
      PROVE  StatsInv'
  <2>1. Lost' = Lost
    BY <1>6 DEF Lost, Paired
  <2> QED
    BY <1>2, <1>6, <2>1
<1> QED
  BY <1>3, <1>4, <1>5, <1>6, OtherSteps

-----------------------------------------------------------------------------
LEMMA SleepNext ==
  ASSUME QueueInv, NeverSleepsOnAPair, [Next]_vars
  PROVE  NeverSleepsOnAPair'
<1>1. ASSUME NEW c \in Client, AddPlayer(c) PROVE NeverSleepsOnAPair'
  BY <1>1 DEF AddPlayer, MutexFree, Notify, NeverSleepsOnAPair
<1>2. CASE TryFindMatch
  BY <1>2 DEF TryFindMatch, NeverSleepsOnAPair
<1>3. CASE Predicate
  <2>1. players' = players /\ (Cardinality(players) >= 2 => thread' = "check")
    BY <1>3 DEF Predicate
  <2>2. Cardinality(players) \in Nat
    BY FS_CardinalityType DEF QueueInv
  <2>3. CASE Cardinality(players) >= 2
    BY <2>1, <2>3 DEF NeverSleepsOnAPair
  <2>4. CASE Cardinality(players) < 2
    BY <2>1, <2>4 DEF NeverSleepsOnAPair
  <2> QED
    BY <2>2, <2>3, <2>4
<1>4. ASSUME NEW c \in Client, NEW r \in Rating, Arrive(c, r) PROVE NeverSleepsOnAPair'
  BY <1>4 DEF Arrive, NeverSleepsOnAPair
<1>5. CASE CheckFlag \/ FallAsleep \/ TimedOut \/ SpuriousWakeup
  BY <1>5 DEF CheckFlag, FallAsleep, TimedOut, SpuriousWakeup, NeverSleepsOnAPair
<1>6. CASE SetFlag \/ NotifyAll \/ Tick \/ UNCHANGED vars
  BY <1>6 DEF SetFlag, NotifyAll, Notify, Tick, vars, NeverSleepsOnAPair
<1> QED
  BY <1>1, <1>2, <1>3, <1>4, <1>5, <1>6 DEF Next

-----------------------------------------------------------------------------
(* Who joined earlier has the wider range.                                 *)
LEMMA WiderRange ==
  ASSUME NEW p \in Waiting, NEW q \in Waiting, NEW n \in Int, p.joinTime <= q.joinTime
  PROVE  /\ DynamicMaxDiff(p, n) \in Int /\ DynamicMaxDiff(q, n) \in Int
         /\ DynamicMaxDiff(q, n) <= DynamicMaxDiff(p, n)
<1>1. /\ p.joinTime \in Int /\ q.joinTime \in Int
      /\ BaseDiff \in Int /\ DiffPerSecond \in Nat
  BY WaitingFact, MatchQueueAssumption
<1>2. \A a \in Nat : \A x, y \in Int : x <= y => a * x <= a * y /\ a * x \in Int /\ a * y \in Int
  OBVIOUS
<1>3. n - p.joinTime \in Int /\ n - q.joinTime \in Int /\ n - q.joinTime <= n - p.joinTime
  BY <1>1
<1>4. DiffPerSecond * (n - q.joinTime) <= DiffPerSecond * (n - p.joinTime)
      /\ DiffPerSecond * (n - q.joinTime) \in Int /\ DiffPerSecond * (n - p.joinTime) \in Int
  BY <1>1, <1>2, <1>3
<1> QED
  BY <1>1, <1>4 DEF DynamicMaxDiff

LEMMA CandidateInReach ==
  ASSUME TypeOK, NEW p \in players, NEW q \in Candidates(players, p, now)
  PROVE  Gap(p, q) <= Reach(p, q)
<1>1. p \in Waiting /\ q \in Waiting /\ q \in players /\ now \in Int
  <2>1. p \in Waiting /\ q \in Waiting /\ q \in players
    BY DEF TypeOK, Candidates
  <2>2. now \in 0..LastSecond
    BY DEF TypeOK
  <2> QED
    BY <2>1, <2>2
<1>2. p.rating \in Int /\ q.rating \in Int /\ p.joinTime \in Int /\ q.joinTime \in Int
  BY <1>1, WaitingFact
<1>3. /\ p.rating - DynamicMaxDiff(p, now) <= q.rating
      /\ q.rating < p.rating + DynamicMaxDiff(p, now)
  BY DEF Candidates
<1>4. CASE p.joinTime <= q.joinTime
  <2>1. Reach(p, q) = DynamicMaxDiff(p, now) /\ DynamicMaxDiff(p, now) \in Int
    BY <1>1, <1>4, WiderRange DEF Reach
  <2> QED
    BY <1>2, <1>3, <2>1 DEF Gap
<1>5. CASE q.joinTime < p.joinTime
  <2>1. Reach(p, q) = DynamicMaxDiff(q, now)
    BY <1>2, <1>5 DEF Reach
  <2>2. /\ DynamicMaxDiff(p, now) <= DynamicMaxDiff(q, now)
        /\ DynamicMaxDiff(p, now) \in Int /\ DynamicMaxDiff(q, now) \in Int
    BY <1>1, <1>2, <1>5, WiderRange
  <2> QED
    BY <1>2, <1>3, <2>1, <2>2 DEF Gap
<1> QED
  BY <1>2, <1>4, <1>5

LEMMA NoCandidateFar ==
  ASSUME TypeOK, ~ HasMatch(players, now), NEW p \in players, NEW q \in players, p # q
  PROVE  Gap(p, q) >= Reach(p, q)
<1>1. p \in Waiting /\ q \in Waiting /\ now \in Int
  <2>1. p \in Waiting /\ q \in Waiting /\ now \in 0..LastSecond
    BY DEF TypeOK
  <2> QED
    BY <2>1
<1>2. p.rating \in Int /\ q.rating \in Int /\ p.joinTime \in Int /\ q.joinTime \in Int
  BY <1>1, WaitingFact
<1>3. \A x, y \in players : x # y =>
        ~ (/\ x.rating - DynamicMaxDiff(x, now) <= y.rating
           /\ y.rating < x.rating + DynamicMaxDiff(x, now))
  BY DEF HasMatch, Seekers, Candidates
<1>4. CASE p.joinTime <= q.joinTime
  <2>1. Reach(p, q) = DynamicMaxDiff(p, now) /\ DynamicMaxDiff(p, now) \in Int
    BY <1>1, <1>4, WiderRange DEF Reach
  <2> QED
    BY <1>2, <1>3, <2>1 DEF Gap
<1>5. CASE q.joinTime < p.joinTime
  <2>1. Reach(p, q) = DynamicMaxDiff(q, now) /\ DynamicMaxDiff(q, now) \in Int
    BY <1>1, <1>2, <1>5, WiderRange DEF Reach
  <2> QED
    BY <1>2, <1>3, <2>1 DEF Gap
<1> QED
  BY <1>2, <1>4, <1>5

InReach ==
  /\ \A m \in matches' \ matches : Gap(m.first, m.second) <= Reach(m.first, m.second)
  /\ thread = "find" /\ thread' = "predicate"
       => \A p, q \in players : p # q => Gap(p, q) >= Reach(p, q)

LEMMA ReachStep ==
  ASSUME QueueInv, [Next]_vars
  PROVE  InReach
<1>1. CASE TryFindMatch /\ HasMatch(players, now)
  <2>1. PICK m \in [first : players, second : players] :
          /\ m.second \in Candidates(players, m.first, now)
          /\ matches' = matches \union {m}
    BY <1>1, MatchFact
  <2>2. thread' # "predicate"
    BY <1>1 DEF TryFindMatch
  <2>3. Gap(m.first, m.second) <= Reach(m.first, m.second)
    BY <2>1, CandidateInReach DEF QueueInv
  <2> QED
    BY <2>1, <2>2, <2>3 DEF InReach
<1>2. CASE TryFindMatch /\ ~ HasMatch(players, now)
  BY <1>2, NoMatchFact, NoCandidateFar DEF InReach, QueueInv
<1>3. ASSUME NEW c \in Client, NEW r \in Rating, Arrive(c, r) PROVE InReach
  BY <1>3 DEF Arrive, InReach
<1>4. ASSUME NEW c \in Client, AddPlayer(c) PROVE InReach
  BY <1>4 DEF AddPlayer, Notify, InReach
<1>5. CASE CheckFlag \/ Predicate \/ FallAsleep \/ TimedOut \/ SpuriousWakeup
  BY <1>5 DEF CheckFlag, Predicate, FallAsleep, TimedOut, SpuriousWakeup, InReach
<1>6. CASE SetFlag \/ NotifyAll \/ Tick \/ UNCHANGED vars
  BY <1>6 DEF SetFlag, NotifyAll, Notify, Tick, vars, InReach
<1> QED
  BY <1>1, <1>2, <1>3, <1>4, <1>5, <1>6 DEF Next

-----------------------------------------------------------------------------
IInv == QueueInv /\ MatchedOnce /\ OnlyTiesVanish /\ StatsInv /\ NeverSleepsOnAPair

LEMMA InvInit == Init => IInv
<1> SUFFICES ASSUME Init PROVE IInv
  OBVIOUS
<1>1. QueueInv /\ MatchedOnce /\ OnlyTiesVanish
  BY QueueInit
<1>2. Cardinality({}) = 0 /\ IsFiniteSet({})
  BY FS_EmptySet
<1>3. Lost = {} /\ players = {} /\ total_players = 0 /\ total_matches = 0 /\ added = {}
  BY DEF Init, Lost
<1>4. StatsInv
  <2>1. total_players - (Cardinality(players) + 2 * total_matches) = Cardinality(Lost)
    BY <1>2, <1>3
  <2> QED
    BY <1>2, <1>3, <2>1, LostFact DEF StatsInv
<1>5. NeverSleepsOnAPair
  BY DEF Init, NeverSleepsOnAPair
<1> QED
  BY <1>1, <1>4, <1>5 DEF IInv

LEMMA InvNext == IInv /\ [Next]_vars => IInv'
  BY QueueNext, StatsNext, SleepNext DEF IInv

(* The inductive invariant holds, whoever comes and whatever the owner and *)
(* the scheduler do.                                                       *)
THEOREM Inductive == Spec => []IInv
  BY InvInit, InvNext, PTL DEF Spec

(* The variables keep the types the class declares.                        *)
THEOREM TypeCorrect == Spec => []TypeOK
<1>1. IInv => TypeOK
  BY DEF IInv, QueueInv
<1> QED
  BY <1>1, Inductive, PTL

(* tryFindMatch pairs nobody with himself or twice, and who was paired     *)
(* left the list.                                                          *)
THEOREM NobodyMatchedTwice == Spec => []MatchedOnce
<1>1. IInv => MatchedOnce
  BY DEF IInv
<1> QED
  BY <1>1, Inductive, PTL

(* Who was added waits or is paired, unless another client had the same    *)
(* rating and joinTime.                                                    *)
THEOREM NobodyElseVanishes == Spec => []OnlyTiesVanish
<1>1. IInv => OnlyTiesVanish
  BY DEF IInv
<1> QED
  BY <1>1, Inductive, PTL

(* The three numbers of printStats differ by exactly the players dropped.  *)
THEOREM StatsCountTheLost == Spec => []StatsAddUp
<1>1. IInv => StatsAddUp
  BY DEF IInv, StatsInv
<1> QED
  BY <1>1, Inductive, PTL

(* The matching thread never sleeps while two players wait.                *)
THEOREM NoLostWakeup == Spec => []NeverSleepsOnAPair
<1>1. IInv => NeverSleepsOnAPair
  BY DEF IInv
<1> QED
  BY <1>1, Inductive, PTL

(* A pair that tryFindMatch takes is within the reach of the one who       *)
(* waited longer, and when it takes none, no two players are.              *)
THEOREM NearestReach == Spec => PairsWithinReach
<1>1. IInv /\ [Next]_vars => [InReach]_vars
  BY ReachStep DEF IInv
<1> QED
  BY <1>1, Inductive, PTL DEF Spec, PairsWithinReach, InReach

-----------------------------------------------------------------------------
(***************************************************************************)
(* The condition variables of thread_pause.cpp, next to the matchmaker's.  *)
(* simple_server_coro.cpp 63-111, whose coroutines look for pairs in that  *)
(* waiting list, has a pool of the same design.                            *)
(***************************************************************************)
(* Where the two threads of PausableThread can be.                         *)
ThreadTyped ==
  /\ is_paused \in BOOLEAN /\ should_stop \in BOOLEAN
  /\ worker \in {"loop", "first wait", "asleep at first", "check", "work",
                 "second wait", "asleep at second", "gone"}
  /\ thread_owner \in {"free", "resumed", "stopped", "joining", "done"}

(* The unit that began after pause is under way or has led the worker into *)
(* the second wait, which it does not leave before resume, unless to stop. *)
UnitsCounted ==
  begun \in 0..2 /\ (is_paused =>
               /\ begun <= 1
               /\ begun = 1 => \/ should_stop
                               \/ worker \in {"work", "second wait", "asleep at second"})

(* A worker sleeps where it need not only while a notification is due.     *)
WakeupDue ==
  Thread!Asleep /\ Thread!MayRun => thread_owner \in {"resumed", "stopped"}

ThreadInv == ThreadTyped /\ UnitsCounted /\ WakeupDue

LEMMA ThreadInvInit == Thread!Init => ThreadInv
<1> SUFFICES ASSUME Thread!Init PROVE ThreadInv
  OBVIOUS
<1>1. ThreadTyped
  BY DEF Thread!Init, ThreadTyped
<1>2. UnitsCounted /\ WakeupDue
  BY DEF Thread!Init, UnitsCounted, WakeupDue, Thread!Asleep
<1> QED
  BY <1>1, <1>2 DEF ThreadInv

LEMMA ThreadInvNext ==
  ASSUME ThreadInv, [Thread!Next]_(Thread!vars)
  PROVE  ThreadInv'
<1> USE DEF ThreadInv, Thread!Asleep, Thread!MayRun
<1>1. CASE Thread!LoopTest
  <2>1. ThreadTyped'
    BY <1>1 DEF ThreadTyped, Thread!LoopTest
  <2>2. UnitsCounted'
    BY <1>1 DEF ThreadTyped, UnitsCounted, Thread!LoopTest
  <2>3. WakeupDue'
    BY <1>1 DEF ThreadTyped, WakeupDue, Thread!LoopTest
  <2> QED
    BY <2>1, <2>2, <2>3
<1>2. CASE Thread!WaitBeforeWork
  <2>1. ThreadTyped'
    BY <1>2 DEF ThreadTyped, Thread!WaitBeforeWork
  <2>2. UnitsCounted'
    BY <1>2 DEF ThreadTyped, UnitsCounted, Thread!WaitBeforeWork
  <2>3. WakeupDue'
    BY <1>2 DEF ThreadTyped, WakeupDue, Thread!WaitBeforeWork
  <2> QED
    BY <2>1, <2>2, <2>3
<1>3. CASE Thread!BeginWork
  <2>1. ThreadTyped'
    BY <1>3 DEF ThreadTyped, Thread!BeginWork
  <2>2. UnitsCounted'
    <3>1. begun \in 0..2 /\ UNCHANGED <<is_paused, should_stop>> /\ worker = "check"
      BY <1>3 DEF UnitsCounted, Thread!BeginWork
    <3>2. CASE should_stop
      BY <1>3, <3>1, <3>2 DEF UnitsCounted, Thread!BeginWork
    <3>3. CASE ~ should_stop
      <4>1. worker' = "work" /\ begun' = IF begun < 2 THEN begun + 1 ELSE 2
        BY <1>3, <3>3 DEF Thread!BeginWork
      <4>2. begun' \in 0..2
        BY <3>1, <4>1
      <4>3. is_paused => begun # 1 /\ begun <= 1
        BY <3>1, <3>3 DEF UnitsCounted
      <4>4. is_paused => begun' <= 1
        BY <3>1, <4>1, <4>3
      <4> QED
        BY <3>1, <4>1, <4>2, <4>4 DEF UnitsCounted
    <3> QED
      BY <3>2, <3>3
  <2>3. WakeupDue'
    BY <1>3 DEF ThreadTyped, WakeupDue, Thread!BeginWork
  <2> QED
    BY <2>1, <2>2, <2>3
<1>4. CASE Thread!EndWork
  <2>1. ThreadTyped'
    BY <1>4 DEF ThreadTyped, Thread!EndWork
  <2>2. UnitsCounted'
    BY <1>4 DEF ThreadTyped, UnitsCounted, Thread!EndWork
  <2>3. WakeupDue'
    BY <1>4 DEF ThreadTyped, WakeupDue, Thread!EndWork
  <2> QED
    BY <2>1, <2>2, <2>3
<1>5. CASE Thread!WaitAfterWork
  <2>1. ThreadTyped'
    BY <1>5 DEF ThreadTyped, Thread!WaitAfterWork
  <2>2. UnitsCounted'
    BY <1>5 DEF ThreadTyped, UnitsCounted, Thread!WaitAfterWork
  <2>3. WakeupDue'
    BY <1>5 DEF ThreadTyped, WakeupDue, Thread!WaitAfterWork
  <2> QED
    BY <2>1, <2>2, <2>3
<1>6. CASE Thread!WakeUnasked
  <2>1. ThreadTyped'
    BY <1>6 DEF ThreadTyped, Thread!WakeUnasked, Thread!Woken
  <2>2. UnitsCounted'
    BY <1>6 DEF ThreadTyped, UnitsCounted, Thread!WakeUnasked, Thread!Woken
  <2>3. WakeupDue'
    BY <1>6 DEF ThreadTyped, WakeupDue, Thread!WakeUnasked, Thread!Woken
  <2> QED
    BY <2>1, <2>2, <2>3
<1>7. CASE Thread!Pause
  <2>1. ThreadTyped'
    BY <1>7 DEF ThreadTyped, Thread!Pause
  <2>2. UnitsCounted'
    <3>1. begun' = 0
      BY <1>7 DEF Thread!Pause
    <3>2. begun' \in 0..2 /\ begun' <= 1 /\ begun' # 1
      BY <3>1
    <3> QED
      BY <3>2 DEF UnitsCounted
  <2>3. WakeupDue'
    BY <1>7 DEF ThreadTyped, WakeupDue, Thread!Pause
  <2> QED
    BY <2>1, <2>2, <2>3
<1>8. CASE Thread!Resume
  <2>1. ThreadTyped'
    BY <1>8 DEF ThreadTyped, Thread!Resume
  <2>2. UnitsCounted'
    BY <1>8 DEF ThreadTyped, UnitsCounted, Thread!Resume
  <2>3. WakeupDue'
    BY <1>8 DEF ThreadTyped, WakeupDue, Thread!Resume
  <2> QED
    BY <2>1, <2>2, <2>3
<1>9. CASE Thread!Stop
  <2>1. ThreadTyped'
    BY <1>9 DEF ThreadTyped, Thread!Stop
  <2>2. UnitsCounted'
    BY <1>9 DEF ThreadTyped, UnitsCounted, Thread!Stop
  <2>3. WakeupDue'
    BY <1>9 DEF ThreadTyped, WakeupDue, Thread!Stop
  <2> QED
    BY <2>1, <2>2, <2>3
<1>10. CASE Thread!Notify
  <2>1. ThreadTyped'
    BY <1>10 DEF ThreadTyped, Thread!Notify, Thread!Woken
  <2>2. UnitsCounted'
    BY <1>10 DEF ThreadTyped, UnitsCounted, Thread!Notify, Thread!Woken
  <2>3. WakeupDue'
    BY <1>10 DEF ThreadTyped, WakeupDue, Thread!Notify, Thread!Woken
  <2> QED
    BY <2>1, <2>2, <2>3
<1>11. CASE Thread!Join
  <2>1. ThreadTyped'
    BY <1>11 DEF ThreadTyped, Thread!Join
  <2>2. UnitsCounted'
    BY <1>11 DEF ThreadTyped, UnitsCounted, Thread!Join
  <2>3. WakeupDue'
    BY <1>11 DEF ThreadTyped, WakeupDue, Thread!Join
  <2> QED
    BY <2>1, <2>2, <2>3
<1>12. CASE UNCHANGED Thread!vars
  <2>1. ThreadTyped'
    BY <1>12 DEF ThreadTyped, Thread!vars
  <2>2. UnitsCounted'
    BY <1>12 DEF ThreadTyped, UnitsCounted, Thread!vars
  <2>3. WakeupDue'
    BY <1>12 DEF ThreadTyped, WakeupDue, Thread!vars
  <2> QED
    BY <2>1, <2>2, <2>3
<1> QED
  BY <1>1, <1>2, <1>3, <1>4, <1>5, <1>6, <1>7, <1>8, <1>9, <1>10, <1>11, <1>12
  DEF Thread!Next, Thread!WorkerStep

-----------------------------------------------------------------------------
(* The scanner sleeps on an empty list only: addGame wakes it inside its   *)
(* section.                                                                *)
ScannerRests == scanner = "asleep" => games_ = <<>>

LEMMA ScannerRestsNext ==
  ASSUME ScannerRests, [Games!Next]_(Games!vars)
  PROVE  ScannerRests'
BY DEF ScannerRests, Games!Next, Games!vars, Games!Scanner,
       Games!WaitForGames, Games!UpdateAllGames,
       Games!RemoveFinishedGames, Games!PrintGames,
       Games!WakeUnasked, Games!AddGame, Games!NotifyOne

-----------------------------------------------------------------------------
(* The pool: tasks were given to workers in order, the rest lie in order.  *)
Begun == enqueued - Len(tasks)

PoolTyped ==
  /\ tasks \in Seq(Nat) /\ enqueued \in Nat /\ stop \in BOOLEAN
  /\ pc \in [Worker -> {"wait", "asleep", "run", "gone"}]
  /\ task \in [Worker -> Nat]
  /\ pool_owner \in {"free", "enqueued", "stopped", "joining", "done"}

TasksInOrder ==
  Len(tasks) <= enqueued /\ \A i \in 1..Len(tasks) : tasks[i] = Begun + i

EachTaskOnce ==
  \A w \in Worker : pc[w] = "run" =>
    /\ task[w] \in 1..Begun
    /\ \A v \in Worker : pc[v] = "run" /\ v # w => task[v] # task[w]

ClosedByOwner ==
  /\ stop <=> pool_owner \in {"stopped", "joining", "done"}
  /\ \A w \in Worker : pc[w] = "gone" => stop /\ tasks = <<>>
  /\ pool_owner = "done" => \A w \in Worker : pc[w] = "gone"

(* No task is left to workers who sleep: one is up, or about to be called. *)
TaskHeard ==
  tasks # <<>> => \/ pool_owner \in {"enqueued", "stopped"}
                  \/ \E w \in Worker : pc[w] \in {"wait", "run"}

(* Once the destructor joins the workers, none of them sleeps.             *)
AllCalled == stop /\ pool_owner # "stopped" => \A w \in Worker : pc[w] # "asleep"

PoolInv == /\ PoolTyped /\ TasksInOrder /\ EachTaskOnce
           /\ ClosedByOwner /\ TaskHeard /\ AllCalled

LEMMA PoolInvInit == Pool!Init => PoolInv
<1> SUFFICES ASSUME Pool!Init PROVE PoolInv
  OBVIOUS
<1> USE DEF Pool!Init
<1>1. tasks \in Seq(Nat) /\ Len(tasks) = 0
  BY EmptySeq
<1>2. PoolTyped
  BY <1>1 DEF PoolTyped
<1>3. TasksInOrder
  BY <1>1 DEF TasksInOrder
<1>4. EachTaskOnce /\ ClosedByOwner /\ TaskHeard /\ AllCalled
  BY DEF EachTaskOnce, ClosedByOwner, TaskHeard, AllCalled
<1> QED
  BY <1>2, <1>3, <1>4 DEF PoolInv

(* Taking the front of the queue begins the next task in turn.             *)
LEMMA TakeInTurn ==
  ASSUME PoolTyped, TasksInOrder, tasks # <<>>,
         tasks' = Tail(tasks), enqueued' = enqueued
  PROVE  /\ Head(tasks) = Begun + 1 /\ Begun' = Begun + 1
         /\ Begun \in Nat /\ Begun < enqueued
         /\ tasks' \in Seq(Nat) /\ TasksInOrder'
<1> DEFINE n == Len(tasks)
<1>1. n \in Nat \ {0} /\ enqueued \in Nat /\ n <= enqueued
  BY EmptySeq DEF PoolTyped, TasksInOrder
<1>2. tasks' \in Seq(Nat) /\ Len(tasks') = n - 1
      /\ \A i \in 1..Len(tasks') : tasks'[i] = tasks[i + 1]
  BY HeadTailProperties DEF PoolTyped
<1>3. Head(tasks) = tasks[1]
  BY DEF PoolTyped
<1>4. \A i \in 1..n : tasks[i] = enqueued - n + i
  BY DEF TasksInOrder, Begun
<1> HIDE DEF n
<1>5. tasks[1] = enqueued - n + 1
  BY <1>1, <1>4
<1>6. Begun = enqueued - n /\ Begun' = enqueued - (n - 1)
  BY <1>2 DEF Begun, n
<1>7. \A i \in 1..Len(tasks') : tasks'[i] = Begun' + i
  <2> TAKE i \in 1..Len(tasks')
  <2>1. i + 1 \in 1..n /\ i \in Nat
    BY <1>1, <1>2
  <2>2. tasks'[i] = enqueued - n + (i + 1)
    BY <1>2, <1>4, <2>1
  <2> QED
    BY <1>1, <1>6, <2>1, <2>2
<1>8. Len(tasks') <= enqueued'
  BY <1>1, <1>2
<1>9. TasksInOrder'
  BY <1>7, <1>8 DEF TasksInOrder
<1>10. Begun' = Begun + 1 /\ Begun \in Nat /\ Begun < enqueued
  BY <1>1, <1>6
<1> QED
  BY <1>2, <1>3, <1>5, <1>6, <1>9, <1>10

(* Enqueueing begins no task and keeps the order.                          *)
LEMMA EnqueueInTurn ==
  ASSUME PoolTyped, TasksInOrder,
         enqueued' = enqueued + 1, tasks' = Append(tasks, enqueued')
  PROVE  /\ Begun' = Begun /\ tasks' # <<>>
         /\ tasks' \in Seq(Nat) /\ TasksInOrder'
<1> DEFINE n == Len(tasks)
<1>1. n \in Nat /\ enqueued \in Nat /\ n <= enqueued
  BY LenProperties DEF PoolTyped, TasksInOrder
<1>2. enqueued' \in Nat
  BY <1>1
<1>3. /\ tasks' \in Seq(Nat) /\ tasks' # <<>> /\ Len(tasks') = n + 1
      /\ \A i \in 1..n : tasks'[i] = tasks[i]
      /\ tasks'[n + 1] = enqueued'
  BY <1>2, AppendProperties DEF PoolTyped
<1>4. \A i \in 1..n : tasks[i] = enqueued - n + i
  BY DEF TasksInOrder, Begun
<1> HIDE DEF n
<1>5. Begun = enqueued - n /\ Begun' = enqueued + 1 - (n + 1)
  <2>1. Begun = enqueued - n
    BY DEF Begun, n
  <2>2. Begun' = enqueued' - Len(tasks')
    BY DEF Begun
  <2> QED
    BY <1>1, <1>2, <1>3, <2>1, <2>2
<1>6. \A i \in 1..Len(tasks') : tasks'[i] = Begun' + i
  <2> TAKE i \in 1..Len(tasks')
  <2>1. i \in 1..n \/ i = n + 1
    BY <1>1, <1>3
  <2>2. CASE i \in 1..n
    BY <1>1, <1>3, <1>4, <1>5, <2>2
  <2>3. CASE i = n + 1
    BY <1>1, <1>3, <1>5, <2>3
  <2> QED
    BY <2>1, <2>2, <2>3
<1>7. Len(tasks') <= enqueued'
  BY <1>1, <1>3
<1>8. TasksInOrder'
  BY <1>6, <1>7 DEF TasksInOrder
<1>9. Begun' = Begun
  BY <1>1, <1>5
<1> QED
  BY <1>3, <1>8, <1>9

LEMMA PoolInvNext ==
  ASSUME PoolInv, [Pool!Next]_(Pool!vars)
  PROVE  PoolInv'
<1> USE DEF PoolInv
<1>1. ASSUME NEW w \in Worker, Pool!Wait(w) PROVE PoolInv'
  <2>0. UNCHANGED <<stop, enqueued, pool_owner>> /\ pc[w] = "wait"
    BY <1>1 DEF Pool!Wait
  <2>1. CASE tasks = <<>> /\ ~ stop /\ pc' = [pc EXCEPT ![w] = "asleep"]
             /\ UNCHANGED <<tasks, task>>
    <3>1. PoolTyped'
      BY <2>0, <2>1 DEF PoolTyped
    <3>2. TasksInOrder' /\ Begun' = Begun
      BY <2>0, <2>1 DEF TasksInOrder, Begun
    <3>3. EachTaskOnce'
      BY <2>0, <2>1, <3>2 DEF EachTaskOnce, PoolTyped
    <3>4. ClosedByOwner'
      BY <2>0, <2>1 DEF ClosedByOwner, PoolTyped
    <3>5. TaskHeard' /\ AllCalled'
      BY <2>0, <2>1 DEF TaskHeard, AllCalled
    <3> QED
      BY <3>1, <3>2, <3>3, <3>4, <3>5
  <2>2. CASE stop /\ tasks = <<>> /\ pc' = [pc EXCEPT ![w] = "gone"]
             /\ UNCHANGED <<tasks, task>>
    <3>1. PoolTyped'
      BY <2>0, <2>2 DEF PoolTyped
    <3>2. TasksInOrder' /\ Begun' = Begun
      BY <2>0, <2>2 DEF TasksInOrder, Begun
    <3>3. EachTaskOnce'
      BY <2>0, <2>2, <3>2 DEF EachTaskOnce, PoolTyped
    <3>4. ClosedByOwner'
      BY <2>0, <2>2 DEF ClosedByOwner, PoolTyped
    <3>5. TaskHeard' /\ AllCalled'
      BY <2>0, <2>2 DEF TaskHeard, AllCalled, PoolTyped
    <3> QED
      BY <3>1, <3>2, <3>3, <3>4, <3>5
  <2>3. CASE tasks # <<>> /\ task' = [task EXCEPT ![w] = Head(tasks)]
             /\ tasks' = Tail(tasks) /\ pc' = [pc EXCEPT ![w] = "run"]
    <3>0. /\ Head(tasks) = Begun + 1 /\ Begun' = Begun + 1
          /\ Begun \in Nat /\ tasks' \in Seq(Nat) /\ TasksInOrder'
      BY <2>0, <2>3, TakeInTurn
    <3> DEFINE k == Begun + 1
    <3>1. k \in Nat /\ k # 0 /\ \A t \in 1..Begun : t \in 1..k /\ t # k
      BY <3>0
    <3>2. k \in 1..Begun' /\ 1..Begun' = 1..k
      BY <3>0
    <3>3. task' = [task EXCEPT ![w] = k]
      BY <2>3, <3>0
    <3> HIDE DEF k
    <3>4. PoolTyped'
      BY <2>0, <2>3, <3>0, <3>1, <3>3 DEF PoolTyped
    <3>5. EachTaskOnce'
      <4>1. /\ task'[w] = k /\ pc'[w] = "run"
            /\ \A v \in Worker : v # w => task'[v] = task[v] /\ pc'[v] = pc[v]
        BY <2>3, <3>3 DEF PoolTyped
      <4>2. \A v \in Worker : v # w /\ pc[v] = "run" => task[v] \in 1..k /\ task[v] # k
        BY <3>1 DEF EachTaskOnce
      <4>3. k \in 1..k
        BY <3>1
      <4>4. \A v \in Worker : pc'[v] = "run" => task'[v] \in 1..Begun'
        BY <3>2, <4>1, <4>2, <4>3
      <4>5. \A u, v \in Worker : pc'[u] = "run" /\ pc'[v] = "run" /\ v # u
              => task'[v] # task'[u]
        BY <4>1, <4>2 DEF EachTaskOnce
      <4> QED
        BY <4>4, <4>5 DEF EachTaskOnce
    <3>6. ClosedByOwner'
      <4>1. \A v \in Worker : pc'[v] = "gone" => pc[v] = "gone"
        BY <2>3 DEF PoolTyped
      <4>2. pool_owner # "done"
        BY <2>0 DEF ClosedByOwner
      <4> QED
        BY <2>0, <2>3, <4>1, <4>2 DEF ClosedByOwner
    <3>7. TaskHeard' /\ AllCalled'
      BY <2>0, <2>3 DEF TaskHeard, AllCalled, PoolTyped
    <3> QED
      BY <3>0, <3>4, <3>5, <3>6, <3>7
  <2> QED
    BY <1>1, <2>1, <2>2, <2>3 DEF Pool!Wait, Pool!Leaves
<1>2. ASSUME NEW w \in Worker, Pool!RunTask(w) PROVE PoolInv'
  <2>0. /\ pc[w] = "run" /\ pc' = [pc EXCEPT ![w] = "wait"]
        /\ task' = [task EXCEPT ![w] = 0]
        /\ UNCHANGED <<tasks, stop, enqueued, pool_owner>>
    BY <1>2 DEF Pool!RunTask
  <2>1. PoolTyped'
    BY <2>0 DEF PoolTyped
  <2>2. TasksInOrder' /\ Begun' = Begun
    BY <2>0 DEF TasksInOrder, Begun
  <2>3. EachTaskOnce'
    BY <2>0, <2>2 DEF EachTaskOnce, PoolTyped
  <2>4. ClosedByOwner'
    BY <2>0 DEF ClosedByOwner, PoolTyped
  <2>5. TaskHeard' /\ AllCalled'
    BY <2>0 DEF TaskHeard, AllCalled, PoolTyped
  <2> QED
    BY <2>1, <2>2, <2>3, <2>4, <2>5
<1>3. ASSUME NEW w \in Worker, Pool!WakeUnasked(w) PROVE PoolInv'
  <2>0. /\ pc[w] = "asleep" /\ pc' = [pc EXCEPT ![w] = "wait"]
        /\ UNCHANGED <<tasks, stop, task, enqueued, pool_owner>>
    BY <1>3 DEF Pool!WakeUnasked
  <2>1. PoolTyped'
    BY <2>0 DEF PoolTyped
  <2>2. TasksInOrder' /\ Begun' = Begun
    BY <2>0 DEF TasksInOrder, Begun
  <2>3. EachTaskOnce'
    BY <2>0, <2>2 DEF EachTaskOnce, PoolTyped
  <2>4. ClosedByOwner'
    BY <2>0 DEF ClosedByOwner, PoolTyped
  <2>5. TaskHeard' /\ AllCalled'
    BY <2>0 DEF TaskHeard, AllCalled, PoolTyped
  <2> QED
    BY <2>1, <2>2, <2>3, <2>4, <2>5
<1>4. CASE Pool!Enqueue
  <2>0. /\ pool_owner = "free" /\ pool_owner' = "enqueued"
        /\ enqueued' = enqueued + 1 /\ tasks' = Append(tasks, enqueued')
        /\ UNCHANGED <<stop, pc, task>>
    BY <1>4 DEF Pool!Enqueue
  <2>1. Begun' = Begun /\ tasks' \in Seq(Nat) /\ TasksInOrder'
    BY <2>0, EnqueueInTurn
  <2>2. enqueued' \in Nat
    BY <2>0 DEF PoolTyped
  <2>3. PoolTyped'
    BY <2>0, <2>1, <2>2 DEF PoolTyped
  <2>4. EachTaskOnce'
    BY <2>0, <2>1 DEF EachTaskOnce
  <2>5. ~ stop
    BY <2>0 DEF ClosedByOwner
  <2>6. ClosedByOwner' /\ TaskHeard' /\ AllCalled'
    BY <2>0, <2>5 DEF ClosedByOwner, TaskHeard, AllCalled
  <2> QED
    BY <2>1, <2>3, <2>4, <2>6
<1>5. CASE Pool!Destroy
  <2>0. /\ pool_owner = "free" /\ pool_owner' = "stopped" /\ stop' = TRUE
        /\ UNCHANGED <<tasks, pc, task, enqueued>>
    BY <1>5 DEF Pool!Destroy
  <2>1. PoolTyped'
    BY <2>0 DEF PoolTyped
  <2>2. TasksInOrder' /\ Begun' = Begun
    BY <2>0 DEF TasksInOrder, Begun
  <2>3. EachTaskOnce'
    BY <2>0, <2>2 DEF EachTaskOnce
  <2>4. ClosedByOwner' /\ TaskHeard' /\ AllCalled'
    BY <2>0 DEF ClosedByOwner, TaskHeard, AllCalled
  <2> QED
    BY <2>1, <2>2, <2>3, <2>4
<1>6. CASE Pool!Notify
  <2>0. /\ pool_owner \in {"enqueued", "stopped"}
        /\ pool_owner' = IF pool_owner = "enqueued" THEN "free" ELSE "joining"
        /\ UNCHANGED <<tasks, stop, task, enqueued>>
    BY <1>6 DEF Pool!Notify
  <2>1. PICK woken \in Pool!Notified :
          pc' = [w \in Worker |-> IF w \in woken THEN "wait" ELSE pc[w]]
    BY <1>6 DEF Pool!Notify
  <2>2. /\ woken \subseteq Pool!Sleeping
        /\ Pool!Sleeping # {} => woken # {}
        /\ pool_owner = "stopped" => woken = Pool!Sleeping
    BY <2>1 DEF Pool!Notified
  <2>3. \A w \in Worker : /\ pc'[w] = "run" <=> pc[w] = "run"
                          /\ pc'[w] = "gone" <=> pc[w] = "gone"
                          /\ pc'[w] = "wait" <=> pc[w] = "wait" \/ w \in woken
    BY <2>1, <2>2 DEF PoolTyped, Pool!Sleeping
  <2>4. PoolTyped'
    BY <2>0, <2>1 DEF PoolTyped
  <2>5. TasksInOrder' /\ Begun' = Begun
    BY <2>0 DEF TasksInOrder, Begun
  <2>6. EachTaskOnce'
    BY <2>0, <2>3, <2>5 DEF EachTaskOnce
  <2>7. ClosedByOwner'
    BY <2>0, <2>3 DEF ClosedByOwner
  <2>8. AllCalled'
    <3>1. CASE pool_owner = "stopped"
      BY <2>1, <2>2, <3>1 DEF AllCalled, Pool!Sleeping
    <3>2. CASE pool_owner = "enqueued"
      BY <2>0, <3>2 DEF AllCalled, ClosedByOwner
    <3> QED
      BY <2>0, <3>1, <3>2
  <2>9. TaskHeard'
    <3>1. SUFFICES ASSUME tasks # <<>> PROVE \E w \in Worker : pc'[w] \in {"wait", "run"}
      BY <2>0 DEF TaskHeard
    <3>2. CASE Pool!Sleeping = {}
      <4>1. PICK w \in Worker : TRUE
        BY ThreadStudiesAssumption
      <4>2. pc[w] \in {"wait", "run"}
        BY <3>1, <3>2 DEF PoolTyped, ClosedByOwner, Pool!Sleeping
      <4> QED
        BY <2>3, <4>2
    <3>3. CASE Pool!Sleeping # {}
      BY <2>2, <2>3, <3>3 DEF Pool!Sleeping
    <3> QED
      BY <3>2, <3>3
  <2> QED
    BY <2>4, <2>5, <2>6, <2>7, <2>8, <2>9
<1>7. CASE Pool!Join
  <2>0. /\ pool_owner = "joining" /\ pool_owner' = "done"
        /\ \A w \in Worker : pc[w] = "gone"
        /\ UNCHANGED <<tasks, stop, pc, task, enqueued>>
    BY <1>7 DEF Pool!Join
  <2>1. PoolTyped'
    BY <2>0 DEF PoolTyped
  <2>2. TasksInOrder' /\ Begun' = Begun
    BY <2>0 DEF TasksInOrder, Begun
  <2>3. EachTaskOnce'
    BY <2>0, <2>2 DEF EachTaskOnce
  <2>4. ClosedByOwner' /\ TaskHeard' /\ AllCalled'
    BY <2>0 DEF ClosedByOwner, TaskHeard, AllCalled
  <2> QED
    BY <2>1, <2>2, <2>3, <2>4
<1>8. CASE UNCHANGED Pool!vars
  <2>0. UNCHANGED <<tasks, stop, pc, task, enqueued, pool_owner>>
    BY <1>8 DEF Pool!vars
  <2>1. PoolTyped'
    BY <2>0 DEF PoolTyped
  <2>2. TasksInOrder' /\ Begun' = Begun
    BY <2>0 DEF TasksInOrder, Begun
  <2>3. EachTaskOnce'
    BY <2>0, <2>2 DEF EachTaskOnce
  <2>4. ClosedByOwner' /\ TaskHeard' /\ AllCalled'
    BY <2>0 DEF ClosedByOwner, TaskHeard, AllCalled
  <2> QED
    BY <2>1, <2>2, <2>3, <2>4
<1> QED
  BY <1>1, <1>2, <1>3, <1>4, <1>5, <1>6, <1>7, <1>8 DEF Pool!Next

-----------------------------------------------------------------------------
(* The pool against TaskBag.                                               *)
AtWork == {task[w] : w \in {v \in Worker : pc[v] = "run"}}

(* While one worker has no task, fewer tasks run than there are workers.   *)
LEMMA WorkerFree ==
  ASSUME NEW w \in Worker, pc[w] # "run"
  PROVE  Cardinality(AtWork) < Cardinality(Worker)
<1> DEFINE S == {v \in Worker : pc[v] = "run"}
           f == [v \in S |-> task[v]]
<1>1. S \in SUBSET Worker /\ S # Worker
  OBVIOUS
<1>2. f \in Surjection(S, AtWork)
  BY DEF Surjection, AtWork
<1> HIDE DEF S, f
<1>3. /\ IsFiniteSet(S) /\ Cardinality(S) <= Cardinality(Worker)
      /\ Cardinality(S) # Cardinality(Worker)
  BY <1>1, ThreadStudiesAssumption, FS_Subset
<1>4. IsFiniteSet(AtWork) /\ Cardinality(AtWork) <= Cardinality(S)
  BY <1>2, <1>3, FS_Surjection
<1>5. Cardinality(S) \in Nat /\ Cardinality(Worker) \in Nat /\ Cardinality(AtWork) \in Nat
  BY <1>3, <1>4, ThreadStudiesAssumption, FS_CardinalityType
<1> QED
  BY <1>3, <1>4, <1>5

LEMMA BagInit == Pool!Init => Pool!Bag!Init
<1> SUFFICES ASSUME Pool!Init PROVE Pool!Bag!Init
  OBVIOUS
<1>1. enqueued = 0 /\ Len(tasks) = 0 /\ stop = FALSE /\ (pool_owner = "done") = FALSE
  BY EmptySeq DEF Pool!Init
<1>2. enqueued - Len(tasks) = 0
  BY <1>1
<1>3. {task[w] : w \in {v \in Worker : pc[v] = "run"}} = {}
  BY DEF Pool!Init
<1> QED
  BY <1>1, <1>2, <1>3 DEF Pool!Bag!Init

(* What the pool has begun and has in hand is what the bag has; the next   *)
(* four lemmas say which steps of it are steps of the bag.                 *)
LEMMA BagStutters ==
  ASSUME UNCHANGED <<enqueued, Begun, AtWork, stop>>,
         (pool_owner = "done")' = (pool_owner = "done")
  PROVE  UNCHANGED Pool!Bag!vars
BY DEF Pool!Bag!vars, Begun, AtWork

(* One counting of sets, by whichever name the instances call it.          *)
LEMMA OneCardinality ==
  ASSUME NEW S
  PROVE  /\ Pool!Cardinality(S) = Cardinality(S)
         /\ Pool!Bag!Cardinality(S) = Cardinality(S)
BY DEF Cardinality, Pool!Cardinality, Pool!Bag!Cardinality

LEMMA BagBegins ==
  ASSUME Begun < enqueued, Cardinality(AtWork) < Cardinality(Worker),
         Begun' = Begun + 1, AtWork' = AtWork \union {Begun'},
         UNCHANGED <<enqueued, stop>>, (pool_owner = "done")' = (pool_owner = "done")
  PROVE  Pool!Bag!Next
<1>1. /\ enqueued - Len(tasks) < enqueued
      /\ (enqueued - Len(tasks))' = enqueued - Len(tasks) + 1
  BY DEF Begun
<1>2. {task[w] : w \in {v \in Worker : pc[v] = "run"}}'
        = {task[w] : w \in {v \in Worker : pc[v] = "run"}} \union {(enqueued - Len(tasks))'}
  BY DEF Begun, AtWork
<1>3. Cardinality({task[w] : w \in {v \in Worker : pc[v] = "run"}}) < Cardinality(Worker)
  BY DEF AtWork
<1>4. Pool!Bag!Begin
  BY <1>1, <1>2, <1>3, OneCardinality DEF Pool!Bag!Begin
<1> QED
  BY <1>4 DEF Pool!Bag!Next

LEMMA BagFinishes ==
  ASSUME NEW k \in AtWork, AtWork' = AtWork \ {k},
         UNCHANGED <<enqueued, Begun, stop>>, (pool_owner = "done")' = (pool_owner = "done")
  PROVE  Pool!Bag!Next
<1>1. Pool!Bag!Finish(k)
  BY DEF Pool!Bag!Finish, Begun, AtWork
<1> QED
  BY <1>1 DEF Pool!Bag!Next, AtWork

(* Every step of the pool is a step of the bag or none.                    *)
LEMMA BagNext ==
  ASSUME PoolInv, [Pool!Next]_(Pool!vars)
  PROVE  [Pool!Bag!Next]_(Pool!Bag!vars)
<1> USE DEF PoolInv
<1>1. ASSUME NEW w \in Worker, Pool!Wait(w)
      PROVE  [Pool!Bag!Next]_(Pool!Bag!vars)
  <2>0. UNCHANGED <<stop, enqueued, pool_owner>> /\ pc[w] = "wait"
    BY <1>1 DEF Pool!Wait
  <2>1. CASE UNCHANGED <<tasks, task>>
             /\ (pc' = [pc EXCEPT ![w] = "asleep"] \/ pc' = [pc EXCEPT ![w] = "gone"])
    <3>1. \A v \in Worker : pc'[v] = "run" <=> pc[v] = "run"
      BY <2>0, <2>1 DEF PoolTyped
    <3>2. UNCHANGED <<enqueued, Begun, AtWork, stop>>
      BY <2>0, <2>1, <3>1 DEF Begun, AtWork
    <3> QED
      BY <2>0, <3>2, BagStutters
  <2>2. CASE tasks # <<>> /\ task' = [task EXCEPT ![w] = Head(tasks)]
             /\ tasks' = Tail(tasks) /\ pc' = [pc EXCEPT ![w] = "run"]
    <3>1. /\ Head(tasks) = Begun + 1 /\ Begun' = Begun + 1 /\ Begun < enqueued
      BY <2>0, <2>2, TakeInTurn
    <3>2. Cardinality(AtWork) < Cardinality(Worker)
      BY <2>0, WorkerFree
    <3>3. /\ task'[w] = Begun' /\ pc'[w] = "run"
          /\ \A v \in Worker : v # w => task'[v] = task[v] /\ pc'[v] = pc[v]
      BY <2>2, <3>1 DEF PoolTyped
    <3>4. AtWork' = AtWork \union {Begun'}
      BY <2>0, <3>3 DEF AtWork
    <3> QED
      BY <2>0, <3>1, <3>2, <3>4, BagBegins
  <2> QED
    BY <1>1, <2>1, <2>2 DEF Pool!Wait, Pool!Leaves
<1>2. ASSUME NEW w \in Worker, Pool!RunTask(w)
      PROVE  [Pool!Bag!Next]_(Pool!Bag!vars)
  <2>0. /\ pc[w] = "run" /\ pc' = [pc EXCEPT ![w] = "wait"]
        /\ task' = [task EXCEPT ![w] = 0]
        /\ UNCHANGED <<tasks, stop, enqueued, pool_owner>>
    BY <1>2 DEF Pool!RunTask
  <2>1. pc'[w] = "wait" /\ \A v \in Worker : v # w => task'[v] = task[v] /\ pc'[v] = pc[v]
    BY <2>0 DEF PoolTyped
  <2>2. task[w] \in AtWork
    BY <2>0 DEF AtWork
  <2>3. \A v \in Worker : pc[v] = "run" /\ v # w => task[v] # task[w]
    BY <2>0 DEF EachTaskOnce
  <2>4. AtWork' = AtWork \ {task[w]}
    BY <2>1, <2>3 DEF AtWork
  <2>5. UNCHANGED <<enqueued, Begun, stop, pool_owner>>
    BY <2>0 DEF Begun
  <2> QED
    BY <2>2, <2>4, <2>5, BagFinishes
<1>3. ASSUME NEW w \in Worker, Pool!WakeUnasked(w)
      PROVE  [Pool!Bag!Next]_(Pool!Bag!vars)
  <2>0. /\ pc[w] = "asleep" /\ pc' = [pc EXCEPT ![w] = "wait"]
        /\ UNCHANGED <<tasks, stop, task, enqueued, pool_owner>>
    BY <1>3 DEF Pool!WakeUnasked
  <2>1. \A v \in Worker : pc'[v] = "run" <=> pc[v] = "run"
    BY <2>0 DEF PoolTyped
  <2>2. UNCHANGED <<enqueued, Begun, AtWork, stop>>
    BY <2>0, <2>1 DEF Begun, AtWork
  <2> QED
    BY <2>0, <2>2, BagStutters
<1>4. CASE Pool!Enqueue
  <2>0. /\ pool_owner = "free" /\ pool_owner' = "enqueued" /\ enqueued < MaxTasks
        /\ enqueued' = enqueued + 1 /\ tasks' = Append(tasks, enqueued')
        /\ UNCHANGED <<stop, pc, task>>
    BY <1>4 DEF Pool!Enqueue
  <2>1. Begun' = Begun
    BY <2>0, EnqueueInTurn
  <2>2. UNCHANGED <<enqueued - Len(tasks), stop>> /\ ~ stop
    BY <2>0, <2>1 DEF Begun, ClosedByOwner
  <2>3. UNCHANGED {task[w] : w \in {v \in Worker : pc[v] = "run"}}
    BY <2>0
  <2>4. (pool_owner = "done")' = (pool_owner = "done")
    BY <2>0
  <2>5. Pool!Bag!Accept
    BY <2>0, <2>2, <2>3, <2>4 DEF Pool!Bag!Accept
  <2> QED
    BY <2>5 DEF Pool!Bag!Next
<1>5. CASE Pool!Destroy
  <2>0. /\ pool_owner = "free" /\ pool_owner' = "stopped" /\ stop' = TRUE
        /\ UNCHANGED <<tasks, pc, task, enqueued>>
    BY <1>5 DEF Pool!Destroy
  <2>1. ~ stop /\ (pool_owner = "done")' = (pool_owner = "done")
    BY <2>0 DEF ClosedByOwner
  <2>2. UNCHANGED <<enqueued, enqueued - Len(tasks)>>
    BY <2>0
  <2>3. UNCHANGED {task[w] : w \in {v \in Worker : pc[v] = "run"}}
    BY <2>0
  <2>4. Pool!Bag!Close
    BY <2>0, <2>1, <2>2, <2>3 DEF Pool!Bag!Close
  <2> QED
    BY <2>4 DEF Pool!Bag!Next
<1>6. CASE Pool!Notify
  <2>0. /\ pool_owner \in {"enqueued", "stopped"}
        /\ pool_owner' = IF pool_owner = "enqueued" THEN "free" ELSE "joining"
        /\ UNCHANGED <<tasks, stop, task, enqueued>>
    BY <1>6 DEF Pool!Notify
  <2>1. PICK woken \in Pool!Notified :
          pc' = [w \in Worker |-> IF w \in woken THEN "wait" ELSE pc[w]]
    BY <1>6 DEF Pool!Notify
  <2>2. woken \subseteq Pool!Sleeping
    BY <2>1 DEF Pool!Notified
  <2>3. \A w \in Worker : pc'[w] = "run" <=> pc[w] = "run"
    BY <2>1, <2>2 DEF Pool!Sleeping
  <2>4. UNCHANGED <<enqueued, Begun, AtWork, stop>>
    BY <2>0, <2>3 DEF Begun, AtWork
  <2>5. (pool_owner = "done")' = (pool_owner = "done")
    BY <2>0
  <2> QED
    BY <2>4, <2>5, BagStutters
<1>7. CASE Pool!Join
  <2>0. /\ pool_owner = "joining" /\ pool_owner' = "done"
        /\ \A w \in Worker : pc[w] = "gone"
        /\ UNCHANGED <<tasks, stop, pc, task, enqueued>>
    BY <1>7 DEF Pool!Join
  <2>1. stop /\ tasks = <<>>
    <3>1. PICK w \in Worker : pc[w] = "gone"
      BY <2>0, ThreadStudiesAssumption
    <3> QED
      BY <3>1 DEF ClosedByOwner
  <2>2. enqueued - Len(tasks) = enqueued
    BY <2>1, EmptySeq DEF PoolTyped
  <2>3. {task[w] : w \in {v \in Worker : pc[v] = "run"}} = {}
    BY <2>0
  <2>4. UNCHANGED <<enqueued, enqueued - Len(tasks), stop>>
    BY <2>0
  <2>5. UNCHANGED {task[w] : w \in {v \in Worker : pc[v] = "run"}}
    BY <2>0
  <2>6. ~ (pool_owner = "done") /\ (pool_owner = "done")' = TRUE
    BY <2>0
  <2>7. Pool!Bag!End
    BY <2>1, <2>2, <2>3, <2>4, <2>5, <2>6 DEF Pool!Bag!End
  <2> QED
    BY <2>7 DEF Pool!Bag!Next
<1>8. CASE UNCHANGED Pool!vars
  <2>1. UNCHANGED <<enqueued, Begun, AtWork, stop, pool_owner>>
    BY <1>8 DEF Pool!vars, Begun, AtWork
  <2> QED
    BY <2>1, BagStutters
<1> QED
  BY <1>1, <1>2, <1>3, <1>4, <1>5, <1>6, <1>7, <1>8 DEF Pool!Next

-----------------------------------------------------------------------------
(* A step of the studies is a step of each of the three, or none.          *)
LEMMA StudiesNext ==
  ASSUME [StudyNext]_(studyVars)
  PROVE  /\ [Thread!Next]_(Thread!vars)
         /\ [Pool!Next]_(Pool!vars)
         /\ [Games!Next]_(Games!vars)
BY DEF StudyNext, studyVars, threadVars, poolVars, gamesVars,
       Thread!vars, Pool!vars, Games!vars

(* pause lets at most one more unit of work begin, however the worker, the *)
(* owner and unasked wakeups interleave.                                   *)
THEOREM PausedAfterOneUnit == StudySpec => []OneMoreUnit
<1>1. StudyInit => ThreadInv
  BY ThreadInvInit DEF StudyInit
<1>2. ThreadInv /\ [StudyNext]_(studyVars) => ThreadInv'
  BY StudiesNext, ThreadInvNext
<1>3. ThreadInv => OneMoreUnit
  BY DEF ThreadInv, UnitsCounted, OneMoreUnit, Thread!OneMoreUnit
<1> QED
  BY <1>1, <1>2, <1>3, PTL DEF StudySpec

(* No thread sleeps through its call: the pausable worker sleeps where it  *)
(* may run only while resume or stop is about to notify it, and the        *)
(* scanner sleeps on an empty list only.                                   *)
THEOREM NobodyOversleeps == StudySpec => [](WakeupDue /\ ScannerRests)
<1>1. StudyInit => ThreadInv /\ ScannerRests
  BY ThreadInvInit DEF StudyInit, Games!Init, ScannerRests
<1>2. ThreadInv /\ ScannerRests /\ [StudyNext]_(studyVars) => (ThreadInv /\ ScannerRests)'
  BY StudiesNext, ThreadInvNext, ScannerRestsNext
<1>3. ThreadInv /\ ScannerRests => WakeupDue /\ ScannerRests
  BY DEF ThreadInv
<1> QED
  BY <1>1, <1>2, <1>3, PTL DEF StudySpec

(* A queued task has a worker up for it or a       *)
(* notification on its way, two workers never hold one task, tasks begin   *)
(* in order, and once the destructor joins no worker sleeps.               *)
THEOREM PoolHearsItsTasks == StudySpec => []PoolInv
<1>1. StudyInit => PoolInv
  BY PoolInvInit DEF StudyInit
<1>2. PoolInv /\ [StudyNext]_(studyVars) => PoolInv'
  BY StudiesNext, PoolInvNext
<1> QED
  BY <1>1, <1>2, PTL DEF StudySpec

(* The steps of the pool are those of TaskBag: each task begins once and   *)
(* in order, no more run than there are threads, and the destructor        *)
(* returns when every task accepted is done.                               *)
THEOREM PoolStepsLikeTheBag ==
  StudySpec => /\ Pool!Bag!Init
               /\ [][Pool!Bag!Next]_(Pool!Bag!vars)
<1>1. StudyInit => Pool!Bag!Init
  BY BagInit DEF StudyInit
<1>2. PoolInv /\ [StudyNext]_(studyVars)
        => [Pool!Bag!Next]_(Pool!Bag!vars)
  BY StudiesNext, BagNext
<1>3. StudySpec => []PoolInv
  BY PoolHearsItsTasks
<1> QED
  BY <1>1, <1>2, <1>3, PTL DEF StudySpec
=============================================================================
