------------------------ MODULE SocketServer_proofs ------------------------
(***************************************************************************)
(* The invariants of SocketServer for any clients, descriptors, workers    *)
(* and bounds.  What a history of pieces needs is said about where they    *)
(* are: on the way (inbox), in a hand, in a buffer, answered.              *)
(***************************************************************************)
EXTENDS SocketServer, SequenceTheorems, WellFoundedInduction, TLAPS

(* The buffer of the entry at a descriptor, empty if there is no entry.    *)
Buffer(f) == IF f \in DOMAIN conn THEN conn[f].buffer ELSE <<>>

(* Who is somewhere is at a descriptor, and holds a piece only between its *)
(* read and its append.  Whoever serves an entry has it.                   *)
PlacesKnown ==
  /\ main.pc # "wait" => main.fd \in Fd
  /\ \A w \in Worker : /\ pc[w] # "next" => at[w] \in Fd
                       /\ pc[w] = "serve" => at[w] \in DOMAIN conn
                       /\ hand[w] # NoPiece <=> pc[w] = "append"

(* A client that has not been accepted was never answered and is behind no *)
(* descriptor; nobody is behind two.                                       *)
Newcomers ==
  /\ \A c \in Client : client[c] = "new" \/ c \in backlog =>
       answers[c] = <<>> /\ \A f \in Fd : sock[f] # c
  /\ \A c \in backlog : client[c] # "new"
  /\ \A f, g \in Fd : sock[f] = sock[g] => f = g \/ sock[f] = None

-----------------------------------------------------------------------------
(* A set of naturals with a member has a least one.                        *)
LEMMA LeastElement ==
  ASSUME NEW T \in SUBSET Nat, T # {}
  PROVE  \E m \in T : \A k \in T : m <= k
<1> DEFINE R == OpToRel(<, Nat)
<1>1. IsWellFoundedOn(R, Nat)
  BY NatLessThanWellFounded
<1>2. PICK m \in T : \A k \in T : ~ (<<k, m>> \in R)
  <2> HIDE DEF R
  <2> QED
    BY <1>1, WFMin
<1>3. ASSUME NEW k \in T PROVE m <= k
  <2>1. SUFFICES ASSUME k < m PROVE FALSE
    OBVIOUS
  <2>2. <<k, m>> \in R
    BY <2>1 DEF OpToRel
  <2> QED
    BY <1>2, <2>2
<1> QED
  BY <1>3

(* accept gives out a descriptor that is free.                             *)
LEMMA FirstFreeFact ==
  ASSUME \E f \in Fd : ~ Open(f)
  PROVE  Min({g \in Fd : ~ Open(g)}) \in {g \in Fd : ~ Open(g)}
<1>1. {g \in Fd : ~ Open(g)} \in SUBSET Nat
  BY SocketServerAssumption
<1>2. \E m \in {g \in Fd : ~ Open(g)} : \A k \in {g \in Fd : ~ Open(g)} : m <= k
  BY <1>1, LeastElement
<1> QED
  BY <1>2 DEF Min

(* The first command of a buffer is its first m pieces, for some m, and    *)
(* the rest is what follows them.                                          *)
LEMMA CommandFact ==
  ASSUME NEW b \in Seq(Piece), HasCommand(b)
  PROVE  \E m \in 1..Len(b) :
           /\ FirstCommand(b) \in Seq(Piece) /\ Len(FirstCommand(b)) = m
           /\ \A i \in 1..m : FirstCommand(b)[i] = b[i]
           /\ Rest(b) \in Seq(Piece) /\ Len(Rest(b)) = Len(b) - m
           /\ \A i \in 1..Len(b) - m : Rest(b)[i] = b[m + i]
<1> DEFINE ends == {i \in DOMAIN b : b[i].kind # "part"}
<1>1. DOMAIN b = 1..Len(b) /\ Len(b) \in Nat /\ \A i \in 1..Len(b) : b[i] \in Piece
  BY LenProperties, ElementOfSeq
<1>2. ends \in SUBSET Nat /\ ends # {}
  BY <1>1 DEF HasCommand
<1>3. \E m \in ends : \A k \in ends : m <= k
  <2> HIDE DEF ends
  <2> QED
    BY <1>2, LeastElement
<1>4. Min(ends) \in ends
  BY <1>3 DEF Min
<1>5. PICK m \in 1..Len(b) : m = Min(ends)
  BY <1>1, <1>4
<1>6. FirstCommand(b) = SubSeq(b, 1, m)
  BY <1>5 DEF FirstCommand
<1>7. /\ FirstCommand(b) \in Seq(Piece) /\ Len(FirstCommand(b)) = m
      /\ \A i \in 1..m : FirstCommand(b)[i] = b[i]
  <2> HIDE DEF ends
  <2>1. \A i \in 1..m : b[i] \in Piece
    BY <1>1
  <2>2. /\ SubSeq(b, 1, m) \in Seq(Piece)
        /\ Len(SubSeq(b, 1, m)) = IF 1 <= m THEN m - 1 + 1 ELSE 0
        /\ \A i \in 1..m - 1 + 1 : SubSeq(b, 1, m)[i] = b[1 + i - 1]
    BY <2>1, SubSeqProperties
  <2> QED
    BY <1>6, <2>2
<1>8. Rest(b) = SubSeq(b, m + 1, Len(b))
  BY <1>7 DEF Rest
<1>9. /\ Rest(b) \in Seq(Piece) /\ Len(Rest(b)) = Len(b) - m
      /\ \A i \in 1..Len(b) - m : Rest(b)[i] = b[m + i]
  <2> HIDE DEF ends
  <2>1. \A i \in m + 1..Len(b) : b[i] \in Piece
    BY <1>1
  <2>2. /\ SubSeq(b, m + 1, Len(b)) \in Seq(Piece)
        /\ Len(SubSeq(b, m + 1, Len(b))) = IF m + 1 <= Len(b) THEN Len(b) - (m + 1) + 1 ELSE 0
        /\ \A i \in 1..Len(b) - (m + 1) + 1 : SubSeq(b, m + 1, Len(b))[i] = b[m + 1 + i - 1]
    BY <1>1, <2>1, SubSeqProperties
  <2>3. Len(b) - (m + 1) + 1 = Len(b) - m /\ (~ (m + 1 <= Len(b)) => Len(b) - m = 0)
    OBVIOUS
  <2>4. ASSUME NEW i \in 1..Len(b) - m PROVE Rest(b)[i] = b[m + i]
    <3>1. m + 1 + i - 1 = m + i
      OBVIOUS
    <3> QED
      BY <1>8, <2>2, <2>3, <3>1
  <2> QED
    BY <1>8, <2>2, <2>3, <2>4
<1> QED
  BY <1>7, <1>9

LEMMA CommandSplits ==
  ASSUME NEW b \in Seq(Piece), HasCommand(b)
  PROVE  /\ FirstCommand(b) \in Seq(Piece) /\ Rest(b) \in Seq(Piece)
         /\ b = FirstCommand(b) \o Rest(b)
<1>1. PICK m \in 1..Len(b) :
           /\ FirstCommand(b) \in Seq(Piece) /\ Len(FirstCommand(b)) = m
           /\ \A i \in 1..m : FirstCommand(b)[i] = b[i]
           /\ Rest(b) \in Seq(Piece) /\ Len(Rest(b)) = Len(b) - m
           /\ \A i \in 1..Len(b) - m : Rest(b)[i] = b[m + i]
  BY CommandFact
<1>2. PICK n \in Nat : n = Len(b)
  BY LenProperties
<1>3. PICK t : t = FirstCommand(b) \o Rest(b)
  OBVIOUS
<1>4. /\ t \in Seq(Piece) /\ Len(t) = m + (n - m)
      /\ \A i \in 1..m + (n - m) :
           t[i] = IF i <= m THEN FirstCommand(b)[i] ELSE Rest(b)[i - m]
  <2>1. /\ FirstCommand(b) \o Rest(b) \in Seq(Piece)
        /\ Len(FirstCommand(b) \o Rest(b)) = Len(FirstCommand(b)) + Len(Rest(b))
        /\ \A i \in 1..Len(FirstCommand(b)) + Len(Rest(b)) : (FirstCommand(b) \o Rest(b))[i] =
              IF i <= Len(FirstCommand(b)) THEN FirstCommand(b)[i] ELSE Rest(b)[i - Len(FirstCommand(b))]
    BY <1>1, ConcatProperties
  <2> QED
    BY <1>1, <1>2, <1>3, <2>1
<1>5. m \in Nat /\ m <= n /\ m + (n - m) = n
  BY <1>2
<1>6. ASSUME NEW i \in 1..n PROVE b[i] = t[i]
  <2>1. CASE i <= m
    <3>1. t[i] = FirstCommand(b)[i] /\ i \in 1..m
      BY <1>4, <1>5, <2>1
    <3> QED
      BY <1>1, <3>1
  <2>2. CASE ~ (i <= m)
    <3>1. i - m \in 1..n - m /\ m + (i - m) = i
      BY <1>5, <2>2
    <3>2. t[i] = Rest(b)[i - m]
      BY <1>4, <1>5, <2>2
    <3>3. Rest(b)[i - m] = b[m + (i - m)]
      BY <1>1, <1>2, <3>1
    <3> QED
      BY <3>1, <3>2, <3>3
  <2> QED
    BY <2>1, <2>2
<1>7. b = t
  BY <1>2, <1>4, <1>5, <1>6, SeqEqual
<1> QED
  BY <1>1, <1>3, <1>7

-----------------------------------------------------------------------------
(* What closing descriptors leaves: the sockets, entries and buffers of    *)
(* the others.                                                             *)
LEMMA ClosedFact ==
  ASSUME TypeOK, NEW fds \in SUBSET Fd, Closed(fds)
  PROVE  /\ client' \in [Client -> {"new", "up", "left", "cut"}]
         /\ inbox' \in [Client -> Seq(Piece)]
         /\ sock' \in [Fd -> Client \union {None}]
         /\ ready' \subseteq watched' /\ watched' \subseteq Fd
         /\ DOMAIN conn' = DOMAIN conn \ fds
         /\ \A f \in DOMAIN conn \ fds : conn'[f] = conn[f]
         /\ orphans' \subseteq Piece /\ orphans \subseteq orphans'
         /\ sent' = sent /\ backlog' = backlog
         /\ \A f \in Fd : sock'[f] = IF f \in fds THEN None ELSE sock[f]
<1>1. InHand \subseteq Piece
  BY DEF TypeOK, InHand
<1>2. inbox' \in [Client -> Seq(Piece)]
  BY EmptySeq DEF TypeOK, Closed
<1>3. orphans' \subseteq Piece /\ orphans \subseteq orphans'
  BY <1>1 DEF TypeOK, Closed
<1> QED
  BY <1>2, <1>3 DEF TypeOK, Closed, SocketsAfter, EntriesAfter

(* The part of TypeOK about what closing descriptors changes.              *)
SocketsTyped ==
  /\ client \in [Client -> {"new", "up", "left", "cut"}]
  /\ sent \in [Client -> Nat]
  /\ inbox \in [Client -> Seq(Piece)]
  /\ backlog \subseteq Client
  /\ sock \in [Fd -> Client \union {None}]
  /\ ready \subseteq watched /\ watched \subseteq Fd
  /\ DOMAIN conn \subseteq Fd
  /\ \A f \in DOMAIN conn : conn[f] \in [buffer : Seq(Piece), idle : BOOLEAN]
  /\ orphans \subseteq Piece

LEMMA ClosedTyped ==
  ASSUME TypeOK, NEW fds \in SUBSET Fd, Closed(fds)
  PROVE  SocketsTyped'
<1>1. /\ sent' = sent /\ sent \in [Client -> Nat]
      /\ backlog' = backlog /\ backlog \subseteq Client
      /\ DOMAIN conn \subseteq Fd
      /\ \A f \in DOMAIN conn : conn[f] \in [buffer : Seq(Piece), idle : BOOLEAN]
  BY ClosedFact DEF TypeOK
<1>2. /\ DOMAIN conn' = DOMAIN conn \ fds
      /\ \A f \in DOMAIN conn \ fds : conn'[f] = conn[f]
  BY ClosedFact
<1>3. \A f \in DOMAIN conn' : conn'[f] \in [buffer : Seq(Piece), idle : BOOLEAN]
  BY <1>1, <1>2
<1>4. /\ client' \in [Client -> {"new", "up", "left", "cut"}]
      /\ inbox' \in [Client -> Seq(Piece)]
      /\ sock' \in [Fd -> Client \union {None}]
      /\ ready' \subseteq watched' /\ watched' \subseteq Fd /\ orphans' \subseteq Piece
  BY ClosedFact
<1> QED
  BY <1>1, <1>2, <1>3, <1>4 DEF SocketsTyped

TypesHold == TypeOK /\ PlacesKnown

LEMMA TypesInit == Init => TypesHold
<1> SUFFICES ASSUME Init PROVE TypesHold
  OBVIOUS
<1>1. conn = <<>> /\ DOMAIN conn = {} /\ <<>> \in Seq(Piece)
  BY EmptySeq DEF Init
<1>2. TypeOK
  BY <1>1, SocketServerAssumption DEF Init, TypeOK
<1>3. PlacesKnown
  BY DEF Init, PlacesKnown
<1> QED
  BY <1>2, <1>3 DEF TypesHold

WorkersTyped ==
  /\ pc \in [Worker -> {"next", "read", "append", "close", "lock", "serve", "blocked"}]
  /\ \A w \in Worker : pc[w] \in {"serve", "blocked"} <=> mutex = w
  /\ mutex \in Worker \union {None}

(* A worker's step from a place where it holds no piece to another one, and *)
(* what that says about the mutex and the places of all.                   *)
LEMMA WorkerMoves ==
  ASSUME TypeOK, PlacesKnown, NEW w \in Worker,
         NEW step \in {"next", "read", "close", "lock", "serve", "blocked"},
         pc[w] # "append", hand' = hand, pc' = [pc EXCEPT ![w] = step],
         at' \in [Worker -> Fd \union {NoFd}], \A v \in Worker \ {w} : at'[v] = at[v],
         step # "next" => at'[w] \in Fd,
         step \in {"serve", "blocked"} <=> mutex' = w,
         mutex' # mutex => mutex \in {None, w} /\ mutex' \in {None, w},
         mutex' = mutex => pc[w] \in {"serve", "blocked"} <=> step \in {"serve", "blocked"},
         step = "serve" => at'[w] \in DOMAIN conn',
         DOMAIN conn \subseteq DOMAIN conn' \/ mutex \in {None, w},
         main' = main
  PROVE  PlacesKnown' /\ WorkersTyped'
<1>1. pc \in [Worker -> {"next", "read", "append", "close", "lock", "serve", "blocked"}]
  BY DEF TypeOK
<1>2. pc' \in [Worker -> {"next", "read", "append", "close", "lock", "serve", "blocked"}]
  BY <1>1
<1>3. /\ mutex \in Worker \union {None}
      /\ \A v \in Worker : pc[v] \in {"serve", "blocked"} <=> mutex = v
  BY DEF TypeOK
<1>4. mutex' \in Worker \union {None}
  BY <1>3
<1>5. pc'[w] = step /\ \A v \in Worker \ {w} : pc'[v] = pc[v]
  BY <1>1
<1>6. ASSUME NEW v \in Worker PROVE pc'[v] \in {"serve", "blocked"} <=> mutex' = v
  <2>1. CASE v = w
    BY <1>5, <2>1
  <2>2. CASE v # w
    BY <1>3, <1>5, <2>2, SocketServerAssumption
  <2> QED
    BY <2>1, <2>2
<1>7. ASSUME NEW v \in Worker
      PROVE  /\ pc'[v] # "next" => at'[v] \in Fd
             /\ pc'[v] = "serve" => at'[v] \in DOMAIN conn'
             /\ hand'[v] # NoPiece <=> pc'[v] = "append"
  <2>1. CASE v = w
    BY <1>5, <2>1 DEF PlacesKnown
  <2>2. CASE v # w
    <3>1. pc[v] = "serve" => mutex = v /\ mutex \notin {None, w}
      BY <1>3, <2>2, SocketServerAssumption
    <3> QED
      BY <1>5, <2>2, <3>1 DEF PlacesKnown
  <2> QED
    BY <2>1, <2>2
<1>8. PlacesKnown'
  BY <1>7 DEF PlacesKnown
<1> QED
  BY <1>2, <1>4, <1>6, <1>8 DEF WorkersTyped

LEMMA TypesNext == TypesHold /\ [Next]_vars => TypesHold'
<1> SUFFICES ASSUME TypeOK, PlacesKnown, [Next]_vars PROVE TypeOK' /\ PlacesKnown'
  BY DEF TypesHold
<1> USE SocketServerAssumption
<1>1. ASSUME NEW c \in Client, Connect(c) \/ Leave(c) PROVE TypeOK' /\ PlacesKnown'
  <2>1. CASE Connect(c)
    BY <2>1 DEF Connect, TypeOK, PlacesKnown, workers, history
  <2>2. CASE Leave(c)
    BY <2>2 DEF Leave, Edge, TypeOK, PlacesKnown, workers, history
  <2> QED
    BY <1>1, <2>1, <2>2
<1>2. ASSUME NEW c \in Client, NEW kind \in Command \union {"part"}, Send(c, kind)
      PROVE  TypeOK' /\ PlacesKnown'
  <2>1. inbox' \in [Client -> Seq(Piece)]
    <3>1. [from |-> c, n |-> sent[c] + 1, kind |-> kind] \in Piece
      BY DEF TypeOK, Piece
    <3>2. Append(inbox[c], [from |-> c, n |-> sent[c] + 1, kind |-> kind]) \in Seq(Piece)
      BY <3>1, AppendProperties DEF TypeOK
    <3> QED
      BY <1>2, <3>2 DEF Send, TypeOK
  <2>2. sent' \in [Client -> Nat] /\ ready' \subseteq watched
    BY <1>2 DEF Send, Edge, TypeOK
  <2> QED
    BY <1>2, <2>1, <2>2 DEF Send, TypeOK, PlacesKnown, workers, history
<1>3. CASE MainWait
  <2>1. CASE backlog # {} /\ \E f \in Fd : ~ Open(f)
    <3>1. PICK f \in Fd : f = Min({g \in Fd : ~ Open(g)})
      BY <2>1, FirstFreeFact
    <3>2. PICK c \in backlog : /\ backlog' = backlog \ {c}
                              /\ sock' = [sock EXCEPT ![f] = c]
                              /\ main' = [pc |-> "accepted", fd |-> f]
      BY <1>3, <2>1, <3>1 DEF MainWait
    <3>3. c \in Client /\ sock' \in [Fd -> Client \union {None}]
      BY <3>2 DEF TypeOK
    <3> QED
      BY <1>3, <3>2, <3>3 DEF MainWait, TypeOK, PlacesKnown, workers, history
  <2>2. CASE ~ (backlog # {} /\ \E f \in Fd : ~ Open(f))
    BY <1>3, <2>2 DEF MainWait, TypeOK, PlacesKnown, workers, history
  <2> QED
    BY <2>1, <2>2
<1>4. CASE AddToEpoll
  BY <1>4 DEF AddToEpoll, Open, TypeOK, PlacesKnown, workers, history
<1>5. CASE InsertConnection
  <2>1. <<>> \in Seq(Piece)
    BY EmptySeq
  <2> QED
    BY <1>5, <2>1 DEF InsertConnection, TypeOK, PlacesKnown, kernel, workers, history
<1>6. ASSUME NEW w \in Worker, EpollWait(w) PROVE TypeOK' /\ PlacesKnown'
  BY <1>6 DEF EpollWait, TypeOK, PlacesKnown, workers, history
<1>7. ASSUME NEW w \in Worker, NEW f \in Fd, NextEvent(w, f) PROVE TypeOK' /\ PlacesKnown'
  <2>1. todo' \in [Worker -> SUBSET Fd]
    BY <1>7 DEF NextEvent, TypeOK
  <2>2. CASE f \in DOMAIN conn
    <3>1. /\ pc[w] = "next" /\ pc' = [pc EXCEPT ![w] = "read"] /\ at' = [at EXCEPT ![w] = f]
          /\ UNCHANGED <<kernel, conn, mutex, main, hand, history>>
      BY <1>7, <2>2 DEF NextEvent
    <3>2. at' \in [Worker -> Fd \union {NoFd}] /\ at'[w] = f /\ mutex # w
      BY <3>1 DEF TypeOK
    <3>3. \A v \in Worker \ {w} : at'[v] = at[v]
      BY <3>1 DEF TypeOK
    <3>4. PlacesKnown' /\ WorkersTyped'
      BY <3>1, <3>2, <3>3, WorkerMoves
    <3> QED
      BY <2>1, <3>1, <3>2, <3>4 DEF TypeOK, WorkersTyped, kernel, history
  <2>3. CASE f \notin DOMAIN conn
    BY <1>7, <2>1, <2>3 DEF NextEvent, TypeOK, PlacesKnown, kernel, history
  <2> QED
    BY <2>2, <2>3
<1>8. ASSUME NEW w \in Worker, Read(w) PROVE TypeOK' /\ PlacesKnown'
  <2>1. pc[w] = "read" /\ at[w] \in Fd
    BY <1>8 DEF Read, PlacesKnown
  <2>2. PICK c : c = sock[at[w]]
    OBVIOUS
  <2>3. CASE c \in Client /\ inbox[c] # <<>> /\ pc' = [pc EXCEPT ![w] = "append"]
             /\ hand' = [hand EXCEPT ![w] = Head(inbox[c])]
             /\ inbox' = [inbox EXCEPT ![c] = Tail(@)]
             /\ overtaken' = IF \E p \in InHand : p.from = c
                              THEN overtaken \union {c} ELSE overtaken
    <3>1. Head(inbox[c]) \in Piece /\ Tail(inbox[c]) \in Seq(Piece)
      BY <2>3, HeadTailProperties DEF TypeOK
    <3>2. Head(inbox[c]) # NoPiece
      BY <3>1, SocketServerAssumption DEF Piece, NoPiece
    <3>3. inbox' \in [Client -> Seq(Piece)] /\ hand' \in [Worker -> Piece \union {NoPiece}]
      BY <2>3, <3>1 DEF TypeOK
    <3> QED
      BY <1>8, <2>1, <2>3, <3>2, <3>3 DEF Read, TypeOK, PlacesKnown
  <2>4. CASE c \in Client /\ pc' = [pc EXCEPT ![w] = AfterEmptyRead(c)]
             /\ UNCHANGED <<inbox, hand, overtaken>>
    BY <1>8, <2>1, <2>4 DEF Read, AfterEmptyRead, TypeOK, PlacesKnown
  <2>5. CASE pc' = [pc EXCEPT ![w] = "close"] /\ UNCHANGED <<inbox, hand, overtaken>>
    BY <1>8, <2>1, <2>5 DEF Read, TypeOK, PlacesKnown
  <2> QED
    BY <1>8, <2>2, <2>3, <2>4, <2>5 DEF Read
<1>9. ASSUME NEW w \in Worker, AppendPiece(w) PROVE TypeOK' /\ PlacesKnown'
  <2>1. pc[w] = "append" /\ at[w] \in Fd /\ hand[w] \in Piece
    BY <1>9 DEF AppendPiece, TypeOK, PlacesKnown
  <2>2. PICK entry : entry = IF at[w] \in DOMAIN conn THEN conn[at[w]]
                               ELSE [buffer |-> <<>>, idle |-> TRUE]
    OBVIOUS
  <2>3. entry \in [buffer : Seq(Piece), idle : BOOLEAN]
    BY <2>2, EmptySeq DEF TypeOK
  <2>4. [entry EXCEPT !.buffer = Append(@, hand[w])] \in [buffer : Seq(Piece), idle : BOOLEAN]
    BY <2>1, <2>3, AppendProperties
  <2>5. conn' = [g \in DOMAIN conn \union {at[w]} |->
                   IF g = at[w] THEN [entry EXCEPT !.buffer = Append(@, hand[w])] ELSE conn[g]]
    BY <1>9, <2>2 DEF AppendPiece
  <2>6. /\ DOMAIN conn' \subseteq Fd /\ DOMAIN conn \subseteq DOMAIN conn'
        /\ \A f \in DOMAIN conn' : conn'[f] \in [buffer : Seq(Piece), idle : BOOLEAN]
    BY <2>1, <2>4, <2>5 DEF TypeOK
  <2>7. UNCHANGED kernel /\ UNCHANGED history /\ UNCHANGED <<mutex, main, at, todo>>
    BY <1>9 DEF AppendPiece
  <2>8. hand' = [hand EXCEPT ![w] = NoPiece] /\ pc' = [pc EXCEPT ![w] = "read"]
    BY <1>9 DEF AppendPiece
  <2> QED
    BY <2>1, <2>6, <2>7, <2>8 DEF TypeOK, PlacesKnown, kernel, history
<1>10. ASSUME NEW w \in Worker, CloseDescriptor(w) PROVE TypeOK' /\ PlacesKnown'
  <2>1. pc[w] = "close" /\ mutex = None /\ at[w] \in Fd /\ Closed({at[w]})
    BY <1>10 DEF CloseDescriptor, PlacesKnown
  <2> QED
    <3>1. /\ pc' = [pc EXCEPT ![w] = "next"]
          /\ UNCHANGED <<mutex, main, at, hand, todo, answers, overtaken>>
      BY <1>10 DEF CloseDescriptor
    <3>2. at' \in [Worker -> Fd \union {NoFd}] /\ mutex' = mutex /\ mutex # w /\ at' = at
      BY <2>1, <3>1, SocketServerAssumption DEF TypeOK
    <3>3. PlacesKnown' /\ WorkersTyped'
      BY <2>1, <3>1, <3>2, WorkerMoves
    <3>4. SocketsTyped'
      BY <2>1, ClosedTyped
    <3> QED
      BY <2>1, <3>1, <3>3, <3>4 DEF TypeOK, WorkersTyped, SocketsTyped
<1>11. ASSUME NEW w \in Worker, LockConnections(w) PROVE TypeOK' /\ PlacesKnown'
  <2>1. CASE at[w] \in DOMAIN conn
    <3>1. conn' = [conn EXCEPT ![at[w]].idle = FALSE]
      BY <1>11, <2>1 DEF LockConnections
    <3>2. /\ DOMAIN conn' = DOMAIN conn
          /\ \A f \in DOMAIN conn : conn'[f] \in [buffer : Seq(Piece), idle : BOOLEAN]
      BY <3>1 DEF TypeOK
    <3> QED
      <4>1. /\ pc[w] = "lock" /\ mutex = None /\ mutex' = w /\ pc' = [pc EXCEPT ![w] = "serve"]
            /\ UNCHANGED <<kernel, main, at, hand, todo, history>>
        BY <1>11, <2>1 DEF LockConnections
      <4>2. at' \in [Worker -> Fd \union {NoFd}] /\ at' = at /\ at[w] \in Fd /\ mutex' # mutex
        BY <2>1, <4>1, SocketServerAssumption DEF TypeOK
      <4>3. PlacesKnown' /\ WorkersTyped'
        BY <2>1, <3>2, <4>1, <4>2, WorkerMoves
      <4> QED
        BY <3>2, <4>1, <4>3 DEF TypeOK, WorkersTyped, kernel, history
  <2>2. CASE at[w] \notin DOMAIN conn
    <3>1. /\ pc[w] = "lock" /\ mutex = None /\ pc' = [pc EXCEPT ![w] = "next"]
          /\ UNCHANGED <<mutex, conn, kernel, main, at, hand, todo, history>>
      BY <1>11, <2>2 DEF LockConnections
    <3>2. at' \in [Worker -> Fd \union {NoFd}] /\ at' = at /\ mutex' = mutex /\ mutex # w
      BY <3>1, SocketServerAssumption DEF TypeOK
    <3>3. PlacesKnown' /\ WorkersTyped'
      BY <3>1, <3>2, WorkerMoves
    <3> QED
      BY <3>1, <3>3 DEF TypeOK, WorkersTyped, kernel, history
  <2> QED
    BY <2>1, <2>2
<1>12. ASSUME NEW w \in Worker, ServeCommand(w) PROVE TypeOK' /\ PlacesKnown'
  <2>1. pc[w] = "serve" /\ mutex = w /\ at[w] \in DOMAIN conn /\ at[w] \in Fd
    BY <1>12 DEF ServeCommand, TypeOK, PlacesKnown
  <2>2. PICK f, command : f = at[w] /\ command = FirstCommand(conn[f].buffer)
    OBVIOUS
  <2>3. /\ conn[f].buffer \in Seq(Piece) /\ HasCommand(conn[f].buffer)
        /\ UNCHANGED <<main, at, hand, todo>>
    BY <1>12, <2>1, <2>2 DEF ServeCommand, TypeOK
  <2>4. command \in Seq(Piece) /\ Rest(conn[f].buffer) \in Seq(Piece)
    BY <2>2, <2>3, CommandFact
  <2>5. ASSUME conn' = [conn EXCEPT ![f].buffer = Rest(@)]
        PROVE  /\ DOMAIN conn' = DOMAIN conn
               /\ \A g \in DOMAIN conn : conn'[g] \in [buffer : Seq(Piece), idle : BOOLEAN]
    BY <2>4, <2>5 DEF TypeOK
  <2>6. ASSUME sock[f] \in Client /\ answers' = [answers EXCEPT ![sock[f]] = @ \o command]
        PROVE  answers' \in [Client -> Seq(Piece)]
    BY <2>4, <2>6, ConcatProperties DEF TypeOK
  <2>7. CASE /\ conn' = [conn EXCEPT ![f].buffer = Rest(@)] /\ pc' = [pc EXCEPT ![w] = "blocked"]
             /\ UNCHANGED <<kernel, mutex, history>>
    BY <2>1, <2>3, <2>5, <2>7 DEF TypeOK, PlacesKnown, kernel, history
  <2>8. CASE /\ sock[f] \in Client /\ answers' = [answers EXCEPT ![sock[f]] = @ \o command]
             /\ conn' = [conn EXCEPT ![f].buffer = Rest(@)]
             /\ UNCHANGED <<kernel, mutex, pc, orphans, overtaken>>
    BY <2>1, <2>3, <2>5, <2>6, <2>8 DEF TypeOK, PlacesKnown, kernel
  <2>9. CASE /\ answers' = answers \/ (sock[f] \in Client
                  /\ answers' = [answers EXCEPT ![sock[f]] = @ \o command])
             /\ Closed({f}) /\ mutex' = None /\ pc' = [pc EXCEPT ![w] = "next"]
             /\ UNCHANGED overtaken
    <3>1. answers' \in [Client -> Seq(Piece)]
      BY <2>6, <2>9 DEF TypeOK
    <3> QED
      <4>1. at' \in [Worker -> Fd \union {NoFd}] /\ at' = at /\ mutex' # w /\ hand' = hand
        BY <2>3, <2>9, SocketServerAssumption DEF TypeOK
      <4>2. PlacesKnown' /\ WorkersTyped'
        BY <2>1, <2>3, <2>9, <4>1, WorkerMoves
      <4>3. SocketsTyped'
        BY <2>1, <2>2, <2>9, ClosedTyped
      <4> QED
        BY <2>1, <2>3, <2>9, <3>1, <4>1, <4>2, <4>3 DEF TypeOK, WorkersTyped, SocketsTyped
  <2> QED
    BY <1>12, <2>2, <2>7, <2>8, <2>9 DEF ServeCommand
<1>13. ASSUME NEW w \in Worker, EndOfData(w) PROVE TypeOK' /\ PlacesKnown'
  <2>1. pc[w] = "serve" /\ mutex = w /\ at[w] \in Fd
    BY <1>13 DEF EndOfData, TypeOK, PlacesKnown
  <2>2. CASE Closed({at[w]}) /\ UNCHANGED <<answers, overtaken>>
    BY <1>13, <2>1, <2>2, ClosedTyped DEF EndOfData, TypeOK, PlacesKnown, SocketsTyped
  <2>3. CASE UNCHANGED <<kernel, conn, history>>
    BY <1>13, <2>1, <2>3 DEF EndOfData, TypeOK, PlacesKnown, kernel, history
  <2> QED
    BY <1>13, <2>2, <2>3 DEF EndOfData
<1>14. ASSUME NEW f \in Fd, Idle(f) PROVE TypeOK' /\ PlacesKnown'
  BY <1>14 DEF Idle, TypeOK, PlacesKnown, kernel, workers, history
<1>15. CASE CheckTimeouts
  <2>1. mutex = None /\ UNCHANGED <<mutex, main, workers, answers, overtaken>>
    BY <1>15 DEF CheckTimeouts
  <2>2. PICK fds \in SUBSET Fd : Closed(fds)
    BY <1>15 DEF CheckTimeouts, TypeOK
  <2> QED
    BY <2>1, <2>2, ClosedTyped DEF TypeOK, PlacesKnown, SocketsTyped, workers
<1>16. CASE UNCHANGED vars
  BY <1>16 DEF vars, kernel, workers, history, TypeOK, PlacesKnown
<1> QED
  BY <1>1, <1>2, <1>3, <1>4, <1>5, <1>6, <1>7, <1>8, <1>9, <1>10, <1>11, <1>12, <1>13, <1>14,
     <1>15, <1>16 DEF Next

-----------------------------------------------------------------------------
(* Entries: every open descriptor keeps one, every command somebody.       *)
LEMMA OpenHasEntryNext == TypesHold /\ OpenHasEntry /\ [Next]_vars => OpenHasEntry'
<1> SUFFICES ASSUME TypeOK, PlacesKnown, OpenHasEntry, [Next]_vars PROVE OpenHasEntry'
  BY DEF TypesHold
<1>1. ASSUME sock' = sock, main' = main, DOMAIN conn \subseteq DOMAIN conn' PROVE OpenHasEntry'
  BY <1>1 DEF OpenHasEntry, Open
<1>2. ASSUME NEW fds \in SUBSET Fd, Closed(fds), main' = main PROVE OpenHasEntry'
  <2>1. /\ \A f \in Fd : sock'[f] = IF f \in fds THEN None ELSE sock[f]
        /\ DOMAIN conn' = DOMAIN conn \ fds
    BY <1>2, ClosedFact
  <2> QED
    BY <1>2, <2>1 DEF OpenHasEntry, Open
<1>3. CASE MainWait
  <2>1. CASE backlog # {} /\ \E f \in Fd : ~ Open(f)
    <3>1. PICK f \in Fd : f = Min({g \in Fd : ~ Open(g)})
      BY <2>1, FirstFreeFact
    <3>2. PICK c \in backlog : sock' = [sock EXCEPT ![f] = c] /\ main' = [pc |-> "accepted", fd |-> f]
      BY <1>3, <2>1, <3>1 DEF MainWait
    <3>3. main.pc = "wait" /\ conn' = conn
      BY <1>3 DEF MainWait
    <3> QED
      BY <3>2, <3>3 DEF OpenHasEntry, Open, TypeOK
  <2>2. CASE ~ (backlog # {} /\ \E f \in Fd : ~ Open(f))
    BY <1>1, <1>3, <2>2 DEF MainWait
  <2> QED
    BY <2>1, <2>2
<1>4. CASE AddToEpoll
  BY <1>4 DEF AddToEpoll, OpenHasEntry, Open, TypeOK
<1>5. CASE InsertConnection
  BY <1>5 DEF InsertConnection, OpenHasEntry, Open, TypeOK, kernel
<1>6. ASSUME NEW w \in Worker, CloseDescriptor(w) PROVE OpenHasEntry'
  <2>1. {at[w]} \in SUBSET Fd /\ Closed({at[w]}) /\ main' = main
    BY <1>6 DEF CloseDescriptor, PlacesKnown
  <2> QED
    BY <1>2, <2>1
<1>7. ASSUME NEW w \in Worker, ServeCommand(w) PROVE OpenHasEntry'
  <2>1. {at[w]} \in SUBSET Fd /\ main' = main
    BY <1>7 DEF ServeCommand, PlacesKnown
  <2>2. Closed({at[w]}) \/ (sock' = sock /\ DOMAIN conn' = DOMAIN conn)
    BY <1>7 DEF ServeCommand, kernel
  <2> QED
    BY <1>1, <1>2, <2>1, <2>2
<1>8. ASSUME NEW w \in Worker, EndOfData(w) PROVE OpenHasEntry'
  <2>1. {at[w]} \in SUBSET Fd /\ main' = main
    BY <1>8 DEF EndOfData, PlacesKnown
  <2>2. Closed({at[w]}) \/ (sock' = sock /\ conn' = conn)
    BY <1>8 DEF EndOfData, kernel
  <2> QED
    BY <1>1, <1>2, <2>1, <2>2
<1>9. CASE CheckTimeouts
  <2>1. PICK fds \in SUBSET Fd : Closed(fds)
    BY <1>9 DEF CheckTimeouts, TypeOK
  <2> QED
    BY <1>2, <1>9, <2>1 DEF CheckTimeouts
<1>10. ASSUME NEW w \in Worker, NEW f \in Fd, NextEvent(w, f) PROVE OpenHasEntry'
  BY <1>1, <1>10 DEF NextEvent, kernel
<1>11. ASSUME NEW c \in Client, NEW kind \in Command \union {"part"}, Send(c, kind)
       PROVE  OpenHasEntry'
  BY <1>1, <1>11 DEF Send
<1>12. CASE UNCHANGED vars
  BY <1>1, <1>12 DEF vars, kernel
<1>13. ASSUME NEW f \in Fd, Idle(f) PROVE OpenHasEntry'
  BY <1>1, <1>13 DEF Idle, kernel
<1>14. ASSUME NEW c \in Client, Connect(c) \/ Leave(c) PROVE OpenHasEntry'
  BY <1>1, <1>14 DEF Connect, Leave
<1>15. ASSUME NEW w \in Worker, EpollWait(w) \/ Read(w) \/ AppendPiece(w) \/ LockConnections(w)
       PROVE  OpenHasEntry'
  BY <1>1, <1>15 DEF EpollWait, Read, AppendPiece, LockConnections, kernel
<1> QED
  BY <1>3, <1>4, <1>5, <1>6, <1>7, <1>8, <1>9, <1>10, <1>11, <1>12, <1>13, <1>14, <1>15 DEF Next

LEMMA CommandsKept ==
  ASSUME NoCommandForgotten,
         \A f \in DOMAIN conn' : HasCommand(conn'[f].buffer) =>
           \/ f \in DOMAIN conn /\ HasCommand(conn[f].buffer)
           \/ \E w \in Worker : at'[w] = f /\ pc'[w] # "next",
         \A w \in Worker : pc[w] # "next" =>
           \/ pc'[w] # "next" /\ at'[w] = at[w]
           \/ at[w] \notin DOMAIN conn'
           \/ ~ HasCommand(conn'[at[w]].buffer)
  PROVE  NoCommandForgotten'
BY DEF NoCommandForgotten

LEMMA NoCommandForgottenNext == TypesHold /\ NoCommandForgotten /\ [Next]_vars => NoCommandForgotten'
<1> SUFFICES ASSUME TypeOK, PlacesKnown, NoCommandForgotten, [Next]_vars
             PROVE  NoCommandForgotten'
  BY DEF TypesHold
<1>0. /\ pc \in [Worker -> {"next", "read", "append", "close", "lock", "serve", "blocked"}]
      /\ at \in [Worker -> Fd \union {NoFd}] /\ DOMAIN conn \subseteq Fd
  BY DEF TypeOK
<1>1. ASSUME pc' = pc, at' = at,
             \A f \in DOMAIN conn' : HasCommand(conn'[f].buffer) =>
               f \in DOMAIN conn /\ HasCommand(conn[f].buffer)
      PROVE  NoCommandForgotten'
  BY <1>1, CommandsKept
<1>2. ASSUME NEW fds \in SUBSET Fd, Closed(fds)
      PROVE  \A f \in DOMAIN conn' : f \in DOMAIN conn \ fds /\ conn'[f] = conn[f]
  BY <1>2, ClosedFact
<1>3. CASE InsertConnection
  <2>1. ~ HasCommand(<<>>)
    BY DEF HasCommand
  <2>2. /\ pc' = pc /\ at' = at
        /\ \A f \in DOMAIN conn' : f \in DOMAIN conn \/ f = main.fd
        /\ \A f \in DOMAIN conn' : conn'[f].buffer = IF f = main.fd THEN <<>> ELSE conn[f].buffer
    BY <1>3 DEF InsertConnection, workers
  <2> QED
    BY <1>1, <2>1, <2>2
<1>4. ASSUME NEW w \in Worker, NEW f \in Fd, NextEvent(w, f) PROVE NoCommandForgotten'
  <2>1. /\ conn' = conn /\ pc[w] = "next"
        /\ \A v \in Worker \ {w} : pc'[v] = pc[v] /\ at'[v] = at[v]
    BY <1>0, <1>4 DEF NextEvent
  <2> QED
    BY <2>1, CommandsKept
<1>5. ASSUME NEW w \in Worker, Read(w) PROVE NoCommandForgotten'
  <2>1. /\ conn' = conn /\ at' = at /\ pc[w] = "read"
        /\ pc'[w] \in {"append", "lock", "close"}
        /\ \A v \in Worker \ {w} : pc'[v] = pc[v]
    BY <1>0, <1>5 DEF Read, AfterEmptyRead
  <2> QED
    BY <2>1, CommandsKept
<1>6. ASSUME NEW w \in Worker, AppendPiece(w) PROVE NoCommandForgotten'
  <2>1. /\ at' = at /\ pc'[w] = "read"
        /\ \A v \in Worker \ {w} : pc'[v] = pc[v]
    BY <1>0, <1>6 DEF AppendPiece
  <2>2. \A f \in DOMAIN conn' : f # at[w] => f \in DOMAIN conn /\ conn'[f] = conn[f]
    BY <1>6 DEF AppendPiece
  <2> QED
    BY <2>1, <2>2, CommandsKept
<1>7. ASSUME NEW w \in Worker, CloseDescriptor(w) PROVE NoCommandForgotten'
  <2>1. {at[w]} \in SUBSET Fd /\ Closed({at[w]}) /\ at' = at
        /\ \A v \in Worker \ {w} : pc'[v] = pc[v]
    BY <1>0, <1>7 DEF CloseDescriptor, PlacesKnown
  <2>2. \A f \in DOMAIN conn' : f \in DOMAIN conn \ {at[w]} /\ conn'[f] = conn[f]
    BY <1>2, <2>1
  <2> QED
    BY <2>1, <2>2, CommandsKept
<1>8. ASSUME NEW w \in Worker, LockConnections(w) PROVE NoCommandForgotten'
  <2>1. /\ at' = at /\ DOMAIN conn' = DOMAIN conn
        /\ at[w] \in DOMAIN conn => pc'[w] # "next"
        /\ \A v \in Worker \ {w} : pc'[v] = pc[v]
    BY <1>0, <1>8 DEF LockConnections
  <2>2. \A f \in DOMAIN conn : conn'[f].buffer = conn[f].buffer
    <3>1. CASE at[w] \in DOMAIN conn
      <4>1. conn' = [conn EXCEPT ![at[w]].idle = FALSE]
        BY <1>8, <3>1 DEF LockConnections
      <4>2. conn[at[w]] \in [buffer : Seq(Piece), idle : BOOLEAN]
        BY <3>1 DEF TypeOK
      <4> QED
        BY <4>1, <4>2
    <3>2. CASE at[w] \notin DOMAIN conn
      BY <1>8, <3>2 DEF LockConnections
    <3> QED
      BY <3>1, <3>2
  <2> QED
    BY <2>1, <2>2, CommandsKept
<1>9. ASSUME NEW w \in Worker, ServeCommand(w) PROVE NoCommandForgotten'
  <2>1. at' = at /\ {at[w]} \in SUBSET Fd /\ pc[w] = "serve"
        /\ \A v \in Worker \ {w} : pc'[v] = pc[v]
    BY <1>0, <1>9 DEF ServeCommand, PlacesKnown
  <2>2. CASE Closed({at[w]})
    <3>1. \A f \in DOMAIN conn' : f \in DOMAIN conn \ {at[w]} /\ conn'[f] = conn[f]
      BY <1>2, <2>1, <2>2
    <3> QED
      BY <2>1, <3>1, CommandsKept
  <2>3. CASE conn' = [conn EXCEPT ![at[w]].buffer = Rest(@)] /\ pc'[w] # "next"
    <3>1. \A f \in DOMAIN conn' : f # at[w] => f \in DOMAIN conn /\ conn'[f] = conn[f]
      BY <2>3
    <3> QED
      BY <2>1, <2>3, <3>1, CommandsKept
  <2> QED
    BY <1>0, <1>9, <2>2, <2>3 DEF ServeCommand
<1>10. ASSUME NEW w \in Worker, EndOfData(w) PROVE NoCommandForgotten'
  <2>1. /\ at' = at /\ {at[w]} \in SUBSET Fd /\ ~ HasCommand(conn[at[w]].buffer)
        /\ \A v \in Worker \ {w} : pc'[v] = pc[v]
        /\ Closed({at[w]}) \/ conn' = conn
    BY <1>0, <1>10 DEF EndOfData, PlacesKnown
  <2>2. \A f \in DOMAIN conn' : f \in DOMAIN conn /\ conn'[f] = conn[f]
    BY <1>2, <2>1
  <2> QED
    BY <2>1, <2>2, CommandsKept
<1>11. CASE CheckTimeouts
  <2>1. PICK fds \in SUBSET Fd : Closed(fds)
    BY <1>11 DEF CheckTimeouts, TypeOK
  <2> QED
    BY <1>1, <1>2, <1>11, <2>1 DEF CheckTimeouts, workers
<1>12. ASSUME NEW f \in Fd, Idle(f) PROVE NoCommandForgotten'
  <2>1. /\ DOMAIN conn' = DOMAIN conn /\ pc' = pc /\ at' = at
        /\ \A g \in DOMAIN conn : conn'[g].buffer = conn[g].buffer
    BY <1>12 DEF Idle, workers, TypeOK
  <2> QED
    BY <1>1, <2>1
<1>13. ASSUME conn' = conn, pc' = pc, at' = at PROVE NoCommandForgotten'
  BY <1>1, <1>13
<1>14. ASSUME NEW c \in Client, Connect(c) \/ Leave(c) PROVE NoCommandForgotten'
  BY <1>13, <1>14 DEF Connect, Leave, workers
<1>15. ASSUME NEW c \in Client, NEW kind \in Command \union {"part"}, Send(c, kind)
       PROVE  NoCommandForgotten'
  BY <1>13, <1>15 DEF Send, workers
<1>16. CASE MainWait \/ AddToEpoll \/ UNCHANGED vars
  BY <1>13, <1>16 DEF MainWait, AddToEpoll, vars, workers
<1>17. ASSUME NEW w \in Worker, EpollWait(w) PROVE NoCommandForgotten'
  BY <1>13, <1>17 DEF EpollWait
<1> QED
  BY <1>3, <1>4, <1>5, <1>6, <1>7, <1>8, <1>9, <1>10, <1>11, <1>12, <1>14, <1>15, <1>16, <1>17
  DEF Next

-----------------------------------------------------------------------------
(* Who has not been accepted has no socket and no answers.                 *)
LEMMA NewcomersNext ==
  ASSUME TypesHold, TypesHold', Newcomers, [Next]_vars
  PROVE  Newcomers'
<1>0. /\ client \in [Client -> {"new", "up", "left", "cut"}] /\ backlog \subseteq Client
      /\ sock \in [Fd -> Client \union {None}] /\ answers \in [Client -> Seq(Piece)]
      /\ None \notin Client
  BY SocketServerAssumption DEF TypesHold, TypeOK
<1>1. ASSUME sock' = sock, answers' = answers, backlog' = backlog,
             \A c \in Client : client'[c] = "new" <=> client[c] = "new"
      PROVE  Newcomers'
  BY <1>0, <1>1 DEF Newcomers
<1>2. ASSUME NEW fds \in SUBSET Fd, Closed(fds)
      PROVE  /\ backlog' = backlog
             /\ \A c \in Client : client'[c] = "new" <=> client[c] = "new"
             /\ \A f \in Fd : sock'[f] = IF f \in fds THEN None ELSE sock[f]
  <2>1. \A c \in Client : client'[c] = "new" <=> client[c] = "new"
    BY <1>0, <1>2 DEF Closed
  <2> QED
    BY <1>2, <2>1, ClosedFact DEF TypesHold
<1>3. ASSUME NEW fds \in SUBSET Fd, Closed(fds), answers' = answers PROVE Newcomers'
  BY <1>0, <1>2, <1>3 DEF Newcomers
<1>4. CASE MainWait
  <2>1. CASE backlog # {} /\ \E f \in Fd : ~ Open(f)
    <3>1. PICK f \in Fd : f = Min({g \in Fd : ~ Open(g)})
      BY <2>1, FirstFreeFact
    <3>2. PICK c \in backlog : sock' = [sock EXCEPT ![f] = c] /\ backlog' = backlog \ {c}
      BY <1>4, <2>1, <3>1 DEF MainWait
    <3>3. client' = client /\ answers' = answers /\ c \in Client
      BY <1>0, <1>4 DEF MainWait, history
    <3>4. /\ sock'[f] = c /\ \A g \in Fd \ {f} : sock'[g] = sock[g]
          /\ client[c] # "new" /\ \A g \in Fd : sock[g] # c
      BY <1>0, <3>2 DEF Newcomers
    <3>5. \A d \in Client : client[d] = "new" \/ d \in backlog' => d # c /\ (client[d] = "new" \/ d \in backlog)
      BY <3>2, <3>4
    <3>6. \A g, h \in Fd : sock'[g] = sock'[h] => g = h \/ sock'[g] = None
      BY <3>4 DEF Newcomers
    <3>7. \A d \in Client : client'[d] = "new" \/ d \in backlog' =>
            answers'[d] = <<>> /\ \A g \in Fd : sock'[g] # d
      BY <3>3, <3>4, <3>5 DEF Newcomers
    <3>8. \A d \in backlog' : client'[d] # "new"
      BY <3>2, <3>3 DEF Newcomers
    <3> QED
      BY <3>6, <3>7, <3>8 DEF Newcomers
  <2>2. CASE ~ (backlog # {} /\ \E f \in Fd : ~ Open(f))
    BY <1>1, <1>4, <2>2 DEF MainWait, history
  <2> QED
    BY <2>1, <2>2
<1>5. ASSUME NEW c \in Client, Connect(c) PROVE Newcomers'
  BY <1>0, <1>5 DEF Connect, Newcomers, history
<1>6. ASSUME NEW c \in Client, Leave(c) PROVE Newcomers'
  <2>1. \A d \in Client : client'[d] = "new" <=> client[d] = "new"
    BY <1>0, <1>6 DEF Leave
  <2> QED
    BY <1>1, <1>6, <2>1 DEF Leave, history
<1>7. ASSUME NEW w \in Worker, ServeCommand(w) PROVE Newcomers'
  <2>1. PICK f, command : f = at[w] /\ command = FirstCommand(conn[f].buffer)
    OBVIOUS
  <2>2. {f} \in SUBSET Fd /\ pc[w] = "serve"
    BY <1>7, <2>1 DEF ServeCommand, TypesHold, PlacesKnown
  <2>3. ASSUME sock[f] \in Client, answers' = [answers EXCEPT ![sock[f]] = @ \o command]
        PROVE  \A d \in Client : client[d] = "new" \/ d \in backlog => answers'[d] = answers[d]
    <3>1. \A d \in Client : client[d] = "new" \/ d \in backlog => d # sock[f]
      BY <2>2 DEF Newcomers
    <3> QED
      BY <1>0, <2>3, <3>1
  <2>4. CASE answers' = answers
    <3>1. Closed({f}) \/ UNCHANGED kernel
      BY <1>7, <2>1 DEF ServeCommand
    <3> QED
      BY <1>1, <1>3, <2>2, <2>4, <3>1 DEF kernel
  <2>5. CASE sock[f] \in Client /\ answers' = [answers EXCEPT ![sock[f]] = @ \o command]
    <3>1. \A d \in Client : client[d] = "new" \/ d \in backlog => answers'[d] = answers[d]
      BY <2>3, <2>5
    <3>2. Closed({f}) \/ UNCHANGED kernel
      BY <1>7, <2>1 DEF ServeCommand
    <3>3. CASE UNCHANGED kernel
      BY <3>1, <3>3 DEF kernel, Newcomers
    <3>4. CASE Closed({f})
      BY <1>0, <1>2, <2>2, <3>1, <3>4 DEF Newcomers
    <3> QED
      BY <3>2, <3>3, <3>4
  <2> QED
    BY <1>7, <2>1, <2>4, <2>5 DEF ServeCommand, history
<1>8. ASSUME NEW w \in Worker, CloseDescriptor(w) PROVE Newcomers'
  <2>1. {at[w]} \in SUBSET Fd /\ Closed({at[w]}) /\ answers' = answers
    BY <1>8 DEF CloseDescriptor, TypesHold, PlacesKnown
  <2> QED
    BY <1>3, <2>1
<1>9. ASSUME NEW w \in Worker, EndOfData(w) PROVE Newcomers'
  <2>1. /\ {at[w]} \in SUBSET Fd /\ answers' = answers
        /\ Closed({at[w]}) \/ UNCHANGED kernel
    BY <1>9 DEF EndOfData, TypesHold, PlacesKnown, history
  <2> QED
    BY <1>1, <1>3, <2>1 DEF kernel
<1>10. CASE CheckTimeouts
  <2>1. PICK fds \in SUBSET Fd : Closed(fds)
    BY <1>10 DEF CheckTimeouts, TypesHold, TypeOK
  <2> QED
    BY <1>3, <1>10, <2>1 DEF CheckTimeouts
<1>11. CASE AddToEpoll \/ InsertConnection \/ UNCHANGED vars
  BY <1>1, <1>11 DEF AddToEpoll, InsertConnection, vars, kernel, history
<1>12. ASSUME NEW c \in Client, NEW kind \in Command \union {"part"}, Send(c, kind)
       PROVE  Newcomers'
  BY <1>1, <1>12 DEF Send, history
<1>13. ASSUME NEW w \in Worker, EpollWait(w) \/ Read(w) \/ AppendPiece(w) \/ LockConnections(w)
       PROVE  Newcomers'
  BY <1>1, <1>13 DEF EpollWait, Read, AppendPiece, LockConnections, kernel, history
<1>14. ASSUME NEW w \in Worker, NEW f \in Fd, NextEvent(w, f) PROVE Newcomers'
  BY <1>1, <1>14 DEF NextEvent, kernel, history
<1>15. ASSUME NEW f \in Fd, Idle(f) PROVE Newcomers'
  BY <1>1, <1>15 DEF Idle, kernel, history
<1> QED
  BY <1>4, <1>5, <1>6, <1>7, <1>8, <1>9, <1>10, <1>11, <1>12, <1>13, <1>14, <1>15 DEF Next

-----------------------------------------------------------------------------
(* Pieces.  Their senders: a piece lies where its sender is connected, or  *)
(* it was orphaned in somebody's hand.                                     *)
Owned(p, c, orphaned) == p.from = c \/ p \in orphaned

PiecesOwned ==
  /\ \A c \in Client : \A i \in DOMAIN answers[c] : Owned(answers[c][i], c, orphans)
  /\ \A f \in Fd : \A i \in DOMAIN Buffer(f) : Owned(Buffer(f)[i], sock[f], orphans)
  /\ \A w \in Worker : hand[w] # NoPiece => Owned(hand[w], sock[at[w]], orphans)
  /\ \A c \in Client : \A i \in DOMAIN inbox[c] : inbox[c][i].from = c

(* Their order: p before q is in order unless p was overtaken by q.        *)
InOrder(p, q, over) == p.from = q.from => p.n # q.n /\ (p.n > q.n => p.from \in over)

Sorted(s, over) == \A i, j \in DOMAIN s : i < j => InOrder(s[i], s[j], over)

Precedes(s, t, over) == \A i \in DOMAIN s, j \in DOMAIN t : InOrder(s[i], t[j], over)

(* The pieces in somebody's buffer or answered.                            *)
Delivered == {p \in Piece : \/ \E c \in Client : \E i \in DOMAIN answers[c] : answers[c][i] = p
                            \/ \E f \in Fd : \E i \in DOMAIN Buffer(f) : Buffer(f)[i] = p}

PiecesOrdered ==
  /\ \A c \in Client : Sorted(answers[c], overtaken)
  /\ \A f \in Fd : Sorted(Buffer(f), overtaken)
  /\ \A f \in Fd : sock[f] \in Client => Precedes(answers[sock[f]], Buffer(f), overtaken)
  /\ \A p \in Delivered, q \in InHand : InOrder(p, q, overtaken)
  /\ \A w, v \in Worker : w # v /\ hand[w] # NoPiece /\ hand[v].from = hand[w].from =>
       hand[w].n # hand[v].n /\ hand[w].from \in overtaken

(* What is on the way comes after everything that has been read, and in    *)
(* turn.                                                                   *)
PiecesNumbered ==
  /\ \A c \in Client : \A i \in DOMAIN inbox[c] :
       /\ inbox[c][i].n <= sent[c]
       /\ \A j \in DOMAIN inbox[c] : i < j => inbox[c][i].n < inbox[c][j].n
  /\ \A p \in Delivered \union InHand :
       /\ p.n <= sent[p.from]
       /\ \A i \in DOMAIN inbox[p.from] : p.n < inbox[p.from][i].n

PiecesHold == PiecesOwned /\ PiecesOrdered /\ PiecesNumbered

(* A step that answers nothing and moves no piece: it may drop what lies   *)
(* in buffers and on the way, and close and open sockets.                  *)
Quiet ==
  /\ UNCHANGED <<answers, hand, sent, overtaken>> /\ orphans \subseteq orphans'
  /\ \A w \in Worker : hand[w] # NoPiece => at'[w] = at[w]
  /\ \A c \in Client : inbox'[c] \in {inbox[c], <<>>}
  /\ \A f \in Fd : Buffer(f)' \in {Buffer(f), <<>>}
  /\ \A f \in Fd :
       \/ sock'[f] = sock[f]
       \/ sock'[f] = None /\ Buffer(f)' = <<>> /\ \A p \in InHand : p.from = sock[f] => p \in orphans'
       \/ sock[f] = None /\ sock'[f] \in Client /\ answers[sock'[f]] = <<>>

LEMMA PiecesTyped ==
  ASSUME TypesHold
  PROVE  /\ \A c \in Client : /\ answers[c] \in Seq(Piece) /\ DOMAIN answers[c] = 1..Len(answers[c])
                               /\ \A i \in DOMAIN answers[c] : answers[c][i] \in Piece
         /\ \A c \in Client : /\ inbox[c] \in Seq(Piece) /\ DOMAIN inbox[c] = 1..Len(inbox[c])
                               /\ \A i \in DOMAIN inbox[c] : inbox[c][i] \in Piece
         /\ \A f \in Fd : /\ Buffer(f) \in Seq(Piece) /\ DOMAIN Buffer(f) = 1..Len(Buffer(f))
                           /\ \A i \in DOMAIN Buffer(f) : Buffer(f)[i] \in Piece
         /\ InHand \subseteq Piece
         /\ \A w \in Worker : hand[w] # NoPiece => hand[w] \in Piece /\ hand[w] \in InHand
                                                   /\ at[w] \in Fd
         /\ \A p \in Piece : p.from \in Client /\ p.n \in Nat
         /\ None \notin Client
<1>1. \A s \in Seq(Piece) : DOMAIN s = 1..Len(s) /\ \A i \in DOMAIN s : s[i] \in Piece
  BY LenProperties, ElementOfSeq
<1>2. \A f \in Fd : Buffer(f) \in Seq(Piece)
  BY EmptySeq DEF TypesHold, TypeOK, Buffer
<1>3. /\ InHand \subseteq Piece
      /\ \A w \in Worker : hand[w] # NoPiece => hand[w] \in Piece /\ hand[w] \in InHand
                                                /\ at[w] \in Fd
  BY DEF TypesHold, TypeOK, PlacesKnown, InHand
<1>4. \A p \in Piece : p.from \in Client /\ p.n \in Nat
  BY DEF Piece
<1>5. \A c \in Client : answers[c] \in Seq(Piece) /\ inbox[c] \in Seq(Piece)
  BY DEF TypesHold, TypeOK
<1> QED
  BY <1>1, <1>2, <1>3, <1>4, <1>5, SocketServerAssumption

LEMMA QuietKeepsPieces ==
  ASSUME TypesHold, TypesHold', PiecesHold, Quiet
  PROVE  PiecesHold'
<1>1. /\ answers' = answers /\ hand' = hand /\ sent' = sent /\ overtaken' = overtaken
      /\ orphans \subseteq orphans'
      /\ \A w \in Worker : hand[w] # NoPiece => at'[w] = at[w]
      /\ \A c \in Client : inbox'[c] \in {inbox[c], <<>>}
      /\ \A f \in Fd : Buffer(f)' \in {Buffer(f), <<>>}
  BY DEF Quiet
<1>2. InHand' = InHand
  BY <1>1 DEF InHand
<1>3. Delivered' \subseteq Delivered
  BY <1>1 DEF Delivered
<1>4. PiecesOwned'
  <2>1. \A c \in Client : \A i \in DOMAIN answers'[c] : Owned(answers'[c][i], c, orphans')
    BY <1>1 DEF PiecesHold, PiecesOwned, Owned
  <2>2. ASSUME NEW f \in Fd, NEW i \in DOMAIN Buffer(f)' PROVE Owned(Buffer(f)'[i], sock'[f], orphans')
    <3>1. Buffer(f)' = Buffer(f)
      BY <1>1
    <3>2. Owned(Buffer(f)[i], sock[f], orphans) /\ Buffer(f)[i] \in Piece /\ Buffer(f)[i].from \in Client
      BY <2>2, <3>1, PiecesTyped DEF PiecesHold, PiecesOwned
    <3>3. sock'[f] = sock[f] \/ sock[f] = None
      BY <2>2, <3>1 DEF Quiet
    <3> QED
      BY <1>1, <3>1, <3>2, <3>3, SocketServerAssumption DEF Owned
  <2>3. ASSUME NEW w \in Worker, hand[w] # NoPiece PROVE Owned(hand[w], sock'[at'[w]], orphans')
    <3>1. /\ Owned(hand[w], sock[at[w]], orphans) /\ hand[w].from \in Client /\ hand[w] \in InHand
          /\ at[w] \in Fd /\ at'[w] = at[w]
      BY <1>1, <2>3, PiecesTyped DEF PiecesHold, PiecesOwned
    <3>2. \/ sock'[at[w]] = sock[at[w]] \/ sock[at[w]] = None
          \/ \A p \in InHand : p.from = sock[at[w]] => p \in orphans'
      BY <3>1 DEF Quiet
    <3> QED
      BY <1>1, <3>1, <3>2, SocketServerAssumption DEF Owned
  <2>4. \A c \in Client : \A i \in DOMAIN inbox'[c] : inbox'[c][i].from = c
    BY <1>1 DEF PiecesHold, PiecesOwned
  <2> QED
    BY <1>1, <2>1, <2>2, <2>3, <2>4 DEF PiecesOwned
<1>5. PiecesOrdered'
  <2>1. \A f \in Fd : Sorted(Buffer(f)', overtaken')
    BY <1>1 DEF PiecesHold, PiecesOrdered, Sorted
  <2>2. ASSUME NEW f \in Fd, sock'[f] \in Client PROVE Precedes(answers'[sock'[f]], Buffer(f)', overtaken')
    <3>1. CASE Buffer(f)' = <<>> \/ answers[sock'[f]] = <<>>
      BY <1>1, <3>1 DEF Precedes
    <3>2. CASE sock'[f] = sock[f]
      BY <1>1, <2>2, <3>2 DEF PiecesHold, PiecesOrdered, Precedes
    <3> QED
      BY <2>2, <3>1, <3>2 DEF Quiet
  <2>3. \A p \in Delivered', q \in InHand' : InOrder(p, q, overtaken')
    BY <1>1, <1>2, <1>3 DEF PiecesHold, PiecesOrdered
  <2> QED
    BY <1>1, <2>1, <2>2, <2>3 DEF PiecesHold, PiecesOrdered
<1>6. PiecesNumbered'
  <2>1. \A p \in Delivered' \union InHand' : p \in Delivered \union InHand /\ p.from \in Client
    BY <1>2, <1>3, PiecesTyped DEF Delivered
  <2>2. \A p \in Delivered' \union InHand' :
          p.n <= sent'[p.from] /\ \A i \in DOMAIN inbox'[p.from] : p.n < inbox'[p.from][i].n
    BY <1>1, <2>1 DEF PiecesHold, PiecesNumbered
  <2>3. \A c \in Client : \A i \in DOMAIN inbox'[c] :
          /\ inbox'[c][i].n <= sent'[c]
          /\ \A j \in DOMAIN inbox'[c] : i < j => inbox'[c][i].n < inbox'[c][j].n
    BY <1>1 DEF PiecesHold, PiecesNumbered
  <2> QED
    BY <2>2, <2>3 DEF PiecesNumbered
<1> QED
  BY <1>4, <1>5, <1>6 DEF PiecesHold

LEMMA ClosedPieces ==
  ASSUME TypesHold, NEW fds \in SUBSET Fd, Closed(fds)
  PROVE  /\ \A c \in Client : inbox'[c] \in {inbox[c], <<>>}
         /\ \A f \in Fd : Buffer(f)' = IF f \in fds THEN <<>> ELSE Buffer(f)
         /\ \A f \in Fd : IF f \in fds
                             THEN sock'[f] = None /\ \A p \in InHand : p.from = sock[f] => p \in orphans'
                             ELSE sock'[f] = sock[f]
         /\ sent' = sent /\ orphans \subseteq orphans'
<1>1. /\ DOMAIN conn' = DOMAIN conn \ fds
      /\ \A f \in DOMAIN conn \ fds : conn'[f] = conn[f]
      /\ sent' = sent /\ orphans \subseteq orphans'
      /\ \A f \in Fd : sock'[f] = IF f \in fds THEN None ELSE sock[f]
  BY ClosedFact DEF TypesHold
<1>2. \A c \in Client : inbox'[c] \in {inbox[c], <<>>}
  BY DEF Closed
<1>3. \A f \in Fd : Buffer(f)' = IF f \in fds THEN <<>> ELSE Buffer(f)
  BY <1>1 DEF Buffer
<1>4. \A f \in fds : \A p \in InHand : p.from = sock[f] => p \in orphans'
  BY DEF Closed
<1> QED
  BY <1>1, <1>2, <1>3, <1>4

LEMMA ClosedQuiet ==
  ASSUME TypesHold, NEW fds \in SUBSET Fd, Closed(fds),
         UNCHANGED <<answers, hand, overtaken, at>>
  PROVE  Quiet
BY ClosedPieces DEF Quiet

(* Every step but four kinds of steps is quiet.                            *)
LEMMA QuietSteps ==
  ASSUME TypesHold, Newcomers, [Next]_vars,
         \A c \in Client, kind \in Command \union {"part"} : ~ Send(c, kind),
         \A w \in Worker : ~ Read(w) /\ ~ AppendPiece(w) /\ ~ ServeCommand(w)
  PROVE  Quiet
<1>0. UNCHANGED <<answers, hand, sent, overtaken, orphans, inbox, sock, at, conn>> => Quiet
  BY DEF Quiet, Buffer
<1>1. ASSUME NEW c \in Client, Connect(c) \/ Leave(c) PROVE Quiet
  BY <1>0, <1>1 DEF Connect, Leave, workers, history
<1>2. CASE MainWait
  <2>1. CASE backlog # {} /\ \E f \in Fd : ~ Open(f)
    <3>1. PICK f \in Fd : f = Min({g \in Fd : ~ Open(g)}) /\ sock[f] = None
      BY <2>1, FirstFreeFact DEF Open
    <3>2. PICK c \in backlog : sock' = [sock EXCEPT ![f] = c]
      BY <1>2, <2>1, <3>1 DEF MainWait
    <3>3. c \in Client /\ answers[c] = <<>>
      BY DEF TypesHold, TypeOK, Newcomers
    <3>4. UNCHANGED <<answers, hand, sent, overtaken, orphans, inbox, at, conn>>
      BY <1>2 DEF MainWait, workers, history
    <3> QED
      BY <3>1, <3>2, <3>3, <3>4 DEF Quiet, Buffer, TypesHold, TypeOK
  <2>2. CASE ~ (backlog # {} /\ \E f \in Fd : ~ Open(f))
    BY <1>0, <1>2, <2>2 DEF MainWait, workers, history
  <2> QED
    BY <2>1, <2>2
<1>3. CASE AddToEpoll
  BY <1>0, <1>3 DEF AddToEpoll, workers, history
<1>4. CASE InsertConnection
  <2>1. \A f \in Fd : Buffer(f)' \in {Buffer(f), <<>>}
    BY <1>4 DEF InsertConnection, Buffer
  <2>2. UNCHANGED <<answers, hand, sent, overtaken, orphans, inbox, sock, at>>
    BY <1>4 DEF InsertConnection, kernel, workers, history
  <2> QED
    BY <2>1, <2>2 DEF Quiet
<1>5. ASSUME NEW w \in Worker, EpollWait(w) PROVE Quiet
  BY <1>0, <1>5 DEF EpollWait, history
<1>6. ASSUME NEW w \in Worker, NEW f \in Fd, NextEvent(w, f) PROVE Quiet
  <2>1. hand[w] = NoPiece
    BY <1>6 DEF NextEvent, TypesHold, PlacesKnown
  <2>2. \A v \in Worker \ {w} : at'[v] = at[v]
    BY <1>6 DEF NextEvent, TypesHold, TypeOK
  <2>3. UNCHANGED <<answers, hand, sent, overtaken, orphans, inbox, sock, conn>>
    BY <1>6 DEF NextEvent, kernel, history
  <2> QED
    BY <2>1, <2>2, <2>3 DEF Quiet, Buffer
<1>7. ASSUME NEW w \in Worker, CloseDescriptor(w) PROVE Quiet
  <2>1. {at[w]} \in SUBSET Fd /\ Closed({at[w]}) /\ UNCHANGED <<answers, hand, overtaken, at>>
    BY <1>7 DEF CloseDescriptor, TypesHold, PlacesKnown
  <2> QED
    BY <2>1, ClosedQuiet
<1>8. ASSUME NEW w \in Worker, LockConnections(w) PROVE Quiet
  <2>1. UNCHANGED <<answers, hand, sent, overtaken, orphans, inbox, sock, at>>
    BY <1>8 DEF LockConnections, kernel, history
  <2>2. CASE at[w] \in DOMAIN conn
    <3>1. conn' = [conn EXCEPT ![at[w]].idle = FALSE] /\ conn[at[w]] \in [buffer : Seq(Piece), idle : BOOLEAN]
      BY <1>8, <2>2 DEF LockConnections, TypesHold, TypeOK
    <3>2. \A f \in Fd : Buffer(f)' = Buffer(f)
      BY <3>1 DEF Buffer
    <3> QED
      BY <2>1, <3>2 DEF Quiet
  <2>3. CASE at[w] \notin DOMAIN conn
    BY <1>0, <1>8, <2>1, <2>3 DEF LockConnections
  <2> QED
    BY <2>2, <2>3
<1>9. ASSUME NEW w \in Worker, EndOfData(w) PROVE Quiet
  <2>1. {at[w]} \in SUBSET Fd /\ UNCHANGED <<hand, at>>
    BY <1>9 DEF EndOfData, TypesHold, PlacesKnown
  <2>2. CASE Closed({at[w]}) /\ UNCHANGED <<answers, overtaken>>
    BY <2>1, <2>2, ClosedQuiet
  <2>3. CASE UNCHANGED <<kernel, conn, history>>
    BY <1>0, <2>1, <2>3 DEF kernel, history
  <2> QED
    BY <1>9, <2>2, <2>3 DEF EndOfData
<1>10. ASSUME NEW f \in Fd, Idle(f) PROVE Quiet
  <2>1. UNCHANGED <<answers, hand, sent, overtaken, orphans, inbox, sock, at>>
    BY <1>10 DEF Idle, kernel, workers, history
  <2>2. \A g \in Fd : Buffer(g)' = Buffer(g)
    BY <1>10 DEF Idle, Buffer, TypesHold, TypeOK
  <2> QED
    BY <2>1, <2>2 DEF Quiet
<1>11. CASE CheckTimeouts
  <2>1. PICK fds \in SUBSET Fd : Closed(fds)
    BY <1>11 DEF CheckTimeouts, TypesHold, TypeOK
  <2>2. UNCHANGED <<answers, hand, overtaken, at>>
    BY <1>11 DEF CheckTimeouts, workers
  <2> QED
    BY <2>1, <2>2, ClosedQuiet
<1>12. CASE UNCHANGED vars
  BY <1>0, <1>12 DEF vars, kernel, workers, history
<1> QED
  BY <1>1, <1>2, <1>3, <1>4, <1>5, <1>6, <1>7, <1>8, <1>9, <1>10, <1>11, <1>12 DEF Next

(* A piece that is sent comes after all that were.                         *)
LEMMA SendPieces ==
  ASSUME TypesHold, PiecesHold, NEW c \in Client, NEW kind \in Command \union {"part"}, Send(c, kind)
  PROVE  PiecesHold'
<1> DEFINE new == [from |-> c, n |-> sent[c] + 1, kind |-> kind]
<1>0. /\ sent \in [Client -> Nat] /\ inbox \in [Client -> Seq(Piece)]
      /\ sent' = [sent EXCEPT ![c] = @ + 1] /\ inbox' = [inbox EXCEPT ![c] = Append(@, new)]
      /\ UNCHANGED <<answers, hand, overtaken, orphans, sock, at, conn>>
  BY DEF Send, TypesHold, TypeOK, workers, history
<1>1. new \in Piece /\ new.from = c /\ new.n = sent[c] + 1
  BY <1>0 DEF Piece
<1>2. InHand' = InHand /\ Delivered' = Delivered /\ \A f \in Fd : Buffer(f)' = Buffer(f)
  BY <1>0 DEF InHand, Delivered, Buffer
<1> HIDE DEF new
<1>3. PICK k \in Nat : k = Len(inbox[c]) /\ DOMAIN inbox[c] = 1..k
  BY <1>0, LenProperties
<1>4. /\ DOMAIN inbox'[c] = 1..k + 1
      /\ \A i \in 1..k : inbox'[c][i] = inbox[c][i]
      /\ inbox'[c][k + 1] = new
      /\ \A d \in Client \ {c} : inbox'[d] = inbox[d] /\ sent'[d] = sent[d]
      /\ sent'[c] = sent[c] + 1
  <2>1. inbox'[c] = Append(inbox[c], new) /\ inbox[c] \in Seq(Piece)
    BY <1>0
  <2>2. /\ Append(inbox[c], new) \in Seq(Piece) /\ Len(Append(inbox[c], new)) = k + 1
        /\ \A i \in 1..k : Append(inbox[c], new)[i] = inbox[c][i]
        /\ Append(inbox[c], new)[k + 1] = new
    BY <1>1, <1>3, <2>1, AppendProperties
  <2>3. DOMAIN inbox'[c] = 1..k + 1
    BY <2>1, <2>2, LenProperties
  <2> QED
    BY <1>0, <2>1, <2>2, <2>3
<1>5. PiecesOwned'
  <2>1. ASSUME NEW d \in Client, NEW i \in DOMAIN inbox'[d] PROVE inbox'[d][i].from = d
    <3>1. CASE d = c /\ i = k + 1
      BY <1>1, <1>4, <3>1
    <3>2. CASE d = c /\ i # k + 1
      BY <1>3, <1>4, <2>1, <3>2 DEF PiecesHold, PiecesOwned
    <3>3. CASE d # c
      BY <1>4, <2>1, <3>3 DEF PiecesHold, PiecesOwned
    <3> QED
      BY <3>1, <3>2, <3>3
  <2> QED
    BY <1>0, <1>2, <2>1 DEF PiecesHold, PiecesOwned
<1>6. PiecesOrdered'
  BY <1>0, <1>2 DEF PiecesHold, PiecesOrdered
<1>7. PiecesNumbered'
  <2>1. \A i \in 1..k : /\ inbox[c][i].n <= sent[c] /\ inbox[c][i].n \in Nat
                        /\ \A j \in 1..k : i < j => inbox[c][i].n < inbox[c][j].n
    BY <1>3, PiecesTyped DEF PiecesHold, PiecesNumbered
  <2>2. ASSUME NEW d \in Client, NEW i \in DOMAIN inbox'[d]
        PROVE  /\ inbox'[d][i].n <= sent'[d]
               /\ \A j \in DOMAIN inbox'[d] : i < j => inbox'[d][i].n < inbox'[d][j].n
    <3>1. CASE d = c
      BY <1>0, <1>1, <1>4, <2>1, <2>2, <3>1
    <3>2. CASE d # c
      BY <1>4, <2>2, <3>2 DEF PiecesHold, PiecesNumbered
    <3> QED
      BY <3>1, <3>2
  <2>3. ASSUME NEW p \in Delivered \union InHand
        PROVE  p.n <= sent'[p.from] /\ \A i \in DOMAIN inbox'[p.from] : p.n < inbox'[p.from][i].n
    <3>1. p \in Piece /\ p.from \in Client /\ p.n \in Nat
      BY PiecesTyped DEF Delivered
    <3>2. p.n <= sent[p.from] /\ \A i \in DOMAIN inbox[p.from] : p.n < inbox[p.from][i].n
      BY DEF PiecesHold, PiecesNumbered
    <3>3. CASE p.from = c
      BY <1>0, <1>1, <1>3, <1>4, <3>1, <3>2, <3>3
    <3>4. CASE p.from # c
      BY <1>4, <3>1, <3>2, <3>4
    <3> QED
      BY <3>3, <3>4
  <2> QED
    BY <1>2, <2>2, <2>3 DEF PiecesNumbered
<1> QED
  BY <1>5, <1>6, <1>7 DEF PiecesHold

(* The piece a worker reads comes after all that were read.  If another    *)
(* hand holds one of the same client, the client is overtaken from now on. *)
LEMMA ReadPieces ==
  ASSUME TypesHold, TypesHold', PiecesHold, NEW w \in Worker, Read(w)
  PROVE  PiecesHold'
<1>0. /\ pc[w] = "read" /\ at[w] \in Fd /\ hand[w] = NoPiece
      /\ UNCHANGED <<answers, sent, orphans, sock, at, conn>>
  BY DEF Read, TypesHold, PlacesKnown
<1>1. CASE UNCHANGED <<inbox, hand, overtaken>>
  <2>1. Quiet
    BY <1>0, <1>1 DEF Quiet, Buffer
  <2> QED
    BY <2>1, QuietKeepsPieces
<1>2. ASSUME NEW c \in Client, c = sock[at[w]], inbox[c] # <<>>,
             hand' = [hand EXCEPT ![w] = Head(inbox[c])],
             inbox' = [inbox EXCEPT ![c] = Tail(@)],
             overtaken' = IF \E p \in InHand : p.from = c THEN overtaken \union {c} ELSE overtaken
      PROVE  PiecesHold'
  <2>1. PICK k \in Nat, q \in Piece :
          /\ Len(inbox[c]) = k + 1 /\ DOMAIN inbox[c] = 1..k + 1 /\ q = Head(inbox[c]) /\ q = inbox[c][1]
          /\ DOMAIN Tail(inbox[c]) = 1..k /\ \A i \in 1..k : Tail(inbox[c])[i] = inbox[c][i + 1]
    <3>1. inbox[c] \in Seq(Piece) /\ Len(inbox[c]) \in Nat \ {0} /\ DOMAIN inbox[c] = 1..Len(inbox[c])
      BY <1>2, PiecesTyped, EmptySeq
    <3>2. /\ Head(inbox[c]) \in Piece /\ Tail(inbox[c]) \in Seq(Piece)
          /\ Len(Tail(inbox[c])) = Len(inbox[c]) - 1
          /\ \A i \in 1..Len(Tail(inbox[c])) : Tail(inbox[c])[i] = inbox[c][i + 1]
      BY <1>2, <3>1, HeadTailProperties
    <3>3. DOMAIN Tail(inbox[c]) = 1..Len(Tail(inbox[c]))
      BY <3>2, LenProperties
    <3>4. PICK k \in Nat : Len(inbox[c]) = k + 1 /\ k = Len(inbox[c]) - 1
      BY <3>1
    <3>5. Head(inbox[c]) = inbox[c][1]
      BY <3>1
    <3> QED
      BY <3>1, <3>2, <3>3, <3>4, <3>5
  <2>2. /\ inbox'[c] = Tail(inbox[c]) /\ \A d \in Client \ {c} : inbox'[d] = inbox[d]
        /\ hand'[w] = q /\ \A v \in Worker \ {w} : hand'[v] = hand[v]
        /\ overtaken \subseteq overtaken'
        /\ (\E p \in InHand : p.from = c) => c \in overtaken'
    BY <1>2, <2>1 DEF TypesHold, TypeOK
  <2>0. /\ DOMAIN inbox'[c] = 1..k
        /\ \A i \in 1..k : inbox'[c][i] = inbox[c][i + 1] /\ i + 1 \in DOMAIN inbox[c]
    <3>1. \A i \in 1..k : i + 1 \in DOMAIN inbox[c]
      BY <2>1
    <3> QED
      BY <2>1, <2>2, <3>1
  <2>3. /\ q.from = c /\ q.n \in Nat /\ q # NoPiece /\ q.n <= sent[c]
        /\ \A i \in 1..k : q.n < inbox[c][i + 1].n /\ inbox[c][i + 1].n <= sent[c]
    <3>1. 1 \in DOMAIN inbox[c] /\ \A i \in 1..k : i + 1 \in DOMAIN inbox[c] /\ 1 < i + 1
      BY <2>1
    <3>2. q.from = c /\ q.n <= sent[c]
      BY <2>1, <3>1 DEF PiecesHold, PiecesOwned, PiecesNumbered
    <3>3. \A i \in 1..k : q.n < inbox[c][i + 1].n /\ inbox[c][i + 1].n <= sent[c]
      BY <2>1, <3>1 DEF PiecesHold, PiecesNumbered
    <3> QED
      BY <3>2, <3>3, SocketServerAssumption DEF Piece, NoPiece
  <2>4. \A p \in Delivered \union InHand : p \in Piece /\ p.n \in Nat /\ p.from \in Client
                                          /\ (p.from = c => p.n < q.n)
    <3>1. \A p \in Delivered \union InHand : p \in Piece /\ p.n \in Nat /\ p.from \in Client
      BY PiecesTyped DEF Delivered
    <3>2. 1 \in DOMAIN inbox[c]
      BY <2>1
    <3> QED
      BY <2>1, <3>1, <3>2 DEF PiecesHold, PiecesNumbered
  <2>5. /\ Delivered' = Delivered /\ InHand' \subseteq InHand \union {q}
        /\ \A f \in Fd : Buffer(f)' = Buffer(f)
    BY <1>0, <2>2 DEF Delivered, InHand, Buffer
  <2>6. PiecesOwned'
    <3>1. \A d \in Client : \A i \in DOMAIN inbox'[d] : inbox'[d][i].from = d
      <4>1. \A i \in 1..k : inbox[c][i + 1].from = c
        BY <2>1 DEF PiecesHold, PiecesOwned
      <4>2. \A d \in Client : \A i \in DOMAIN inbox[d] : inbox[d][i].from = d
        BY DEF PiecesHold, PiecesOwned
      <4> QED
        <5>1. \A i \in DOMAIN inbox'[c] : inbox'[c][i].from = c
          BY <2>0, <4>1
        <5> QED
          BY <2>2, <4>2, <5>1
    <3>2. \A v \in Worker : hand'[v] # NoPiece => Owned(hand'[v], sock'[at'[v]], orphans')
      BY <1>0, <1>2, <2>2, <2>3 DEF PiecesHold, PiecesOwned, Owned
    <3> QED
      BY <1>0, <2>5, <3>1, <3>2 DEF PiecesHold, PiecesOwned
  <2>7. PiecesOrdered'
    <3>1. \A x, y : InOrder(x, y, overtaken) => InOrder(x, y, overtaken')
      BY <2>2 DEF InOrder
    <3>2. \A d \in Client : Sorted(answers'[d], overtaken')
      BY <1>0, <3>1 DEF PiecesHold, PiecesOrdered, Sorted
    <3>3. \A f \in Fd : Sorted(Buffer(f)', overtaken')
      BY <2>5, <3>1 DEF PiecesHold, PiecesOrdered, Sorted
    <3>4. \A f \in Fd : sock'[f] \in Client => Precedes(answers'[sock'[f]], Buffer(f)', overtaken')
      BY <1>0, <2>5, <3>1 DEF PiecesHold, PiecesOrdered, Precedes
    <3>5. \A p \in Delivered', x \in InHand' : InOrder(p, x, overtaken')
      <4>1. \A p \in Delivered : InOrder(p, q, overtaken')
        BY <2>3, <2>4 DEF InOrder
      <4> QED
        BY <2>5, <3>1, <4>1 DEF PiecesHold, PiecesOrdered
    <3>6. ASSUME NEW u \in Worker, NEW v \in Worker, u # v, hand'[u] # NoPiece,
                 hand'[v].from = hand'[u].from
          PROVE  hand'[u].n # hand'[v].n /\ hand'[u].from \in overtaken'
      <4>1. CASE u # w /\ v # w
        BY <2>2, <3>6, <4>1 DEF PiecesHold, PiecesOrdered
      <4>2. ASSUME NEW x \in Worker, x # w, hand[x].from = c PROVE hand[x].n # q.n /\ c \in overtaken'
        <5>1. hand[x] \in InHand
          BY <4>2, SocketServerAssumption DEF NoPiece, InHand
        <5> QED
          BY <2>2, <2>3, <2>4, <4>2, <5>1
      <4>3. CASE u = w
        BY <2>2, <2>3, <3>6, <4>2, <4>3
      <4>4. CASE v = w
        BY <2>2, <2>3, <3>6, <4>2, <4>4
      <4> QED
        BY <4>1, <4>3, <4>4
    <3> QED
      BY <3>2, <3>3, <3>4, <3>5, <3>6 DEF PiecesOrdered
  <2>8. PiecesNumbered'
    <3>1. ASSUME NEW d \in Client, NEW i \in DOMAIN inbox'[d]
          PROVE  /\ inbox'[d][i].n <= sent'[d]
                 /\ \A j \in DOMAIN inbox'[d] : i < j => inbox'[d][i].n < inbox'[d][j].n
      <4>1. CASE d = c
        <5>1. i \in 1..k /\ inbox'[d][i] = inbox[c][i + 1] /\ i + 1 \in DOMAIN inbox[c]
          BY <2>0, <3>1, <4>1
        <5>2. \A j \in 1..k : inbox'[d][j] = inbox[c][j + 1] /\ j + 1 \in DOMAIN inbox[c]
                              /\ (i < j => i + 1 < j + 1)
          BY <2>0, <4>1, <5>1
        <5>3. DOMAIN inbox'[d] = 1..k
          BY <2>0, <4>1
        <5> QED
          BY <1>0, <4>1, <5>1, <5>2, <5>3 DEF PiecesHold, PiecesNumbered
      <4>2. CASE d # c
        BY <1>0, <2>2, <3>1, <4>2 DEF PiecesHold, PiecesNumbered
      <4> QED
        BY <4>1, <4>2
    <3>2. ASSUME NEW p \in Delivered \union InHand
          PROVE  p.n <= sent'[p.from] /\ \A i \in DOMAIN inbox'[p.from] : p.n < inbox'[p.from][i].n
      <4>1. p.n <= sent[p.from] /\ \A i \in DOMAIN inbox[p.from] : p.n < inbox[p.from][i].n
        BY DEF PiecesHold, PiecesNumbered
      <4>2. CASE p.from = c
        BY <1>0, <2>0, <4>1, <4>2
      <4>3. CASE p.from # c
        BY <1>0, <2>2, <2>4, <4>1, <4>3
      <4> QED
        BY <4>2, <4>3
    <3>3. q.n <= sent'[q.from] /\ \A i \in DOMAIN inbox'[q.from] : q.n < inbox'[q.from][i].n
      BY <1>0, <2>0, <2>3
    <3> QED
      BY <2>5, <3>1, <3>2, <3>3 DEF PiecesNumbered
  <2> QED
    BY <2>6, <2>7, <2>8 DEF PiecesHold
<1> QED
  BY <1>1, <1>2 DEF Read

(* A piece goes from a hand to the end of a buffer.                        *)
LEMMA AppendPieces ==
  ASSUME TypesHold, TypesHold', PiecesHold, NEW w \in Worker, AppendPiece(w)
  PROVE  PiecesHold'
<1>0. /\ pc[w] = "append" /\ at[w] \in Fd /\ hand[w] # NoPiece
      /\ hand' = [hand EXCEPT ![w] = NoPiece]
      /\ UNCHANGED <<answers, sent, inbox, overtaken, orphans, sock, at>>
  BY DEF AppendPiece, TypesHold, PlacesKnown, kernel, history
<1>1. PICK fd \in Fd, q \in Piece : fd = at[w] /\ q = hand[w] /\ q \in InHand
  BY <1>0, PiecesTyped
<1>b. PICK b : \A f \in Fd : Buffer(f)' = b[f]
  <2>1. \A f \in Fd : Buffer(f)' = [g \in Fd |-> IF g \in DOMAIN conn' THEN conn'[g].buffer ELSE <<>>][f]
    BY DEF Buffer
  <2> QED
    BY <2>1
<1>2. b[fd] = Append(Buffer(fd), q) /\ \A f \in Fd \ {fd} : b[f] = Buffer(f)
  <2>1. PICK entry : entry = IF fd \in DOMAIN conn THEN conn[fd] ELSE [buffer |-> <<>>, idle |-> TRUE]
    OBVIOUS
  <2>2. conn' = [f \in DOMAIN conn \union {fd} |->
                   IF f = fd THEN [entry EXCEPT !.buffer = Append(@, q)] ELSE conn[f]]
    BY <1>1, <2>1 DEF AppendPiece
  <2>3. entry \in [buffer : Seq(Piece), idle : BOOLEAN] /\ entry.buffer = Buffer(fd)
    BY <2>1, EmptySeq DEF TypesHold, TypeOK, Buffer
  <2>4. [entry EXCEPT !.buffer = Append(@, q)].buffer = Append(entry.buffer, q)
    BY <2>3
  <2>5. fd \in DOMAIN conn' /\ conn'[fd].buffer = Append(Buffer(fd), q)
    BY <2>2, <2>3, <2>4
  <2>6. \A f \in Fd \ {fd} : b[f] = Buffer(f)
    BY <1>b, <2>2 DEF Buffer
  <2> QED
    BY <1>b, <2>5, <2>6 DEF Buffer
<1>3. /\ \A i \in DOMAIN b[fd] : b[fd][i] = q \/ (i \in DOMAIN Buffer(fd) /\ b[fd][i] = Buffer(fd)[i])
      /\ \A i, j \in DOMAIN b[fd] : i < j => i \in DOMAIN Buffer(fd) /\ b[fd][i] = Buffer(fd)[i]
  <2>1. PICK k \in Nat : Buffer(fd) \in Seq(Piece) /\ DOMAIN Buffer(fd) = 1..k /\ k = Len(Buffer(fd))
    BY PiecesTyped, LenProperties
  <2>2. /\ b[fd] \in Seq(Piece) /\ Len(b[fd]) = k + 1
        /\ \A i \in 1..k : b[fd][i] = Buffer(fd)[i]
        /\ b[fd][k + 1] = q
    BY <1>2, <2>1, AppendProperties
  <2>3. DOMAIN b[fd] = 1..k + 1
    BY <2>2, LenProperties
  <2>4. ASSUME NEW i \in 1..k + 1 PROVE b[fd][i] = q \/ (i \in 1..k /\ b[fd][i] = Buffer(fd)[i])
    BY <2>2
  <2>5. ASSUME NEW i \in 1..k + 1, NEW j \in 1..k + 1, i < j
        PROVE  i \in 1..k /\ b[fd][i] = Buffer(fd)[i]
    BY <2>2, <2>5
  <2> QED
    BY <2>1, <2>3, <2>4, <2>5
<1>4. /\ \A v \in Worker : hand'[v] # NoPiece => v # w /\ hand'[v] = hand[v]
      /\ InHand' \subseteq InHand /\ \A x \in InHand' : \E v \in Worker \ {w} : x = hand[v]
  BY <1>0 DEF InHand, TypesHold, TypeOK
<1>5. Delivered' \subseteq Delivered \union {q}
  <2>1. ASSUME NEW p \in Piece, NEW f \in Fd, NEW i \in DOMAIN b[f], b[f][i] = p
        PROVE  p \in Delivered \union {q}
    <3>1. CASE f = fd
      BY <1>3, <2>1, <3>1 DEF Delivered
    <3>2. CASE f # fd
      BY <1>2, <2>1, <3>2 DEF Delivered
    <3> QED
      BY <3>1, <3>2
  <2> QED
    BY <1>0, <1>b, <2>1 DEF Delivered
<1>6. \A i \in DOMAIN Buffer(fd) : Buffer(fd)[i] \in Delivered
  BY PiecesTyped DEF Delivered
<1>7. PiecesOwned'
  <2>1. ASSUME NEW f \in Fd, NEW i \in DOMAIN b[f] PROVE Owned(b[f][i], sock'[f], orphans')
    <3>0. /\ Owned(q, sock[fd], orphans)
          /\ \A g \in Fd : \A j \in DOMAIN Buffer(g) : Owned(Buffer(g)[j], sock[g], orphans)
      BY <1>0, <1>1 DEF PiecesHold, PiecesOwned
    <3>1. CASE f = fd
      BY <1>0, <1>3, <2>1, <3>0, <3>1
    <3>2. CASE f # fd
      BY <1>0, <1>2, <2>1, <3>0, <3>2
    <3> QED
      BY <3>1, <3>2
  <2> QED
    BY <1>0, <1>4, <1>b, <2>1 DEF PiecesHold, PiecesOwned
<1>8. PiecesOrdered'
  <2>1. \A p \in Delivered : InOrder(p, q, overtaken)
    BY <1>1 DEF PiecesHold, PiecesOrdered
  <2>2. ASSUME NEW f \in Fd PROVE Sorted(b[f], overtaken')
    <3>1. CASE f = fd
      <4>1. \A i, j \in DOMAIN Buffer(fd) : i < j => InOrder(Buffer(fd)[i], Buffer(fd)[j], overtaken)
        BY DEF PiecesHold, PiecesOrdered, Sorted
      <4>2. ASSUME NEW i \in DOMAIN b[fd], NEW j \in DOMAIN b[fd], i < j
            PROVE  InOrder(b[fd][i], b[fd][j], overtaken)
        <5>1. i \in DOMAIN Buffer(fd) /\ b[fd][i] = Buffer(fd)[i]
          BY <1>3, <4>2
        <5>2. CASE b[fd][j] = q
          BY <1>6, <2>1, <5>1, <5>2
        <5>3. CASE j \in DOMAIN Buffer(fd) /\ b[fd][j] = Buffer(fd)[j]
          BY <4>1, <4>2, <5>1, <5>3
        <5> QED
          BY <1>3, <5>2, <5>3
      <4> QED
        BY <1>0, <3>1, <4>2 DEF Sorted
    <3>2. CASE f # fd
      BY <1>0, <1>2, <3>2 DEF PiecesHold, PiecesOrdered
    <3> QED
      BY <3>1, <3>2
  <2>3. ASSUME NEW f \in Fd, sock'[f] \in Client
        PROVE  Precedes(answers'[sock'[f]], b[f], overtaken')
    <3>1. Precedes(answers[sock[f]], Buffer(f), overtaken)
      BY <1>0, <2>3 DEF PiecesHold, PiecesOrdered
    <3>2. CASE f = fd
      <4>1. \A i \in DOMAIN answers[sock[fd]] : answers[sock[fd]][i] \in Delivered
        BY <1>0, <2>3, <3>2, PiecesTyped DEF Delivered
      <4>2. ASSUME NEW i \in DOMAIN answers[sock[fd]], NEW j \in DOMAIN b[fd]
            PROVE  InOrder(answers[sock[fd]][i], b[fd][j], overtaken)
        <5>1. CASE b[fd][j] = q
          BY <2>1, <4>1, <5>1
        <5>2. CASE j \in DOMAIN Buffer(fd) /\ b[fd][j] = Buffer(fd)[j]
          BY <3>1, <3>2, <5>2 DEF Precedes
        <5> QED
          BY <1>3, <5>1, <5>2
      <4> QED
        BY <1>0, <3>2, <4>2 DEF Precedes
    <3>3. CASE f # fd
      BY <1>0, <1>2, <3>1, <3>3
    <3> QED
      BY <3>2, <3>3
  <2>4. ASSUME NEW p \in Delivered', NEW x \in InHand' PROVE InOrder(p, x, overtaken')
    <3>1. CASE p \in Delivered
      BY <1>0, <1>4, <3>1 DEF PiecesHold, PiecesOrdered
    <3>2. CASE p = q
      <4>1. PICK v \in Worker \ {w} : x = hand[v]
        BY <1>4
      <4> QED
        BY <1>0, <1>1, <3>2, <4>1 DEF PiecesHold, PiecesOrdered, InOrder
    <3> QED
      BY <1>5, <3>1, <3>2
  <2>5. ASSUME NEW u \in Worker, NEW v \in Worker, u # v, hand'[u] # NoPiece,
               hand'[v].from = hand'[u].from
        PROVE  hand'[u].n # hand'[v].n /\ hand'[u].from \in overtaken'
    <3>1. hand'[v] # NoPiece
      <4>1. hand[u] \in Piece /\ hand'[u] = hand[u]
        BY <1>4, <2>5, PiecesTyped
      <4> QED
        BY <2>5, <4>1, SocketServerAssumption DEF Piece, NoPiece
    <3> QED
      BY <1>0, <1>4, <2>5, <3>1 DEF PiecesHold, PiecesOrdered
  <2> QED
    BY <1>0, <1>b, <2>2, <2>3, <2>4, <2>5 DEF PiecesHold, PiecesOrdered
<1>9. PiecesNumbered'
  <2>1. Delivered' \union InHand' \subseteq Delivered \union InHand
    BY <1>1, <1>4, <1>5
  <2> QED
    BY <1>0, <2>1 DEF PiecesHold, PiecesNumbered
<1> QED
  BY <1>7, <1>8, <1>9 DEF PiecesHold

(* Where the elements of a concatenation u of s and t are: those of t come *)
(* n places later.                                                         *)
Joined(s, t, u, n) ==
  /\ DOMAIN s \subseteq Nat /\ DOMAIN t \subseteq Nat
  /\ \A i \in DOMAIN s : i \in DOMAIN u /\ u[i] = s[i] /\ i <= n
  /\ \A i \in DOMAIN t : n + i \in DOMAIN u /\ u[n + i] = t[i] /\ n < n + i
  /\ \A k \in DOMAIN u : k \in DOMAIN s \/ \E i \in DOMAIN t : k = n + i

LEMMA ConcatFact ==
  ASSUME NEW s \in Seq(Piece), NEW t \in Seq(Piece)
  PROVE  \E n \in Nat : Joined(s, t, s \o t, n)
<1>1. PICK n \in Nat, l \in Nat : n = Len(s) /\ l = Len(t) /\ DOMAIN s = 1..n /\ DOMAIN t = 1..l
  BY LenProperties
<1>2. PICK u \in Seq(Piece) : u = s \o t
  BY ConcatProperties
<1>3. Len(u) = n + l /\ \A i \in 1..n + l : u[i] = IF i <= n THEN s[i] ELSE t[i - n]
  BY <1>1, <1>2, ConcatProperties
<1>4. DOMAIN u = 1..n + l
  BY <1>3, LenProperties
<1>5. \A i \in DOMAIN s : i \in DOMAIN u /\ u[i] = s[i] /\ i <= n
  BY <1>1, <1>3, <1>4
<1>6. \A i \in DOMAIN t : n + i \in DOMAIN u /\ u[n + i] = t[i] /\ n < n + i
  <2>1. SUFFICES ASSUME NEW i \in 1..l PROVE n + i \in DOMAIN u /\ u[n + i] = t[i] /\ n < n + i
    BY <1>1
  <2>2. n + i \in 1..n + l /\ ~ (n + i <= n) /\ n + i - n = i
    OBVIOUS
  <2>3. u[n + i] = t[n + i - n]
    BY <1>3, <2>2
  <2> QED
    BY <1>4, <2>2, <2>3
<1>7. \A k \in DOMAIN u : k \in DOMAIN s \/ \E i \in DOMAIN t : k = n + i
  <2>1. SUFFICES ASSUME NEW k \in 1..n + l PROVE k \in 1..n \/ \E i \in 1..l : k = n + i
    BY <1>1, <1>4
  <2>2. k \notin 1..n => k - n \in 1..l /\ k = n + (k - n)
    OBVIOUS
  <2> QED
    BY <2>2
<1>8. DOMAIN s \subseteq Nat /\ DOMAIN t \subseteq Nat
  BY <1>1
<1>9. Joined(s, t, u, n)
  BY <1>5, <1>6, <1>7, <1>8 DEF Joined
<1> QED
  BY <1>2, <1>9

(* Its elements are those of the parts, and the other way around.          *)
Occurs(p, s) == \E i \in DOMAIN s : p = s[i]

LEMMA ConcatElements ==
  ASSUME NEW s \in Seq(Piece), NEW t \in Seq(Piece)
  PROVE  \A p : Occurs(p, s \o t) <=> Occurs(p, s) \/ Occurs(p, t)
<1> DEFINE u == s \o t
<1>1. PICK n \in Nat : Joined(s, t, u, n)
  BY ConcatFact
<1> HIDE DEF u
<1>2. \A p : Occurs(p, s) \/ Occurs(p, t) => Occurs(p, u)
  BY <1>1 DEF Joined, Occurs
<1>3. \A p : Occurs(p, u) => Occurs(p, s) \/ Occurs(p, t)
  BY <1>1 DEF Joined, Occurs
<1> QED
  BY <1>2, <1>3 DEF u

(* A concatenation is sorted if its parts are and one precedes the other.  *)
LEMMA SortedConcat ==
  ASSUME NEW s \in Seq(Piece), NEW t \in Seq(Piece), NEW over, NEW u, u = s \o t
  PROVE  Sorted(u, over) <=> Sorted(s, over) /\ Sorted(t, over) /\ Precedes(s, t, over)
<1>a. PICK n \in Nat : Joined(s, t, u, n)
  BY ConcatFact
<1>0. /\ DOMAIN s \subseteq Nat /\ DOMAIN t \subseteq Nat
      /\ \A i \in DOMAIN s : i \in DOMAIN u /\ u[i] = s[i] /\ i <= n
      /\ \A i \in DOMAIN t : n + i \in DOMAIN u /\ u[n + i] = t[i] /\ n < n + i
      /\ \A k \in DOMAIN u : k \in DOMAIN s \/ \E i \in DOMAIN t : k = n + i
  BY <1>a DEF Joined
<1>1. ASSUME Sorted(u, over) PROVE Sorted(s, over) /\ Sorted(t, over) /\ Precedes(s, t, over)
  <2>1. Sorted(s, over)
    BY <1>0, <1>1 DEF Sorted
  <2>2. ASSUME NEW i \in DOMAIN t, NEW j \in DOMAIN t, i < j PROVE InOrder(t[i], t[j], over)
    <3>1. n + i < n + j
      BY <1>0, <2>2
    <3> QED
      BY <1>0, <1>1, <3>1 DEF Sorted
  <2>3. ASSUME NEW i \in DOMAIN s, NEW j \in DOMAIN t PROVE InOrder(s[i], t[j], over)
    <3>1. i < n + j
      BY <1>0
    <3> QED
      BY <1>0, <1>1, <3>1 DEF Sorted
  <2> QED
    BY <2>1, <2>2, <2>3 DEF Sorted, Precedes
<1>2. ASSUME Sorted(s, over), Sorted(t, over), Precedes(s, t, over) PROVE Sorted(u, over)
  <2>1. SUFFICES ASSUME NEW k \in DOMAIN u, NEW l \in DOMAIN u, k < l
                 PROVE  InOrder(u[k], u[l], over)
    BY DEF Sorted
  <2>2. CASE k \in DOMAIN s /\ l \in DOMAIN s
    BY <1>0, <1>2, <2>1, <2>2 DEF Sorted
  <2>3. ASSUME k \in DOMAIN s, NEW j \in DOMAIN t, l = n + j
        PROVE  InOrder(u[k], u[l], over)
    BY <1>0, <1>2, <2>3 DEF Precedes
  <2>4. ASSUME NEW i \in DOMAIN t, k = n + i, NEW j \in DOMAIN t, l = n + j
        PROVE  InOrder(u[k], u[l], over)
    <3>1. i < j
      BY <1>0, <2>1, <2>4
    <3> QED
      BY <1>0, <1>2, <2>4, <3>1 DEF Sorted
  <2>5. ASSUME NEW i \in DOMAIN t, k = n + i PROVE l \notin DOMAIN s
    BY <1>0, <2>1, <2>5
  <2> QED
    BY <1>0, <2>2, <2>3, <2>4, <2>5
<1> QED
  BY <1>1, <1>2

(* What serving a command does to pieces: the first command of a buffer is *)
(* answered or dropped, and the rest stays or is dropped.                  *)
Served(f, command, rest) ==
  /\ UNCHANGED <<hand, sent, overtaken, at>> /\ orphans \subseteq orphans'
  /\ \A c \in Client : inbox'[c] \in {inbox[c], <<>>}
  /\ Buffer(f) = command \o rest
  /\ \A g \in Fd : Buffer(g)' = IF g # f THEN Buffer(g) ELSE
                                IF sock'[f] = sock[f] THEN rest ELSE <<>>
  /\ \A g \in Fd : g # f => sock'[g] = sock[g]
  /\ \/ sock'[f] = sock[f]
     \/ sock'[f] = None /\ \A p \in InHand : p.from = sock[f] => p \in orphans'
  /\ \/ answers' = answers
     \/ sock[f] \in Client /\ answers' = [answers EXCEPT ![sock[f]] = @ \o command]

LEMMA ServedKeepsPieces ==
  ASSUME TypesHold, TypesHold', Newcomers, PiecesHold,
         NEW fd \in Fd, NEW command \in Seq(Piece), NEW rest \in Seq(Piece),
         Served(fd, command, rest)
  PROVE  PiecesHold'
<1>0. /\ hand' = hand /\ sent' = sent /\ overtaken' = overtaken /\ at' = at
      /\ orphans \subseteq orphans' /\ \A c \in Client : inbox'[c] \in {inbox[c], <<>>}
      /\ \A f \in Fd : f # fd => sock'[f] = sock[f]
      /\ \/ sock'[fd] = sock[fd]
         \/ sock'[fd] = None /\ \A p \in InHand : p.from = sock[fd] => p \in orphans'
  BY DEF Served
<1>1. InHand' = InHand
  BY <1>0 DEF InHand
<1>2. PICK b : /\ \A f \in Fd : Buffer(f)' = b[f]
               /\ \A f \in Fd : f # fd => b[f] = Buffer(f)
               /\ b[fd] \in {rest, <<>>} /\ (sock'[fd] # sock[fd] => b[fd] = <<>>)
  <2>1. \A f \in Fd : Buffer(f)' = [g \in Fd |-> IF g # fd THEN Buffer(g) ELSE
                                                  IF sock'[fd] = sock[fd] THEN rest ELSE <<>>][f]
    BY DEF Served
  <2> QED
    BY <2>1
<1>3. /\ \A c \in Client : c # sock[fd] => answers'[c] = answers[c]
      /\ sock[fd] \in Client => answers'[sock[fd]] \in {answers[sock[fd]], answers[sock[fd]] \o command}
  BY DEF Served, TypesHold, TypeOK
<1>4. Buffer(fd) = command \o rest
  BY DEF Served
<1>5. /\ \A p : Occurs(p, command) \/ Occurs(p, rest) => Occurs(p, Buffer(fd))
      /\ \A i \in DOMAIN b[fd] : \E j \in DOMAIN Buffer(fd) : b[fd][i] = Buffer(fd)[j]
  <2>1. \A p : Occurs(p, command) \/ Occurs(p, rest) => Occurs(p, Buffer(fd))
    BY <1>4, ConcatElements
  <2>2. \A i \in DOMAIN rest : \E j \in DOMAIN Buffer(fd) : rest[i] = Buffer(fd)[j]
    BY <2>1 DEF Occurs
  <2> QED
    BY <1>2, <2>1, <2>2
<1>6. ASSUME NEW c \in Client, NEW i \in DOMAIN answers'[c]
      PROVE  \/ \E j \in DOMAIN answers[c] : answers'[c][i] = answers[c][j]
             \/ c = sock[fd] /\ \E j \in DOMAIN Buffer(fd) : answers'[c][i] = Buffer(fd)[j]
  <2>1. CASE answers'[c] = answers[c]
    BY <1>6, <2>1
  <2>2. CASE c = sock[fd] /\ answers'[c] = answers[c] \o command
    <3>1. answers[c] \in Seq(Piece) /\ Occurs(answers'[c][i], answers'[c])
      BY <1>6, PiecesTyped DEF Occurs
    <3>2. Occurs(answers'[c][i], answers[c]) \/ Occurs(answers'[c][i], command)
      BY <2>2, <3>1, ConcatElements
    <3>3. Occurs(answers'[c][i], answers[c]) \/ Occurs(answers'[c][i], Buffer(fd))
      BY <1>5, <3>2
    <3> QED
      BY <2>2, <3>3 DEF Occurs
  <2> QED
    BY <1>3, <2>1, <2>2
<1>7. Delivered' \subseteq Delivered
  <2>1. \A p \in Piece : (\E c \in Client : \E i \in DOMAIN answers'[c] : answers'[c][i] = p) => p \in Delivered
    BY <1>6 DEF Delivered
  <2>2. \A p \in Piece : (\E f \in Fd : \E i \in DOMAIN b[f] : b[f][i] = p) => p \in Delivered
    BY <1>2, <1>5 DEF Delivered
  <2> QED
    BY <1>2, <2>1, <2>2 DEF Delivered
<1>8. PiecesOwned'
  <2>0. /\ \A c \in Client : \A i \in DOMAIN answers[c] : Owned(answers[c][i], c, orphans')
        /\ \A f \in Fd : \A i \in DOMAIN Buffer(f) : Owned(Buffer(f)[i], sock[f], orphans')
    BY <1>0 DEF PiecesHold, PiecesOwned, Owned
  <2>1. \A c \in Client : \A i \in DOMAIN answers'[c] : Owned(answers'[c][i], c, orphans')
    BY <1>6, <2>0
  <2>2. ASSUME NEW f \in Fd, NEW i \in DOMAIN b[f] PROVE Owned(b[f][i], sock'[f], orphans')
    <3>1. CASE f = fd
      BY <1>0, <1>2, <1>5, <2>0, <2>2, <3>1
    <3>2. CASE f # fd
      BY <1>0, <1>2, <2>0, <2>2, <3>2
    <3> QED
      BY <3>1, <3>2
  <2>3. ASSUME NEW w \in Worker, hand[w] # NoPiece PROVE Owned(hand[w], sock'[at[w]], orphans')
    <3>1. /\ Owned(hand[w], sock[at[w]], orphans) /\ hand[w] \in InHand /\ at[w] \in Fd
      BY <2>3, PiecesTyped DEF PiecesHold, PiecesOwned
    <3> QED
      BY <1>0, <3>1 DEF Owned
  <2>4. \A c \in Client : \A i \in DOMAIN inbox'[c] : inbox'[c][i].from = c
    BY <1>0 DEF PiecesHold, PiecesOwned
  <2> QED
    BY <1>0, <1>2, <2>1, <2>2, <2>3, <2>4 DEF PiecesOwned
<1>9. PiecesOrdered'
  <2>0. /\ Sorted(Buffer(fd), overtaken) /\ \A c \in Client : Sorted(answers[c], overtaken)
        /\ sock[fd] \in Client => Precedes(answers[sock[fd]], Buffer(fd), overtaken)
    BY DEF PiecesHold, PiecesOrdered
  <2>1. Sorted(rest, overtaken)
    BY <1>4, <2>0, SortedConcat
  <2>2. Sorted(b[fd], overtaken)
    BY <1>2, <2>1 DEF Sorted
  <2>3. ASSUME sock[fd] \in Client
        PROVE  /\ Sorted(answers[sock[fd]] \o command, overtaken)
               /\ Precedes(answers[sock[fd]] \o command, rest, overtaken)
               /\ Precedes(answers[sock[fd]], rest, overtaken)
    <3>1. PICK a \in Seq(Piece) : a = answers[sock[fd]]
      BY <2>3, PiecesTyped
    <3>2. Sorted(command, overtaken) /\ Precedes(command, rest, overtaken)
      BY <1>4, <2>0, SortedConcat
    <3>3. Precedes(a, command, overtaken) /\ Precedes(a, rest, overtaken)
      <4>1. Precedes(a, Buffer(fd), overtaken)
        BY <2>0, <2>3, <3>1
      <4> QED
        BY <1>5, <4>1 DEF Precedes, Occurs
    <3>4. Sorted(a \o command, overtaken)
      BY <2>0, <2>3, <3>1, <3>2, <3>3, SortedConcat
    <3>5. Precedes(a \o command, rest, overtaken)
      <4>1. \A p : Occurs(p, a \o command) => Occurs(p, a) \/ Occurs(p, command)
        BY <3>1, ConcatElements
      <4> QED
        BY <3>2, <3>3, <4>1 DEF Precedes, Occurs
    <3> QED
      BY <3>1, <3>3, <3>4, <3>5
  <2>4. \A c \in Client : Sorted(answers'[c], overtaken')
    BY <1>0, <1>3, <2>0, <2>3
  <2>5. ASSUME NEW f \in Fd PROVE Sorted(b[f], overtaken')
    BY <1>0, <1>2, <2>2 DEF PiecesHold, PiecesOrdered
  <2>6. ASSUME NEW f \in Fd, sock'[f] \in Client PROVE Precedes(answers'[sock'[f]], b[f], overtaken')
    <3>1. CASE f = fd
      <4>1. sock'[fd] = sock[fd] /\ sock[fd] \in Client
        BY <1>0, <2>6, <3>1, SocketServerAssumption
      <4>2. CASE b[fd] = <<>>
        BY <3>1, <4>2 DEF Precedes
      <4>3. CASE b[fd] = rest
        BY <1>0, <1>3, <2>3, <3>1, <4>1, <4>3
      <4> QED
        BY <1>2, <4>2, <4>3
    <3>2. CASE f # fd
      <4>1. sock'[f] = sock[f] /\ sock[f] # sock[fd]
        BY <1>0, <2>6, <3>2, SocketServerAssumption DEF Newcomers
      <4>2. answers'[sock'[f]] = answers[sock[f]] /\ b[f] = Buffer(f)
        BY <1>2, <1>3, <2>6, <3>2, <4>1
      <4> QED
        BY <1>0, <2>6, <4>1, <4>2 DEF PiecesHold, PiecesOrdered
    <3> QED
      BY <3>1, <3>2
  <2>7. \A p \in Delivered', q \in InHand' : InOrder(p, q, overtaken')
    BY <1>0, <1>1, <1>7 DEF PiecesHold, PiecesOrdered
  <2> QED
    BY <1>0, <1>2, <2>4, <2>5, <2>6, <2>7 DEF PiecesHold, PiecesOrdered
<1>10. PiecesNumbered'
  <2>1. \A p \in Delivered' \union InHand' : p \in Delivered \union InHand /\ p.from \in Client
    BY <1>1, <1>7, PiecesTyped DEF Delivered
  <2>2. \A p \in Delivered' \union InHand' :
          p.n <= sent'[p.from] /\ \A i \in DOMAIN inbox'[p.from] : p.n < inbox'[p.from][i].n
    <3>1. /\ sent' = sent /\ \A c \in Client : inbox'[c] \in {inbox[c], <<>>}
      BY <1>0
    <3>2. \A p \in Delivered \union InHand :
            p.n <= sent[p.from] /\ \A i \in DOMAIN inbox[p.from] : p.n < inbox[p.from][i].n
      BY DEF PiecesHold, PiecesNumbered
    <3> QED
      BY <2>1, <3>1, <3>2
  <2>3. \A c \in Client : \A i \in DOMAIN inbox'[c] :
          /\ inbox'[c][i].n <= sent'[c]
          /\ \A j \in DOMAIN inbox'[c] : i < j => inbox'[c][i].n < inbox'[c][j].n
    BY <1>0 DEF PiecesHold, PiecesNumbered
  <2> QED
    BY <2>2, <2>3 DEF PiecesNumbered
<1> QED
  BY <1>8, <1>9, <1>10 DEF PiecesHold

LEMMA ServePieces ==
  ASSUME TypesHold, TypesHold', Newcomers, PiecesHold, NEW w \in Worker, ServeCommand(w)
  PROVE  PiecesHold'
<1>0. /\ pc[w] = "serve" /\ at[w] \in Fd /\ at[w] \in DOMAIN conn
      /\ HasCommand(conn[at[w]].buffer) /\ UNCHANGED <<hand, at>>
      /\ conn[at[w]] \in [buffer : Seq(Piece), idle : BOOLEAN]
      /\ sock \in [Fd -> Client \union {None}]
  BY DEF ServeCommand, TypesHold, PlacesKnown, TypeOK
<1>1. PICK f \in Fd, command \in Seq(Piece), rest \in Seq(Piece) :
        /\ f = at[w] /\ command = FirstCommand(conn[f].buffer) /\ rest = Rest(conn[f].buffer)
        /\ Buffer(f) = command \o rest /\ f \in DOMAIN conn
  <2>1. Buffer(at[w]) = conn[at[w]].buffer /\ conn[at[w]].buffer \in Seq(Piece)
    BY <1>0 DEF Buffer
  <2> QED
    BY <1>0, <2>1, CommandSplits
<1>2. ASSUME conn' = [conn EXCEPT ![f].buffer = Rest(@)], UNCHANGED <<kernel, orphans, overtaken>>,
             \/ answers' = answers
             \/ sock[f] \in Client /\ answers' = [answers EXCEPT ![sock[f]] = @ \o command]
      PROVE  PiecesHold'
  <2>1. \A g \in Fd : Buffer(g)' = IF g # f THEN Buffer(g) ELSE rest
    BY <1>0, <1>1, <1>2 DEF Buffer
  <2>2. Served(f, command, rest)
    BY <1>0, <1>1, <1>2, <2>1 DEF Served, kernel
  <2> QED
    BY <2>2, ServedKeepsPieces
<1>3. ASSUME Closed({f}), UNCHANGED overtaken, sock[f] \in Client,
             answers' = [answers EXCEPT ![sock[f]] = @ \o command]
      PROVE  PiecesHold'
  <2>1. /\ \A c \in Client : inbox'[c] \in {inbox[c], <<>>}
        /\ \A g \in Fd : Buffer(g)' = IF g \in {f} THEN <<>> ELSE Buffer(g)
        /\ \A g \in Fd : IF g \in {f}
                            THEN sock'[g] = None /\ \A p \in InHand : p.from = sock[g] => p \in orphans'
                            ELSE sock'[g] = sock[g]
        /\ sent' = sent /\ orphans \subseteq orphans'
    BY <1>3, ClosedPieces
  <2>2. sock'[f] = None /\ sock'[f] # sock[f]
    BY <1>3, <2>1, SocketServerAssumption
  <2>3. Served(f, command, rest)
    BY <1>0, <1>1, <1>3, <2>1, <2>2 DEF Served
  <2> QED
    BY <2>3, ServedKeepsPieces
<1>4. ASSUME Closed({f}), UNCHANGED <<answers, overtaken>> PROVE PiecesHold'
  <2>1. Quiet
    BY <1>0, <1>4, ClosedQuiet
  <2> QED
    BY <2>1, QuietKeepsPieces
<1> QED
  BY <1>1, <1>2, <1>3, <1>4 DEF ServeCommand, history

-----------------------------------------------------------------------------
IInv == /\ TypesHold
        /\ OpenHasEntry
        /\ NoCommandForgotten
        /\ Newcomers
        /\ PiecesHold

LEMMA InvInit == Init => IInv
<1> SUFFICES ASSUME Init PROVE IInv
  OBVIOUS
<1>1. TypesHold
  BY TypesInit
<1>2. OpenHasEntry /\ NoCommandForgotten /\ Newcomers
  <2>1. /\ DOMAIN conn = {} /\ \A f \in Fd : sock[f] = None
        /\ backlog = {} /\ \A c \in Client : answers[c] = <<>>
    BY DEF Init
  <2> QED
    BY <2>1, SocketServerAssumption DEF OpenHasEntry, Open, NoCommandForgotten, Newcomers
<1>3. /\ \A f : Buffer(f) = <<>>
      /\ Delivered = {} /\ InHand = {}
  BY DEF Init, Buffer, Delivered, InHand
<1>4. PiecesOwned /\ PiecesOrdered /\ PiecesNumbered
  BY <1>3 DEF Init, PiecesOwned, PiecesOrdered, PiecesNumbered, Sorted, Precedes
<1> QED
  BY <1>1, <1>2, <1>4 DEF IInv, PiecesHold

LEMMA InvNext == IInv /\ [Next]_vars => IInv'
<1> SUFFICES ASSUME IInv, [Next]_vars PROVE IInv'
  OBVIOUS
<1>1. TypesHold /\ TypesHold' /\ Newcomers /\ PiecesHold
  BY TypesNext DEF IInv
<1>2. OpenHasEntry' /\ NoCommandForgotten' /\ Newcomers'
  BY <1>1, OpenHasEntryNext, NoCommandForgottenNext, NewcomersNext DEF IInv
<1>3. PiecesHold'
  <2>1. ASSUME NEW c \in Client, NEW kind \in Command \union {"part"}, Send(c, kind) PROVE PiecesHold'
    BY <1>1, <2>1, SendPieces
  <2>2. ASSUME NEW w \in Worker, Read(w) PROVE PiecesHold'
    BY <1>1, <2>2, ReadPieces
  <2>3. ASSUME NEW w \in Worker, AppendPiece(w) PROVE PiecesHold'
    BY <1>1, <2>3, AppendPieces
  <2>4. ASSUME NEW w \in Worker, ServeCommand(w) PROVE PiecesHold'
    BY <1>1, <2>4, ServePieces
  <2>5. CASE Quiet
    BY <1>1, <2>5, QuietKeepsPieces
  <2> QED
    BY <1>1, <2>1, <2>2, <2>3, <2>4, <2>5, QuietSteps
<1> QED
  BY <1>1, <1>2, <1>3 DEF IInv

LEMMA InvAlways == Spec => []IInv
BY InvInit, InvNext, PTL DEF Spec

(* The types, and the mutex with whoever is inside process_client_data.    *)
THEOREM TypesAlways == Spec => []TypeOK
<1>1. IInv => TypeOK
  BY DEF IInv, TypesHold
<1> QED
  BY <1>1, InvAlways, PTL

(* No complete command lies in a buffer with nobody to serve it.           *)
THEOREM CommandsAreServed == Spec => []NoCommandForgotten
<1>1. IInv => NoCommandForgotten
  BY DEF IInv
<1> QED
  BY <1>1, InvAlways, PTL

(* No open socket is without an entry.                                     *)
THEOREM SocketsAreKnown == Spec => []OpenHasEntry
<1>1. IInv => OpenHasEntry
  BY DEF IInv
<1> QED
  BY <1>1, InvAlways, PTL

(* What is answered on the wrong connection was in a hand when its sender's *)
(* connection was closed.                                                  *)
THEOREM StraysAreOrphans == Spec => []OnlyOrphansStray
<1>1. IInv => OnlyOrphansStray
  BY DEF IInv, PiecesHold, PiecesOwned, Owned, OnlyOrphansStray
<1> QED
  BY <1>1, InvAlways, PTL

(* Pieces are answered once, and in order unless two workers held pieces   *)
(* of one client at a time.                                                *)
THEOREM AnswersInOrder == Spec => []InOrderUnlessOvertaken
<1>1. IInv => InOrderUnlessOvertaken
  BY DEF IInv, PiecesHold, PiecesOrdered, Sorted, InOrder, InOrderUnlessOvertaken
<1> QED
  BY <1>1, InvAlways, PTL
=============================================================================
