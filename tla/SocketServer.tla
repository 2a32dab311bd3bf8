---------------------------- MODULE SocketServer ----------------------------
(***************************************************************************)
(* The command server of http-server/src/socket_server.cpp: a main thread  *)
(* that accepts, workers that wait on the same epoll instance, and a       *)
(* thread that closes idle connections.                                    *)
(*                                                                         *)
(* Descriptors are reused, so what a descriptor means is looked up in sock *)
(* at every system call.  connections_mutex is the variable mutex; a       *)
(* section that does nothing but change the map is one action, enabled     *)
(* while the mutex is free.  Workers look the map up without the mutex     *)
(* (a data race): they see it before or after any change.                  *)
(* What a client sends is cut into pieces, one per read.  A piece is a     *)
(* command or, of kind "part", the beginning of one.  An operator whose    *)
(* name ends in a suffix after "_" is a faulty variant of the one below.   *)
(***************************************************************************)
EXTENDS Integers, Sequences, FiniteSets, FiniteSetsExt

CONSTANTS Client,     \* each connects once
          Fd,         \* descriptors accept can return
          Worker,     \* NUM_WORKERS threads
          MaxSends,   \* bound: pieces the clients send altogether
          MaxBuffer   \* parts the buffer may hold (8192 bytes in the code)

None == "none"
NoFd == -1

ASSUME SocketServerAssumption == /\ MaxSends \in Nat /\ MaxBuffer \in Nat
                                 /\ Fd \subseteq Nat
                                 /\ None \notin Client \union Worker

Command == {"line", "stats", "quit"}    \* "line": any command that is only answered
Piece == [from : Client, n : Nat \ {0}, kind : Command \union {"part"}]
NoPiece == [from |-> None, n |-> 0, kind |-> "part"]

VARIABLES \* the kernel
          client,     \* "new", "up", "left" or "cut" (closed by the server)
          sent,       \* pieces each client has sent
          inbox,      \* what arrived and was not read yet
          backlog,    \* clients to be accepted
          sock,       \* the client behind each descriptor
          watched,    \* descriptors added to the epoll instance
          ready,      \* those with an edge that nobody was told of
          \* the server
          conn,       \* connections: descriptor -> buffer, idle for over 60 s
          mutex,      \* the worker that holds connections_mutex
          main,       \* where the main thread is, with the descriptor it accepted
          pc, at,     \* where each worker is, and at which descriptor
          hand,       \* the piece it has read and not appended
          todo,       \* the events its last epoll_wait returned
          \* history
          answers,    \* pieces of the commands answered on each client's connection
          orphans,    \* pieces in a worker's hand when their connection was closed
          overtaken   \* clients with pieces in two hands at once
kernel == <<client, sent, inbox, backlog, sock, watched, ready>>
workers == <<pc, at, hand, todo>>
history == <<answers, orphans, overtaken>>
vars == <<kernel, conn, mutex, main, workers, history>>

Init == /\ client = [c \in Client |-> "new"] /\ sent = [c \in Client |-> 0]
        /\ inbox = [c \in Client |-> <<>>] /\ backlog = {}
        /\ sock = [f \in Fd |-> None] /\ watched = {} /\ ready = {}
        /\ conn = << >> /\ mutex = None
        /\ main = [pc |-> "wait", fd |-> NoFd]
        /\ pc = [w \in Worker |-> "next"] /\ at = [w \in Worker |-> NoFd]
        /\ hand = [w \in Worker |-> NoPiece] /\ todo = [w \in Worker |-> {}]
        /\ answers = [c \in Client |-> <<>>] /\ orphans = {} /\ overtaken = {}

Open(f) == sock[f] # None
InHand == {hand[w] : w \in Worker} \ {NoPiece}

(* An edge for the client's descriptor, if epoll watches it.               *)
Edge(c) == ready' = ready \union {f \in watched : sock[f] = c}

-----------------------------------------------------------------------------
(* Clients.                                                                *)
Connect(c) == /\ client[c] = "new"
              /\ client' = [client EXCEPT ![c] = "up"]
              /\ backlog' = backlog \union {c}
              /\ UNCHANGED <<sent, inbox, sock, watched, ready, conn, mutex, main,
                             workers, history>>

Send(c, kind) ==
  /\ client[c] = "up" /\ MapThenSumSet(LAMBDA d : sent[d], Client) < MaxSends
  /\ sent' = [sent EXCEPT ![c] = @ + 1]
  /\ inbox' = [inbox EXCEPT ![c] = Append(@, [from |-> c, n |-> sent[c] + 1, kind |-> kind])]
  /\ Edge(c)
  /\ UNCHANGED <<client, backlog, sock, watched, conn, mutex, main, workers, history>>

Leave(c) == /\ client[c] = "up"
            /\ client' = [client EXCEPT ![c] = "left"]
            /\ Edge(c)
            /\ UNCHANGED <<sent, inbox, backlog, sock, watched, conn, mutex, main,
                           workers, history>>

-----------------------------------------------------------------------------
(* The main thread waits on the instance the workers wait on: the edges of *)
(* client descriptors it is told of are gone.                              *)
MainWait ==
  /\ main.pc = "wait"
  /\ ready # {} \/ backlog # {}
  /\ ready' = {}
  /\ IF backlog # {} /\ \E f \in Fd : ~ Open(f)
       THEN LET f == Min({g \in Fd : ~ Open(g)})
            IN  \E c \in backlog :
                  /\ backlog' = backlog \ {c}
                  /\ sock' = [sock EXCEPT ![f] = c]
                  /\ main' = [pc |-> "accepted", fd |-> f]
       ELSE UNCHANGED <<backlog, sock, main>>
  /\ UNCHANGED <<client, sent, inbox, watched, conn, mutex, workers, history>>

(* EPOLL_CTL_ADD, edge-triggered: what has already arrived is an edge.     *)
(* It fails if the descriptor was closed in the meantime.                  *)
AddToEpoll ==
  LET f == main.fd
      c == sock[f]
  IN  /\ main.pc = "accepted"
      /\ IF Open(f)
           THEN /\ watched' = watched \union {f}
                /\ ready' = IF inbox[c] # <<>> \/ client[c] = "left"
                              THEN ready \union {f} ELSE ready
                /\ main' = [main EXCEPT !.pc = "added"]
           ELSE /\ main' = [pc |-> "wait", fd |-> NoFd]
                /\ UNCHANGED <<watched, ready>>
      /\ UNCHANGED <<client, sent, inbox, backlog, sock, conn, mutex, workers, history>>

(* The entry replaces whatever is at the descriptor; the welcome is sent.  *)
InsertConnection ==
  /\ main.pc = "added" /\ mutex = None
  /\ conn' = [f \in DOMAIN conn \union {main.fd} |->
                IF f = main.fd THEN [buffer |-> <<>>, idle |-> FALSE] ELSE conn[f]]
  /\ main' = [pc |-> "wait", fd |-> NoFd]
  /\ UNCHANGED <<kernel, mutex, workers, history>>

-----------------------------------------------------------------------------
(* close(fd) and connections.erase(fd), for every descriptor in fds.       *)
(* Whatever is behind the descriptor now is closed.                        *)
SocketsAfter_Open(fds) == sock

SocketsAfter(fds) == [f \in Fd |-> IF f \in fds THEN None ELSE sock[f]]

EntriesAfter_Kept(fds) == conn

EntriesAfter(fds) == [f \in DOMAIN conn \ fds |-> conn[f]]

Closed(fds) ==
  LET cut == {sock[f] : f \in fds}
  IN  /\ sock' = SocketsAfter(fds)
      /\ watched' = watched \ fds
      /\ ready' = ready \ fds
      /\ client' = [c \in Client |-> IF c \in cut /\ client[c] = "up" THEN "cut" ELSE client[c]]
      /\ inbox' = [c \in Client |-> IF c \in cut THEN <<>> ELSE inbox[c]]
      /\ conn' = EntriesAfter(fds)
      /\ orphans' = orphans \union {p \in InHand : p.from \in cut}
      /\ UNCHANGED <<sent, backlog>>

-----------------------------------------------------------------------------
(* Workers.                                                                *)
EpollWait(w) == /\ pc[w] = "next" /\ todo[w] = {}
                /\ ready # {}
                /\ todo' = [todo EXCEPT ![w] = ready]
                /\ ready' = {}
                /\ UNCHANGED <<client, sent, inbox, backlog, sock, watched, conn, mutex,
                               main, pc, at, hand, history>>

(* The next event of the batch; connections.find without the mutex.        *)
NextEvent(w, f) ==
  /\ pc[w] = "next" /\ f \in todo[w]
  /\ todo' = [todo EXCEPT ![w] = @ \ {f}]
  /\ IF f \in DOMAIN conn
       THEN pc' = [pc EXCEPT ![w] = "read"] /\ at' = [at EXCEPT ![w] = f]
       ELSE UNCHANGED <<pc, at>>
  /\ UNCHANGED <<kernel, conn, mutex, main, hand, history>>

AfterEmptyRead_Done(c) == IF client[c] = "left" THEN "close" ELSE "next"

(* The end of the stream, or EAGAIN.                                       *)
AfterEmptyRead(c) == IF client[c] = "left" THEN "close" ELSE "lock"

(* One read: a piece, nothing for now, the end, or a closed descriptor.    *)
Read(w) ==
  LET c == sock[at[w]]
      Then(step) == pc' = [pc EXCEPT ![w] = step]
  IN  /\ pc[w] = "read"
      /\ \/ /\ c \in Client /\ inbox[c] # <<>>
            /\ hand' = [hand EXCEPT ![w] = Head(inbox[c])]
            /\ inbox' = [inbox EXCEPT ![c] = Tail(@)]
            /\ overtaken' = IF \E p \in InHand : p.from = c
                              THEN overtaken \union {c} ELSE overtaken
            /\ Then("append")
         \/ /\ c \in Client /\ inbox[c] = <<>>
            /\ Then(AfterEmptyRead(c))
            /\ UNCHANGED <<inbox, hand, overtaken>>
         \/ /\ c = None
            /\ Then("close")
            /\ UNCHANGED <<inbox, hand, overtaken>>
      /\ UNCHANGED <<client, sent, backlog, sock, watched, ready, conn, mutex, main,
                     at, todo, answers, orphans>>

(* connections[fd].buffer.append: the subscript makes an entry if there is *)
(* none, and that entry has been idle since 1970.                          *)
AppendPiece(w) ==
  LET f == at[w]
      entry == IF f \in DOMAIN conn THEN conn[f] ELSE [buffer |-> <<>>, idle |-> TRUE]
  IN  /\ pc[w] = "append" /\ mutex = None
      /\ conn' = [g \in DOMAIN conn \union {f} |->
                    IF g = f THEN [entry EXCEPT !.buffer = Append(@, hand[w])] ELSE conn[g]]
      /\ hand' = [hand EXCEPT ![w] = NoPiece]
      /\ pc' = [pc EXCEPT ![w] = "read"]
      /\ UNCHANGED <<kernel, mutex, main, at, todo, history>>

CloseDescriptor(w) ==
  /\ pc[w] = "close" /\ mutex = None
  /\ Closed({at[w]})
  /\ pc' = [pc EXCEPT ![w] = "next"]
  /\ UNCHANGED <<mutex, main, at, hand, todo, answers, overtaken>>

(* process_client_data up to its loop.                                     *)
LockConnections_KeptIfGone(w) ==
  /\ pc[w] = "lock" /\ mutex = None
  /\ mutex' = w
  /\ IF at[w] \in DOMAIN conn
       THEN /\ conn' = [conn EXCEPT ![at[w]].idle = FALSE]
            /\ pc' = [pc EXCEPT ![w] = "serve"]
       ELSE /\ pc' = [pc EXCEPT ![w] = "next"]
            /\ UNCHANGED conn
  /\ UNCHANGED <<kernel, main, at, hand, todo, history>>

LockConnections(w) ==
  /\ pc[w] = "lock" /\ mutex = None
  /\ IF at[w] \in DOMAIN conn
       THEN /\ mutex' = w
            /\ conn' = [conn EXCEPT ![at[w]].idle = FALSE]
            /\ pc' = [pc EXCEPT ![w] = "serve"]
       ELSE /\ pc' = [pc EXCEPT ![w] = "next"]
            /\ UNCHANGED <<mutex, conn>>
  /\ UNCHANGED <<kernel, main, at, hand, todo, history>>

HasCommand(buffer) == \E i \in DOMAIN buffer : buffer[i].kind # "part"

(* The first command of a buffer that has one, as the pieces it is made    *)
(* of.  A command that begins with a part is none the server knows.        *)
FirstCommand(buffer) ==
  SubSeq(buffer, 1, Min({i \in DOMAIN buffer : buffer[i].kind # "part"}))

Kind(command) == IF Len(command) = 1 THEN command[1].kind ELSE "line"

Rest_NotErased(buffer) == buffer

Rest(buffer) == SubSeq(buffer, Len(FirstCommand(buffer)) + 1, Len(buffer))

(* One turn of the loop of process_client_data, the mutex held.            *)
ServeCommand(w) ==
  LET f == at[w]
      c == sock[f]
      command == FirstCommand(conn[f].buffer)
      Goes == /\ c \in Client
              /\ answers' = [answers EXCEPT ![c] = @ \o command]
      Finish == mutex' = None /\ pc' = [pc EXCEPT ![w] = "next"]
      Erase == conn' = [conn EXCEPT ![f].buffer = Rest(@)]
  IN  /\ pc[w] = "serve" /\ HasCommand(conn[f].buffer)
      /\ \/ \* process_command locks the mutex that this thread holds
            /\ Kind(command) = "stats"
            /\ Erase
            /\ pc' = [pc EXCEPT ![w] = "blocked"]
            /\ UNCHANGED <<kernel, mutex, history>>
         \/ \* answered, and the loop goes on
            /\ Kind(command) = "line" /\ Goes
            /\ Erase
            /\ UNCHANGED <<kernel, mutex, pc, orphans, overtaken>>
         \/ /\ Kind(command) = "quit" /\ Goes
            /\ Closed({f}) /\ Finish
            /\ UNCHANGED overtaken
         \/ \* send fails
            /\ Kind(command) \in {"line", "quit"}
            /\ c \notin {d \in Client : client[d] # "left"}
            /\ Closed({f}) /\ Finish
            /\ UNCHANGED <<answers, overtaken>>
      /\ UNCHANGED <<main, at, hand, todo>>

(* The end of process_client_data: a buffer without a command, too long or *)
(* not.                                                                    *)
EndOfData(w) ==
  LET f == at[w]
  IN  /\ pc[w] = "serve" /\ ~ HasCommand(conn[f].buffer)
      /\ IF Len(conn[f].buffer) > MaxBuffer
           THEN Closed({f}) /\ UNCHANGED <<answers, overtaken>>
           ELSE UNCHANGED <<kernel, conn, history>>
      /\ mutex' = None
      /\ pc' = [pc EXCEPT ![w] = "next"]
      /\ UNCHANGED <<main, at, hand, todo>>

-----------------------------------------------------------------------------
(* check_timeouts, and the minute without activity it looks for.           *)
Idle(f) == /\ f \in DOMAIN conn /\ ~ conn[f].idle
           /\ conn' = [conn EXCEPT ![f].idle = TRUE]
           /\ UNCHANGED <<kernel, mutex, main, workers, history>>

CheckTimeouts ==
  LET idle == {f \in DOMAIN conn : conn[f].idle}
  IN  /\ mutex = None /\ idle # {}
      /\ Closed(idle)
      /\ UNCHANGED <<mutex, main, workers, answers, overtaken>>

Next == \/ \E c \in Client : Connect(c) \/ Leave(c)
        \/ \E c \in Client, kind \in Command \union {"part"} : Send(c, kind)
        \/ MainWait \/ AddToEpoll \/ InsertConnection
        \/ \E w \in Worker : EpollWait(w)
        \/ \E w \in Worker, f \in Fd : NextEvent(w, f)
        \/ \E w \in Worker : Read(w)
        \/ \E w \in Worker : AppendPiece(w)
        \/ \E w \in Worker : CloseDescriptor(w)
        \/ \E w \in Worker : LockConnections(w)
        \/ \E w \in Worker : ServeCommand(w)
        \/ \E w \in Worker : EndOfData(w)
        \/ \E f \in Fd : Idle(f)
        \/ CheckTimeouts

Spec == Init /\ [][Next]_vars

-----------------------------------------------------------------------------
(* The variables have the types the program declares, and the mutex is     *)
(* held by whoever is inside process_client_data.                          *)
TypeOK ==
  /\ client \in [Client -> {"new", "up", "left", "cut"}]
  /\ sent \in [Client -> Nat]
  /\ inbox \in [Client -> Seq(Piece)]
  /\ backlog \subseteq Client
  /\ sock \in [Fd -> Client \union {None}]
  /\ ready \subseteq watched /\ watched \subseteq Fd
  /\ DOMAIN conn \subseteq Fd
  /\ \A f \in DOMAIN conn : conn[f] \in [buffer : Seq(Piece), idle : BOOLEAN]
  /\ mutex \in Worker \union {None}
  /\ \A w \in Worker : pc[w] \in {"serve", "blocked"} <=> mutex = w
  /\ main \in [pc : {"wait", "accepted", "added"}, fd : Fd \union {NoFd}]
  /\ pc \in [Worker -> {"next", "read", "append", "close", "lock", "serve", "blocked"}]
  /\ at \in [Worker -> Fd \union {NoFd}]
  /\ hand \in [Worker -> Piece \union {NoPiece}]
  /\ todo \in [Worker -> SUBSET Fd]
  /\ answers \in [Client -> Seq(Piece)]
  /\ orphans \subseteq Piece /\ overtaken \subseteq Client

(* A complete command never lies in a buffer with nobody to serve it: the  *)
(* worker that appended it has not left the descriptor, whatever other     *)
(* workers, the main thread and the timeouts did to the entry meanwhile.   *)
NoCommandForgotten ==
  \A f \in DOMAIN conn : HasCommand(conn[f].buffer) =>
    \E w \in Worker : at[w] = f /\ pc[w] # "next"

(* No descriptor leaks: an open client socket has an entry, by which the   *)
(* timeouts will find it, unless the main thread is about to make one.     *)
(* Entries are made, erased and replaced by four threads, and a descriptor *)
(* may be closed by one that means its predecessor.                        *)
OpenHasEntry ==
  \A f \in Fd : Open(f) => f \in DOMAIN conn \/ (main.pc # "wait" /\ main.fd = f)

(* What one client sent is answered on the connection of another only if a *)
(* worker held it between the read and the append when the sender's        *)
(* connection was closed.  Erasing an entry, and replacing it, drop        *)
(* everything else that belonged to the predecessor.                       *)
OnlyOrphansStray ==
  \A c \in Client : \A i \in DOMAIN answers[c] :
    answers[c][i].from # c => answers[c][i] \in orphans

(* No piece is answered twice on a connection, and a client's pieces are   *)
(* answered in the order it sent them unless two workers held pieces of it *)
(* at the same time (the edge-triggered descriptor is not one-shot).       *)
InOrderUnlessOvertaken ==
  \A c \in Client : \A i, j \in DOMAIN answers[c] :
    LET p == answers[c][i]
        q == answers[c][j]
    IN  i < j /\ p.from = q.from =>
          p.n # q.n /\ (p.n > q.n => p.from \in overtaken)
=============================================================================
