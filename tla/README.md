# Toguz korgool in TLA+

Specifications of the server side of toguz korgool, a mancala game of two
players: the game engine with its registry, statistics and forecasts, the
matchmaker, the game server that composes them, the JSON server with its request
limit, the multi-worker command server, the account service, and the thread
studies. Source paths below are those of the repository.

## The system

The repository holds several programs around one game, some of them studies
kept side by side. Each row is a component with its state and operations.

| Component | Source | State | Operations | What makes it correct |
|---|---|---|---|---|
| Game engine | `include/core/game_manager_tuz.cpp` 11-363 | two rows of 9 holes, two kazans, two tuz indices, status, game_over | `start_game`, `abandon_game`, `move`, getters; each holds `board_mutex` | the 162 korgools are conserved, a tuz hole stays empty and is never lost, the verdict follows from the kazans, a game in progress can go on |
| Game registry | same file 367-641; with statistics in `include/core/statistics/game_manager_ring_tuz_full_statistics_distributions.cpp` 503-1145 | map id -> game, next_id | create, get (a raw pointer), start, abandon, remove, remove finished, automatic games, statistics | every automatic game is decided, the statistics agree with the kazans |
| Matchmaker | `http-server/include/match_maker.hpp` | ordered waiting list, counters, shutdown flag, condition variable | `addPlayer`, `tryFindMatch`, `matchingThread`, `shutdown` | nobody matched twice or lost, no lost wakeup, ranges widen until a pair fits, the thread can be joined |
| Coroutine game server | `http-server/src/simple_server_coro.cpp`, `bimap.hpp`, `include/core/game_manager.cpp` | open descriptors and their coroutines, the matchmaker, a Bimap of descriptors, games | accept, `find_game`, `move`, disconnect | a match gives one game and both players hear of it |
| Multi-worker epoll server | `http-server/src/socket_server.cpp` | map of connections with their buffers under one mutex | accept, workers that read and run commands, a timeout thread | no command is forgotten in a buffer, no descriptor leaks, nothing reaches another client or comes out of order but by the races named |
| JSON coroutine server | `http-server/src/modified/simple_coro_server.cpp`, `protocol.json` | per-descriptor rate counters | JSON and text commands | the limit is kept, replies conform to the protocol |
| HTTP account service | `http-server/src/main.cpp` and its headers, `include/mongodbclient.hpp` | accounts in a database, refresh tokens, reset tokens and their addresses, all shared by the threads of httplib without a lock | register, login, refresh, reset | duplicates only by overlap, a mailed link works until used and changes one password once, sessions come from logins |
| Thread studies | `http-server/src/thread_pause.cpp` | a pausable thread, a pool, a list of games | pause, resume, stop, enqueue, scanner and creator | a stopped thread ends, each queued task runs once, no wakeup is lost |
| Statistics variants | `include/core/statistics/*.cpp` | the engine with counters of gains; move selection, some of it by networks | as the engine; statistics over many games; the forecast of a tuz | the counters add up, the forecast agrees with the move |
| Helpers, drafts, vendored | `include/utils`, `oauth2`, older servers, `frontend`, `nlohmann`, `httplib.h` | | | |

Components talk by calls under mutexes (engine, registry, matchmaker), through
shared lists and descriptors (the servers), and through the database (accounts).
Only the epoll server and the account service run handlers in parallel on shared
state; the coroutine servers are one thread.
The hard parts are: sowings that interact with two tuzes on both sides; the
hand-over between adding a player and the sleeping matching thread; a shutdown
that notifies without the mutex; exceptions in the middle of a command;
descriptors that are remembered after the operating system has reused them; two
workers on one socket; and handlers that look up, compute and store in separate
accesses.
`PROJECT.json` lists these hazards by line.

## Modules

| Module | What it is |
|---|---|
| `Ring` | The board of `class Ring` and the private helpers of `ToguzKorgoolGame` as operators: route, tuz, sowing, capture, end of the game |
| `ToguzKorgoolGame` | One game as a state machine: `StartGame`, `AbandonGame`, `Move`; invariants, action properties, refinement mapping |
| `Contest` | The abstract specification: a stock moves from a board into two kazans, the verdict follows from the kazans |
| `TuzForecast` | The forecast of a tuz by modular arithmetic (`calculateTuzProb` of the hash-probability edition) |
| `MCToguzKorgoolGame` | The game with a closed form of the sowing and what is said of the forecast, both checked by TLC and proved |
| `GameManager`, `MCGameManager` | The registry, the automatic player, the counters of gains and `get_statistics`, as `main` drives them, over the operators of `Ring` |
| `MatchQueue` | The waiting list of `ThreadSafeMatchmaker`, its order and the choice of a pair, as operators |
| `Matchmaker` | The matchmaker with its clients, its matching thread and the owner that shuts it down |
| `GameServer` | The coroutine server over `MatchQueue`, the Bimap and the games |
| `JsonServer` | The JSON coroutine server: connections, the limiter per descriptor, which reply each form of request gets |
| `SocketServer`, `MCSocketServer` | The multi-worker epoll server: clients, the kernel's descriptors and edges, the accepting thread, workers, timeouts |
| `AccountService`, `MCAccountService` | Registration, sessions and password resets, each handler cut at every access to what handlers share |
| `PausableThread`, `ThreadPool`, `GameScanner` | The three studies of `thread_pause.cpp`, each with its condition variable |
| `TaskBag` | The abstract specification of a pool: tasks begun once and in order, at most N at a time, over when all are done |
| `ThreadStudies` | The three studies side by side: a behaviour is one of them |
| `Sums` | The sum of the values of a function, used by the statistics and by the closed form of the sowing |
| `RingFacts` | Lemmas about the operators of `Ring` and what they rest on: induction over naturals and over finite sets, finite recursion, sums, division |
| `ToguzKorgoolGame_proofs`, `GameManager_proofs` | Proofs about the engine, and about the registry with its statistics |
| `Matchmaker_proofs`, `GameServer_proofs` | Proofs about the matchmaker and the game server, each after lemmas about the waiting list; the first ends with proofs about the thread studies, which wait on condition variables as the matchmaker does |
| `JsonServer_proofs`, `SocketServer_proofs`, `AccountService_proofs` | Proofs about these three servers |

`ToguzKorgoolGame` owns `holes`, `kazans`, `tuz`, `status` and `game_over`, named
after the fields; `top` and `down` are the keys of one function each. `move` is
one action because it holds the mutex throughout; what its helpers do in turn is
`AfterMove(...)` in `Ring`, and `check_game_end` is the last conjunct of `Move`. A
call that the code rejects changes nothing, which is a stuttering step. The code
checks no turns, so neither does the model. `Taker` is the tuz test of
`distribute_korgools`: a tuz is a bare index and takes korgools on either side of
the board, also on its owner's. The excluded hole of `check_tuz` is index 8 on both
sides, although index 8 is the last hole of the top side's route and the first of
the down side's.

In `Matchmaker` a client first reads the clock (`Arrive`), then adds itself under
the mutex (`AddPlayer`); the matching thread's loop is `CheckFlag`, `TryFindMatch`,
`Predicate`, `FallAsleep` and the three ways to wake (`Notify` inside the notifying
actions, `TimedOut`, `SpuriousWakeup`). The mutex is held between `Predicate` and
`FallAsleep`, which is what `MutexFree` says. `shutdown` is two actions because
nothing makes them one.

In `GameServer` one action is one command: after their first suspension all
coroutines are resumed by the one thread of `init_socket_server` and suspend only
where they wait for input. `StartMatch` has the two outcomes of the code after a
pair was found: all three sends, or an exception (from `create_game` or `at_left`)
whose handler closes the requester's descriptor.

In `JsonServer` what is done with one read is one action too, for the same reason.
`TooLarge`, `RateExceeded` and `Handle` are the three exits of the loop body after a
read, in its order. `Renewed` is the window test of `check_rate_limit`, which also
makes the entry of a new descriptor; `Close` is `cleanup_client_rate_limit` and
`close`, which stand together at all five places where a connection ends. `handled`
is a history variable: the times at which the connection now open on a descriptor
passed the limit.

In `GameManager` every call that `main` and `play_automatic_game` make on a game is
an action; `main` is one thread, so nothing interleaves with it. `Moved` is `move` of
the edition with statistics: the engine of `Ring`, whose rules this edition shares, and
the counters. Any available move may be chosen, since the distributions of
that edition only weigh them. `get_statistics` is the operator `statistics`, with its early
return: without games the minima stay at `INT_MAX` (`Unset`), which only games set to 0.

In `SocketServer` the kernel is part of the state: `sock` says which client is behind a
descriptor *now*, so a system call on a remembered descriptor does what it does to
whatever is there. A section of `connections_mutex` that only changes the map is one
action, enabled while nobody holds the mutex; `process_client_data`, which runs
commands inside the section, takes it in `LockConnections` and gives it back in
`ServeCommand` or `EndOfData`. `process_command` takes the mutex again for STATS: that
worker goes to `blocked` with the mutex, for good. Workers look the map up without
the mutex in `NextEvent`, as the code does. Edges are lost in the two ways the code
loses them: the main thread waits on the same epoll instance (`MainWait`), and the
descriptor is added before the connection is in the map (`AddToEpoll`, then
`InsertConnection`).

In `AccountService` a thread's `req` is what its handler still has to do, with what it
read: `RegisterFindsNoName`, `RegisterFindsEmail` and `RegisterInserts` are the three
calls of the database in `/register`, and so on. The database may fail in any call:
`find_documents` then says "not there" and the insertions and updates are not looked
at. `seen`, `blind` and the variables of `history` record overlaps for the properties
and are read by no action.

In `PausableThread` and `ThreadPool` a section of the mutex is one action and each
`notify` after the unlock is one of its own; the atomics are read outside, where the
code reads them. `GameScanner` notifies inside the section.

An operator with a suffix after an underscore (`Taker_OwnSideForgotten`) is a
faulty variant of the operator that follows it. No specification uses one; each
stands for a plausible slip, and putting it in place of the original breaks the
property that `PROJECT.json` names beside it under `mutants`.

## What the runs check

**`game`** (`Game.cfg`, 220,523 states, under a minute). Three holes of three
korgools on each side, so 18 korgools. Two holes can become a tuz, so both players
can hold one; sowings pass the own starting hole again; all verdicts occur. A
board of nine holes differs in size but not in any branch, except that one move of
the small board goes around more often. Deadlock is not checked since games end.
- `Conservation`, `TuzStaysEmpty`, `TuzIsForever`: the sowing's several paired
  updates lose and make nothing, and what was won stays won.
- `InProgressPlayable`: `check_game_end` leaves no game in progress with an empty
  side, so the automatic player always has a move. The 81-to-81 test of
  `check_game_end` never decides: at 81 to 81 both sides are empty already.
- `VerdictJustified`: the verdict is what the kazans say. (`GameOverAgrees`, that the
  flag and the status agree, is proved and has no run of its own.)
- `TopForecastIsExact`: on a board without tuzes the forecast of `MoveSelector` says
  "tuz" for a move of the top player if and only if the move wins one, unless the move
  comes around to where it began. For the down player it is wrong: see "Observations".
- `SowingByDivision`: the sowing loop equals a closed form that counts arrivals by
  division, on every reachable board.
- `ImplementsContest`: every step is a step of `Contest` or a stutter of it.

**`taken_comment`** expects a violation. Two comments in `move` say that captures
and tuzes are checked only when a tuz did not take the last korgool; the code
checks them always. TLC finds a game where it matters.

**`matchmaker`** (`Matchmaker.cfg`, 323,010 states, under a minute). Three clients
with ratings 0, 2 and 5 (accepted at once: 2, widening by 1 per second), arriving
in the seconds 0 and 1, a clock that stops at 5. The ratings make one pair exactly
at the limit, one within reach after waiting and one only late; the third client
arrives during every phase of the thread. At second 5 the widest gap is in reach,
so bounding the clock hides no match. Deadlock is not checked: after the shutdown,
with the clock at its bound, nothing is left to do.
- `MatchedOnce`, `OnlyTiesVanish`, `StatsAddUp`: a player is in one place only; the
  one way to be lost is to have the rating and `joinTime` of somebody who waits
  (`std::set` drops the second), and the counters show exactly that loss.
- `PairsWithinReach`: no pair is farther apart than the range of the one who waited
  longer, and a fruitless search means that all are at least that far apart. At
  equality either may happen: the range is open at its upper end.
- `NeverSleepsOnAPair`: no wakeup from `addPlayer` is lost.
- `PairsGetMatched`, `ThreadStops` (liveness). Fairness is weak, on the matching
  thread's steps (a thread that can run is scheduled), on the end of its
  one-second wait, and on the clock. Clients and the owner are under no
  obligation. `ThreadStops` rests on the timeout: the notification of `shutdown`
  can be lost, and without `TimedOut` TLC shows the thread sleeping for good.

**`game_server`** (`GameServer.cfg`, 346,563 states). Three persons, three
descriptors given out lowest first, seven calls (connections, commands, hang-ups) and
two seconds: enough for a player to queue, leave, have its descriptor reused and be
matched, and for two matches after each other. It does not check deadlock because calls run out.
- `FailsAsAWhole`: no pair leaves the list without a game of its own; a match is
  announced with a greeting and both colours, or not at all, and then the requester's
  connection is the price.
- `ColoursReachThePlayers`: a colour goes to a stranger only if the player it was
  meant for had left and its descriptor was reused.

**`untold_match`** and **`alone`** expect violations of what comments in
`match_maker.hpp` promise: both clients are answered (line 17), a player is not
paired with himself (line 96). When the lower-rated player is the one that asks,
`at_left` throws and nobody is told; a client that asks twice can play itself.

**`json_server`** (`JsonServer.cfg`, 148,728 states). Two descriptors, two requests a
minute of two ticks, five inputs and two minutes: a fifth input is one more than two full
windows take, and two minutes hold the end of one window and the whole next one. The
size limit is 1000, under the 1023 bytes one read can return, so that `TooLarge`
happens; with the default of 10240 it never does. Deadlock is not checked
because inputs and clock run out.
- `BelowTwiceTheLimit`: the limit itself does not hold in every minute; the rest of one
  window and the whole next one add up to one less than twice the limit, and no more.
- `RefusedForOwnRequests`, `RatesOfTheOpen`: a connection inherits nothing from the one
  that had its descriptor before, nor from an expired window.

**`json_ids`** expects a violation, with the default size limit: `protocol.json` requires
an `id` in every response (line 56), the replies 429 and 413 have none.

**`socket_server`** (`SocketServer.cfg`, 1,083,638 states up to symmetry, under a
minute). Two clients, two workers, two descriptors that `accept` gives out lowest
first, two pieces sent altogether and a buffer that takes one part. Two pieces are what
a race of two workers over one socket needs, and one client leaving while another is
accepted is what a stale descriptor needs; both clients can get the same descriptor in
turn. Clients and workers are only compared for equality, so both are permuted.
Deadlock is not checked: a worker that blocks on its own mutex stops the server.
- `TypeOK` also says that the mutex is held exactly by the worker inside `process_client_data`.
- `NoCommandForgotten`: a complete command in a buffer has a worker that has not left
  the descriptor, whatever other workers, the main thread and the timeouts did to the
  entry in between. It may be the worker that blocked on STATS, so this does not say that
  the command is answered.
- `OpenHasEntry`: no socket stays open without an entry by which the timeouts find it.
- `OnlyOrphansStray`: data of one client are answered on another's connection only if a
  worker held them between its read and its append when the connection was closed.
- `InOrderUnlessOvertaken`: pieces are answered once, and in order unless two workers
  held pieces of one client at once.

No liveness is stated: the code loses edges, and a worker may block for good.

**`account_service`** (`AccountService.cfg`, 1,956,442 states up to symmetry, under three
minutes). Two threads, four requests, two names, one address besides the empty one, two
passwords, one reset token, and lifetimes of one and two seconds on a clock that stops
at two: every handler can overlap with every other at every access, a link can be
used twice, after its time and by both threads, and a session can be refreshed and
expire. The proofs cover any number of threads, requests, addresses and tokens.
Deadlock is not checked because requests and clock run out.
- `DuplicatesOverlap`: two accounts share a name or an address only if their
  registrations overlapped or a lookup failed.
- `LinksWork`: a mailed link that was not used yet leads to its address, and its page is
  refused only when it is too old, whatever is posted without a link or with another.
- `OneChangePerLink`: passwords change once per link, unless two threads read one
  link's entry before either erased it (`raced`).
- `SessionsComeFromLogins`: refreshing multiplies no sessions, except once for each
  time that two threads refreshed one token (`doubles`).

**`thread_studies`** (`ThreadStudies.cfg`, 2,342 states). Three workers and four tasks,
so that tasks queue up behind busy workers; three games. All three studies allow spurious
wakeups. Deadlock is not checked: the owner ends.
- `OneMoreUnit`: `pause` returns while a unit of work may be under way, and one more may
  begin, never two.
- `ThreadAnswers`: `stop` ends the thread, and `resume` makes it work unless it is paused
  or stopped first.
- `ImplementsTaskBag`: the pool implements `TaskBag` with its fairness: each task runs
  once, in order, and the destructor waits for all.
- `ScannerWakes`: a game that was added is looked at; the scanner does not sleep on it.

Fairness is weak and per thread: the worker (each worker of the pool), the scanner, and
the owner's obligation to finish a call it began (`Notify`, `Join`). None is assumed of
spurious wakeups, of the owner's next call, of the creator or of the dice.

**`game_manager`** (`GameManager.cfg`, 571,717 states). Two batches of one game on a board
of two holes of three korgools: 12 korgools, one hole that can become a tuz. The second
batch is there for what carries over from one game to the next (the map, the ids, the
sums). A board with more holes leads to no other branch of `GameManager`; those of the
engine are the matter of `game`. Deadlock is not checked since the program ends.
- `EveryGameDecided`: the loop of `play_automatic_game` has three ways to end without a
  verdict and alternates turns without looking at the board; none of them happens, and
  `remove_finished_games` leaves no game.
- `StatisticsAddUp`: for each player, what its moves brought it is in its kazan; the rest of
  its kazan was taken by its tuz on the opponent's moves and is in the opponent's tuz gain; the
  tuz gain has no other sources than these two. Without a tuz in any game totals and kazans
  are equal. Extremes and counts fit the totals; the minimum only once there is a game.

## What is proved

About the game, for every `NHoles` and `Seeds` of at least one (`RingAssumption`),
hence for nine holes of nine korgools:

- `ToguzKorgoolGame_proofs` proves `TypeOK`, `Conservation`, `TuzStaysEmpty`,
  `InProgressPlayable`, `GameOverAgrees` and `VerdictJustified` as invariants,
  `TuzIsForever` as an action property, and `ImplementsContest`.
- The inductive invariant `IInv` is the checked invariants with `Undecided`
  in the place of `InProgressPlayable`: both sides also have korgools, and nobody has
  `WIN_SCORE`, while the game waits for its players, or `StartGame` would not
  preserve it. `VerdictJustified` leans on `Conservation`: `check_game_end` tests
  the top side first, and that is immaterial only because two kazans of 82 do not
  fit into 162 korgools.
- All that these proofs know of a move is `MoveEffectFact` (`RingFacts`), proved
  stage by stage: `DropSowsOne` (one korgool goes to one place, never into a tuz
  hole), `SowSows` (a sowing of n korgools moves n), `CollectFact`,
  `CheckCaptureFact`, `CheckTuzFact`. The refinement adds one argument: a game that
  stays in progress has two korgools on the board, one on each side.
- The sum of a row and the sowing are recursive functions. Induction over them uses
  `SetInduction`, a form of induction for sets of naturals derived from
  the least element of a set of naturals, and `FiniteRecursion` for functions with a finite
  domain.
- `SowingByDivision` is proved for all boards, tuzes and moves, reachable or not
  (`MoveDivides`), and follows in every reachable state. The argument numbers the places
  of the route (`IndexFact`: no two have the same number, and the next has the next
  number modulo their count) and shows that both sides grow alike with one more korgool:
  `DropEffect` for the loop, `ArrivalsNext` for the division (the quotient grows exactly
  when the place reached is the one asked about), `SumIncrement` for what a tuz takes.
  `Divided` is the invariant of the loop, and `SowDivides` the induction.
- `TopForecastIsExact` follows from it: a sowing that does not come around puts one
  korgool into the last hole (`ArrivesOnce`), which is the hole the forecast computes, and a
  capture takes even numbers only, so it never takes the three korgools of a tuz.

About the registry and the statistics (`GameManager_proofs`), for any board, batches,
first id and choice of moves: `EveryGameDecided` and `StatisticsAddUp`. The inductive
invariant says that ids below `next_id` are the registry's and nobody else's
(`Registry`), that a batch holds games of the registry, each once, of which the one in
play has started (`Batch`), and of each game (`GameOK`) that both sides have korgools until
there is a verdict, and how its counters bound its kazans (`GainsAgree`), player by player. The
steps use `MoveEffectFact` again, `SowSows` for what a tuz takes during a sowing, and
`SowWithoutTuz` for the games in which nobody has one. What holds of each game is carried to
the sums over all of them by `SumMonotone`, `SumPairs`, `SumZero` and `SumCounts`, which rest on
`SubsetInduction` and the definition of the fold.

About the JSON server (`JsonServer_proofs`), for every limit, every length of the minute
and every bound of the model (`JsonServerAssumption`): `TypeOK`, `BelowTwiceTheLimit`, `RatesOfTheOpen` and
`RefusedForOwnRequests`. The inductive invariant reads an entry of the limiter as a
`Ledger` of its connection: exactly `request_count` requests since `last_reset`, the first
of them at that very time, less than a full limit in the minute before, and none after
the window. That is inductive because, when a window is renewed, the old one becomes the
minute before and its first request drops out. The last minute always lies within the window and the minute before it, which
gives `BelowTwiceTheLimit`; a full window that is not over lies within the last minute, which
gives `RefusedForOwnRequests`.

About the matchmaker (`Matchmaker_proofs`), for any clients, ratings, ranges and bounds: `TypeOK`, `MatchedOnce`,
`OnlyTiesVanish`, `StatsAddUp` and `NeverSleepsOnAPair` as invariants, and
`PairsWithinReach` as an action property. The inductive invariant adds
to the checked ones that the list is finite, that a waiting or matched player is the
one its client built (`Known`), and that no two waiting players tie in the order of the
list (`DistinctKeys`). The last is what makes `begin()` and `upper_bound` well defined: it
gives `FirstFact`, hence `FindMatchFact` (what a search takes are two different players,
the second among the first one's candidates), and everything else follows from these.
`StatsAddUp` counts with the cardinalities of the list and of the clients that ties lost.

About the game server (`GameServer_proofs`), for any persons, descriptors and ratings:
`TypeOK`, `FailsAsAWhole` and `ColoursReachThePlayers`. The inductive invariant says in
addition that the games have the ids 0, 1, ... in turn, as many as there were matches
(`Numbered`, so `create_game` never finds its id taken), and that a waiting player is at
its descriptor or has left (`Seated`, which a colour inherits when it is sent).

About the command server (`SocketServer_proofs`), for any clients, descriptors, workers and
bounds: `TypeOK`, `NoCommandForgotten`, `OpenHasEntry`, `OnlyOrphansStray` and
`InOrderUnlessOvertaken`. The inductive invariant has five parts:
- `TypesHold` adds to the types where everybody is (`PlacesKnown`): a worker has a piece in
  hand only between its read and its append, and one that serves an entry has it.
- `OpenHasEntry` and `NoCommandForgotten` are inductive next to it, since only the worker with
  the mutex serves and only the main thread inserts.
- `Newcomers`: a client that was not accepted yet was never answered and is behind no descriptor.
- `PiecesHold` follows the pieces from the socket through a hand and a buffer to the answers:
  each lies where its sender is connected or was orphaned in somebody's hand (`PiecesOwned`);
  answers, buffer and hands hold one client's pieces in the order sent unless it was
  overtaken (`PiecesOrdered`); what is still on the way comes after all that was read
  (`PiecesNumbered`).

About the account service (`AccountService_proofs`), for any number of threads (finite, as
httplib's pool is), requests, addresses, tokens and any lifetimes: `TypeOK`,
`DuplicatesOverlap`, `LinksWork`, `OneChangePerLink` and `SessionsComeFromLogins`. The
inductive invariant has a part for each:
- `LookupsHold`: what a registration under way found still holds for the accounts there
  were when it was asked for.
- `LinksHold`: from the draw of a token to the arrival of its mail, the token, its time and
  its address are in the hands of one thread or in the tables; who is about to erase an
  entry has used its link. `NobodysEntry` says the empty token never leads to an address.
- `SessionsHold` counts tokens and the threads about to insert one.
- `ChangesHold`: the changes of an address and the threads about to change it are at most
  its used links, as long as no link was raced; a used link leads nowhere any more.

About the thread studies (the last part of `Matchmaker_proofs`, next to the other condition
variable of the program), for any workers, finitely many and not none
(`ThreadStudiesAssumption`), and any number of tasks:
- `OneMoreUnit` (`PausedAfterOneUnit`). It is not inductive: nothing in it keeps a worker
  that began its unit from coming around. `UnitsCounted` says where such a worker is, at
  its work or in the second wait, which the predicate does not let it leave before `resume`
  or `stop`; what `stop` lets out of it begins no unit.
- `PoolInv` (`PoolHearsItsTasks`): the queue holds the tasks not begun, in order
  (`TasksInOrder`), the workers that run hold different tasks that were begun
  (`EachTaskOnce`), a worker is gone only after `stop` with the queue empty
  (`ClosedByOwner`). `TaskHeard` and `AllCalled` are why no wakeup is lost: a task lies
  in the queue only while the owner is about to notify or some worker is up, and nobody
  sleeps once the destructor joins. Without workers `TaskHeard` fails, and so does the
  pool: its destructor returns with tasks left. The program makes pools of 4 and of 8 threads.
- The steps of the refinement `ImplementsTaskBag` (`PoolStepsLikeTheBag`): `Init` maps
  to `Init`, taking a task is `Begin` (`TakeInTurn` gives its number, `WorkerFree` the
  bound on those that run), `RunTask` is `Finish`, `Enqueue` is `Accept`, `Destroy` is
  `Close`, `Join` is `End`, and every other step is a stutter.
- `NobodyOversleeps`: the pausable worker sleeps where its predicate holds only while
  `resume` or `stop` is about to notify (`WakeupDue`), and the scanner sleeps on an empty list
  only (`ScannerRests`). These are the safety halves of `ThreadAnswers` and `ScannerWakes`.

Model-checked only: liveness, since fairness and ENABLED are out of the prover's reach. These
are `PairsGetMatched`, `ThreadStops`, `ThreadAnswers`, `ScannerWakes`, and of `ImplementsTaskBag` the
fairness of `TaskBag`. For each of them the invariant that no wakeup is lost is proved
(`NeverSleepsOnAPair` for the first, and those above), except `ThreadStops`, which rests
on the timeout and not on a notification.

## Observations

What the models show beyond the runs:

- `pause` prints that it waits for the thread to finish its work and returns at once;
  `OneMoreUnit` bounds what still begins.
- The counters of the distributions edition are not what the comments beside them say. The total
  is not "the number of korgools in the kazan" (62-63): what a tuz takes on the opponent's move is
  not in it. The tuz gain is not what came "through the tuz of the player" (68-69): it credits the
  mover with what either tuz took, so its share of the gains can exceed 100 per cent.
  `StatisticsAddUp` says what the counters do hold, and that they agree with the comments as
  long as there is no tuz.
- `get_statistics` of that edition returns minima of `INT_MAX` when there are no
  games. A comment (line 772) sets them to 0 when there are no finished games, but the early
  return (667-669) comes first. `main` never asks then.
- `create_and_play` of that edition always plays distribution 0, whatever it prints.
- The forecast of a tuz takes the down player's landing hole from the wrong end (line 910 of the
  hash-probability edition, although line 895 says that the position is converted back), so no
  property claims it to be exact for the down player.
- Every engine exempts index 8 of both sides as the "ninth hole", although for the down player
  that is the first hole of the route.
- STATS in `socket_server.cpp`, which the greeting lists among the commands, blocks its worker on
  the mutex it holds, and then every other thread, for good.
- `save_password` accepts a link whose page is already refused as expired, and erases the
  link's entry even when the two passwords differ.

## What is not modelled

- About three quarters of the C++ lines are vendored (`httplib.h`, `nlohmann`). They appear only
  as the threads that run handlers; their code is not this project's.
- Of the statistics editions, the networks, evaluators and reinforcement learning are
  floating-point heuristics that choose among moves the model already leaves open. The editions
  whose *rules* differ (`game_manager_rules.cpp` with a mirrored route, `game_manager_ring_with_addons.cpp`
  with the owners of the tuzes exchanged) are variants that no other part uses, and
  `game_manager2.cpp` and `game_manager_ring_working.cpp` have its rules under other names;
  `include/core/game_manager.cpp` (a draft whose black move is a TODO) contributes only its map of games.
- Registry methods that no `main` calls: `remove_game`, `clear_all_games`, `abandon_game` through
  the registry, `get_game` for others, and so the raw pointers they would leave.
- `move_count`, times, printing and logging. Widths of integers do not matter: no count in
  the engine exceeds 162 in one game.
- The coroutine server's own pool (`simple_server_coro.cpp` 63-111) is the design of
  `ThreadPool`; it is used once per connection, before the first suspension.
- The framing of commands in the coroutine servers (what one read returns is one command),
  the configuration file, and the values of `echo`, `time` and `pow`.
- SIGPIPE on a send to a closed peer: the process is assumed to survive. Containers that
  handlers share without a lock are assumed to survive the data race itself; what the
  interleaving of whole accesses can do is modelled.
- In `JsonServer` a number too long for `json::parse` to represent: its exception is not the one
  that `process_json_command` catches. In `SocketServer` a `close` and the `erase` after it are one
  step, as both stand in one section of the mutex, and `send` fails only when the client has left.
- Password hashes, JWT signatures, mail transport and the environment file.
- The Google OAuth example, drafts, a chess clock and date formatting, and the frontend.

## Plan

What is left, most important first:

1. Further refinements: an abstract matchmaker (a set of players from which pairs leave) that
   `Matchmaker` and `GameServer` both implement.
2. Framing in the coroutine servers: commands put together from several reads, and several
   commands in one read.
3. The editions of the engine whose rules differ, as instances of `Ring` with another route, if
   they are ever built.
