# A verification of the world server's core

The repository is a fork of TrinityCore 3.3.5: a game server of about 12 000
files, most of them game content, database updates and vendored libraries. What
can go wrong in ways a test hardly reaches is concentrated in its core: the
places where threads meet (world thread, network threads, database workers, map
workers) and where work outlives the step that started it (asynchronous queries,
transactions, queues of players). This directory models that core in TLA+,
checks the models with TLC on small instances, and proves what matters most for
all instances with TLAPS.

Paths below are relative to `src/src/server`, unless they start with `src/`.

## The system: parts, state, interaction

| Part | State it keeps | Operations | Talks to |
|---|---|---|---|
| World session table and login queue (`game/World/World.cpp`, `game/Server/WorldSession.cpp`) | `m_sessions`, `m_QueuedPlayer`, `addSessQueue`, `m_disconnects`, `m_playerLimit`; per session `m_inQueue`, `m_Socket`, `_player`, `forceExit`, `expireTime` and its query callbacks | `AddSession_`, `RemoveQueuedPlayer`, `UpdateSessions`, `KickAll`, `KickAllLess`, `WorldSession::Update` | network threads (hand-over of sessions, closed sockets), database workers (account data), commands |
| Asynchronous database pool (`database/Database/DatabaseWorkerPool.cpp`, `DatabaseWorker.cpp`, `DatabaseLoader.cpp`, `src/src/common/Threading/ProducerConsumerQueue.h`) | a queue of operations, a worker thread per connection with a cancellation token, the open connections | `Enqueue`, `Open` (with one retry after the database was created), `Close`, destruction | everything that writes to the database |
| MySQL connections and transactions (`MySQLConnection.cpp`, `Transaction.cpp`) | a connection that may be lost, the open transaction of its session, a retry lock shared by the workers | `ExecuteTransaction`, `TransactionTask::Execute`, `DirectCommitTransaction`, `_HandleMySQLErrno` | the MySQL server |
| Parallel map update (`game/Maps/MapUpdater.cpp`, `MapManager.cpp`, `MapInstanced.cpp`) | a queue of update requests, the count of pending requests, the loaded maps and instances | `MapManager::Update`, `MapInstanced::Update`, `schedule_update`, `wait`, `UnloadAll`, `deactivate` | the world thread and the map workers |
| Battlegrounds and their queue (`game/Battlegrounds/BattlegroundQueue.cpp`, `BattlegroundMgr.cpp`, `Battleground.cpp`, `game/Handlers/BattleGroundHandler.cpp`) | groups in two lists per team, the players' queue slots, per instance the numbers of invited and present players, an offline queue, the list of instances with free places, removal timers | join, accept, port, leave, invite, expire, start, end, delete, log out and in | packet handlers, groups, sessions (logout, login), the battleground maps |
| Trade (`game/Handlers/TradeHandler.cpp`, `game/Entities/Player/TradeData.cpp`) | two `TradeData` that point at each other; bags, gold | initiate, change an offer, accept, unaccept, cancel, exchange, save | inventories, logouts, spells, the database's worker |
| Battle royale games (`game/World/Battleroyale.cpp`, this fork's own mode) | per game the players, their groups, kill counts, spawn points, the shrinking circle | join, leave, start, death, update, reload | sessions (logout), groups, deaths |
| World sockets and network threads (`game/Server/WorldSocket.cpp`, `shared/Networking`, `src/src/common/Threading/MPSCQueue.h`) | a lock-free queue of packets, a write queue of messages, `_closed` and `_closing`, the authentication state and its query, the pointer to the session under a lock, the sockets of each thread | accept, authenticate, read, send, close, remove | the session table, every thread that sends to a player |
| Main loop and shutdown (`worldserver/Main.cpp`, `game/World/World.cpp`) | `m_stopEvent`, the order of the destructors at the end of `main` | tick, stop, shut down | all of the above |
| Query callbacks (`database/Database/QueryCallback.cpp`, `QueryHolder.cpp`) | chains of futures and continuations | `ProcessReadyQueries`, `NextQuery` | database workers, sessions |
| Dungeon finder, groups, instance saves, pools and events, mail and auctions, guild banks | tables of the game, one writer each | handlers and timers | sessions, groups, database |
| Entities, combat, spells, movement, AI, scripts, collision, data stores, authentication server | the game world | game rules | inside one map's update |

How they interact: a network thread authenticates a client and hands a session
over through `addSessQueue`; the world thread drains it at the start of
`UpdateSessions`, queues or admits the session, and updates every session once a
tick. Handlers enqueue database operations and keep callbacks that later ticks
look at. After the sessions the world thread has all maps updated by the map
workers and waits for them. On shutdown it kicks everybody, runs
`UpdateSessions` once more, unloads the maps and closes the database pools.

## Hard behaviours

* **A pointer queue beside an owning table.** `m_QueuedPlayer` holds bare
  pointers to sessions that `m_sessions` owns and that three places delete.
* **Counts that include the one who leaves.** Admission compares
  `GetActiveSessionCount()` with the limit while the session that is added or
  removed is still, or already, counted.
* **Late answers.** The account data of an admitted session arrives ticks later,
  when the session may have been kicked, replaced or lost its connection.
* **Condition variables.** `ProducerConsumerQueue` with `notify_one` on push,
  `notify_all` on cancel, and workers that test a token after they have taken
  an operation.
* **Failures of the database.** Failed opening and reopening, deadlocks, refused
  statements, a lost connection in the middle of a transaction, a crash.
* **A lock-free queue.** Producers stall between two atomic accesses, while the
  consumer deletes nodes.
* **Two owners of a connection.** The network thread and the world close it, each at
  any moment, and share a session that one of them deletes.
* **A barrier over work that creates work.** Updating an instanced map schedules
  its instances while the world thread may already wait.
* **One fact in three places.** That a player has a place in a battleground is in
  the queued group, in the player's own slot and in the instance's counters; many
  kinds of steps change them, and players vanish in the middle of each.
* **A check at one time and its use at another.** A trade is accepted by one side,
  then changed, robbed or closed before the other accepts; what it exchanged is
  written ticks later, while its players log out and in.

`PROJECT.json` lists each with its line under `hazards`.

## Modules

| Module | What it is |
|---|---|
| `WorldSessions` | the session table, the login queue and the life of a session |
| `WorldSessions_proofs` | theorems about it: the queue, its order and the limit; owners, waiting and shutdown |
| `DatabaseWorkerPool` | queue, workers, opening, closing and destruction of a pool's asynchronous half |
| `DatabaseWorkerPool_proofs` | theorems about it |
| `AtomicTransactions` | what a transaction promises: all of its statements at once and in order, or none |
| `MySQLTransactions` | how a transaction is executed, over connections that fail; implements `AtomicTransactions` |
| `MySQLTransactions_proofs` | theorems about it, the refinement among them |
| `MapUpdater` | the parallel map update and its barrier |
| `MapUpdater_proofs` | theorems about it |
| `PacketStream` | what a socket promises its senders: packets in order, whole, once |
| `MPSCQueue` | the lock-free queue, access by access |
| `WorldSocket` | one connection; composes `MPSCQueue` with the socket, implements `PacketStream` |
| `WorldSocket_proofs` | theorems about the socket and the queue in it, the refinement among them |
| `BattlegroundSelection` | which queued groups are invited: pure functions of the queue |
| `Battlegrounds` | the queue, the players' slots and the instances; calls `BattlegroundSelection` |
| `Battlegrounds_proofs` | theorems about it, and about the selection as it uses it |
| `Trade` | the trade windows, the inventories and the saves that follow |
| `Trade_proofs` | theorems about it: windows, acceptances, exchanges, holders, rows |
| `DataFacts` | facts about lists, sums and induction, which the proofs share |
| `MC...` | the instances TLC checks |

Names are the source's where TLA+ allows it. In every module a definition whose
name ends in `_Wrong` precedes the definition it imitates with a plausible
mistake in it. Nothing uses it; it is there to try a property against
(`mutants` in `PROJECT.json` says which property each of them breaks).

### WorldSessions

A session object is a member of `Session` that is created once, so that a stale
pointer can be told from a live one; `status` says whether it exists.
`World::UpdateSessions` is cut where other threads can be seen: each session
taken from `addSessQueue` is one step (`RejectSession`, `AcceptSession`), each
iteration of the session loop is one (`UpdateSession`). `RemoveQueuedPlayer` is an
operator on a queue and a table size, because the code calls it twice for each
session it removes and once more when it replaces one. `SessionUpdate` is one
`WorldSession::Update` with what may happen in it as parameters: the idle kick, a
login packet, the character data arriving or failing, a logout. `KickAll` is the
start of the shutdown and is followed by the one `UpdateSessions` of Main.cpp.

Abstracted: packets other than the character login; the content of account data;
`expireTime` counts ticks; the privileged accounts are a constant; a logout
request, its 20-second timer and a logout in one tick are a single choice.
`InitializeSession` answers `AUTH_SYSTEM_ERROR` and enqueues nothing when the query
holder cannot be filled (`WorldSession.cpp:1238`); the model has no such step, because
`SetPreparedQuery` fails only for an index beyond the holder's size, and the two indices
used are its whole size.

Checked:

* `NoDanglingQueueEntry`: every queued pointer is its account's session in the
  table, and nobody waits twice.
* `OneOwner`: a live session is in exactly one of `addSessQueue` and
  `m_sessions`, once.
* `InQueueFlagIsJustified`: `m_inQueue` bars a client from the character list; it
  is set only in the queue, during admission, or behind a closed socket.
* `LimitIsExact` and `FirstComeFirstServed`: a free place goes to the head of the
  queue at once, no step admits more than the limit allows, nobody overtakes. The
  limit has one exception (`Bypassing`), which the code makes: when an account that
  the limit does not hold for reconnects while its old session plays, the place
  of the old session goes to the head of the queue and the new session enters over the
  limit in the same step (`World.cpp:292`, `World.cpp:400`), so that one more than the
  limit may play.
* `ShutdownEvictsEveryone`: one `UpdateSessions` after `KickAll` is enough.
* `LostSessionsLeave`, `AdmissionCompletes`: liveness.
* `ToleranceIsAnInterval` is violated: `HasRecentlyDisconnected` subtracts the
  clock from the time of the disconnect, a number that is never positive, so
  that an entry never gets too old.

### DatabaseWorkerPool

Threads interleave at the queue's lock, at the tests of `_cancelationToken` and
around an execution. `WaitAndPop` is one step per turn at the lock; a waiting
worker is woken by `notify_one` (some worker), `notify_all`, or by itself. The
owner's side is `DatabaseLoader`: `Open` creates a connection and its worker, then
the connection opens or fails; a failure destroys it (token, cancel, join), and
one that says the database does not exist is followed by a second `Open`. Workers
of the second attempt are new, the queue is the same. Abstracted: what an
operation does, the synchronous connections (a step that opens them all or fails),
prepared statements.

Checked: `WorkersAreSound`, which is `ThreadsUseLiveConnections` (no thread runs on a
destroyed connection), `OneHolder` (an operation is queued, held, executed or
dropped, exactly one of these, once), `NoLostWakeup` and `TakenInOrder`;
`DestructionEnds`, `OperationsProceed` (every operation is executed unless the queue
is cancelled). `NoLostWakeup` excepts the moment between setting a worker's token
and cancelling the queue: with a single worker an operation may then stay in the
queue while the only worker leaves, and the cancellation that follows deletes it.
`EnqueuedIsExecuted` is violated after a failed and repeated `Open`:
`~DatabaseWorker` cancels the queue, and nothing clears `_shutdown` again. That
closing the pool deletes what is still queued is part of the model (`dropped`).

### MySQLTransactions implements AtomicTransactions

A thread goes through the commands of `ExecuteTransaction`: START TRANSACTION, the
statements, COMMIT or ROLLBACK. The server (external) keeps a session per
connection, applies a statement outside a transaction at once, may refuse a
command, break a deadlock by rolling one transaction back, or lose the
connection before or after it has carried a command out. `_HandleMySQLErrno`
reconnects, retries, aborts the process, or returns false with no connection.
Of the statements `ExecuteTransaction` looks at the result; START TRANSACTION, COMMIT
and ROLLBACK it sends and forgets, so that after a refused one (`CommandIsRefused`) it
goes on as if it had been carried out. `ignored` is a history of these. A refused COMMIT
ends the transaction in the server; of the other two either may have happened.
`TransactionTask::Execute` retries a deadlock under `_deadlockLock`, a synchronous
caller `LoopBreaker` times. A crash may come at any step.

The refinement mapping reads a transaction as committed when its statements are in
the database, as aborted when the game was told that it failed or its COMMIT was
refused, and as pending otherwise. As long as the sessions are intact `MySQLTransactions`
implements `AtomicTransactions` (`IsAtomic`), with deadlocks, refused statements and
COMMITs, retries and crashes. `Intact` says that no connection has been lost and no START
TRANSACTION or ROLLBACK refused. When a connection is lost the promise does not hold:
`AllOrNothing` is violated, because the session in which the transaction was open is gone
and the remaining statements run with autocommit in a new one. A refused START
TRANSACTION has the same effect, and a refused ROLLBACK leaves the session in a
transaction that the next one of the same connection would commit or continue. An attempt to reconnect that fails with an
unlisted error makes the server go on without a connection, where the comment at
`MySQLConnection.cpp:545` promises termination; the model has that step, no run is
about it.

Checked also: `ResultIsTrue` (as long as the sessions are intact, what the game is told of a
transaction agrees with the database, with the one exception that a transaction whose
COMMIT was refused is reported as done and is not there), `OneRetrier` (the retry lock
does what its comment says), `TransactionsEnd`. That a refused COMMIT is reported as done and
never retried is a loss of data that the code accepts without a word: `ResultIsTrue` names it
instead of excluding it.

### MapUpdater

The world thread schedules every base map, waits until `pending_requests` is zero,
and then runs `DelayedUpdate` alone. A worker that updates a base map walks its
instances: it unloads one or schedules its update. `schedule_update` holds the
updater's lock around the push, and nobody takes the two locks in the other
order, so it is one step. Instances appear when players enter (between ticks,
as packet handlers run before the maps), disappear in the walk. That is narrower than the
code in one respect: `GetZoneId` and `GetAreaId` (`game/Maps/MapManager.h:42`) may create
a base map from any thread, under `_mapsLock`, and thus while the world thread walks the
maps or waits; such a map is not scheduled before the next tick. `deactivate` sets
the token, waits, cancels the queue, joins. Abstracted: what a map does in its
update, the players (whether an instance may be unloaded is a choice), the update
without threads.

Checked: `PendingIsExact` (the count is the number of queued or held requests;
were it ever too low the barrier would open early, and too high, the server would
hang), `Barrier` (nothing is queued or held outside the wait, every map was updated
exactly once in the tick, no map is with two threads, and no worker calls a null
request or one for a deleted instance), `TickEnds`, `DeactivateEnds`.

### WorldSocket, MPSCQueue, PacketStream

One connection from the moment its network thread has added it. The network thread
runs one handler at a time (the timer, a finished read, a socket that takes more);
`net` says where it is inside one, and a handler is cut where other threads can be
seen: at each `Dequeue`, at `_closed`, at the session's lock. `SendPacket` of a world
thread is three steps: the look at `IsOpen` and the allocation, the exchange of
`_head`, the store of `Next`. `stage` is the chain of queries: address, challenge,
account, permissions, then the session belongs to the world too. A message is a
sequence of packets; `WriteSome` takes a number of them, so that a partial write
keeps the rest; `buffer` is packed by size as the code does, including the empty
message in front of a packet that fits in no buffer. `CloseSocket` is the exchange of
`_closed` and, as a step of its own, `OnClose`; the shutdown of sending lies between
the two and is seen from `OnClose` on. `DeleteSession` is the world's deletion of a
session whose socket is not open, when no map is being updated. A second
CMSG_AUTH_SESSION is two steps: the lock is taken by `try_lock`
(`DuplicateAuthSession`; if it is not free the socket is closed, `ReadHandlerCloses`),
and the session behind the pointer, null or not, is logged before the close
(`LogDuplicate`).

Abstracted: the content of packets, headers and encryption, the checks of an account
(an answer is accepted or refused), parts of a packet (a partial write ends between
two packets), other sockets of the same thread, `NetworkThread::Stop`. What reading
through a null pointer does to the process is not modelled: the step is there, and
`SessionUsedWhileAlive` says when it may happen. A connection that has failed stays failed.

Checked: `PacketsInOrder` (the socket implements `PacketStream`, whose `taken` is the
order of the exchanges and whose `sent` is what the network took),
`LinksLiveNodes`, `SessionUsedWhileAlive` (pings and packets are handed over through a pointer
that is set, and what the pointer leads to under the lock is not deleted), `TypeOK` (which
includes that a read is posted once at a time), `RefusedLearnWhy`, `EnqueuedAreSent`.
A second CMSG_AUTH_SESSION is the one use of the session that is not safe: between the look at
`IsOpen` and that use the `OnClose` of a thread that kicks the client may clear the pointer, and
`WorldSocket.cpp:343` reads through it, under a lock that was taken "just to safely log
offending user" (`WorldSocket.cpp:341`). `World.cpp:296` warns of a race of this kind. TLC reaches such
states in the run `socket` (the property `net = "useDuplicate" => _worldSession` fails there), and
`SessionUsedWhileAlive` bounds them: the pointer is null there only when the session has been
handed to the world and the socket has been closed since, and it is never one to a deleted
session.

`RefusedLearnWhy` is what the comment of `DelayedCloseSocket` says (`Socket.h:129`), for a client
whose challenge has left the write queue when it is refused. A client may answer
before (no answer of that kind can be right, since its digest contains the challenge's seed, but
it is read); then the close, which looks at `_writeQueue` and not at `_bufferQueue`, may come
when the challenge has been written and before the error has been moved there, and
the client never learns why.
The model has that behaviour and the property does not speak of it, as the comment, which asks for
an empty write buffer, does not either.

### Battlegrounds, BattlegroundSelection

One queue (one type, one bracket) with its four lists, the instances, and every
player with the slot and the battleground the client and the character carry. The
handlers read and write all of these, call each other, and some run inside others
(deleting a battleground updates the queue), so they are written as functions from a
record of the state to the next, and an action is such a function with its guard:
joining alone or as a group, accepting (`AcceptPort`), arriving, a teleport that is refused,
leaving the queue or the battleground, logging out anywhere, in transit included,
logging in, the queue's scheduled update, the passing of time with the removal
events, the start, the end and the deletion of a battle. `Battleground::Update`
of each instance is an action of its own; the order of the instances in a tick is
not fixed. `BattlegroundSelection` has the pools, `FillPlayersToBG`, and the premade
and normal matches as functions, under the three balancing rules.

`Arrive` is the end of a teleport, and runs in two places: when the client acknowledges it, and
first of all in `LogoutPlayer` (`WorldSession.cpp:454`), whose player is still invited at that
moment. He is added to the battleground, becomes one of its offline players
(`LogOutOf`), and only then leaves the queue. `lost` is a history and no
member of `Battleground`: how many places stayed counted because a teleport was refused
after the invitation had been taken out of the queue.

Abstracted: arenas, rated matches and skirmishes, other types and brackets and thus
a player's second queue slot, raid groups, average waiting times, announcements, the
failures of entering a map, rewards and the objectives of each battleground.
Instance numbers are used again after a deletion, which makes a stale number more
dangerous than the code's growing counter does. `AcceptWait` is in ticks.

Checked:

* `PlacesAreCounted`: `m_InvitedAlliance`/`m_InvitedHorde`, which decide on deletion, count
  exactly those who are invited, on the way or inside, and the places that a refused
  teleport has lost; and nobody is invited beyond the team's size. A place given back once
  too often deletes a battleground under a player, one that is not given back keeps it
  for ever.
* `QueueAgreesWithSlots`: a queued player is connected, in one group of one list, and
  the slot names the group's invitation.
* `OfflineQueueIsExact`: whoever is in a battle and offline, the player who logged out on
  the way to it included, is in the offline queue, once, so that it is removed in time and
  never stops at a stale head.
* `FreeSlotsAreExact`: the list of pointers holds no deleted or ended battleground
  and all that have room.
* `TimersAreExact`, `InvitationsLast`: an invitation always has its one timer, and an
  earlier invitation's timer does not end a later one.
* `PlayersCountIsExact` is violated: a player who logs out in a battleground is
  not subtracted and is added again when he comes back.

### Trade

All handlers of the window run in the world thread, one after the other; what
interleaves is what players do between them, and the database behind them. `m_trade`
holds the two windows; an offered slot keeps its item's number, so that an item
that has left the bags turns the slot into an empty one (`GetItem`). `Exchange` is the
accepted trade: the checks, `moveItems` slot by slot, the gold, one transaction for
both players. `pending` is the queue of the characters database, with one worker as
configured by default, so that saves and login queries are executed in order;
`ExecuteTransaction` writes the rows, `LoadPlayer` is the login query with the handler
that follows it, `Crash` forgets everything but the rows. Items leave bags by other
routes (`DestroyItem`, `SetCount`, `Spend`), at any moment.

Abstracted: places in bags are counted and not typed, unique items and bags in bags
are left out, the conditions of opening a trade are a choice, what a spell does to
the item shown is left out and that it may fail is kept, the database refuses no
save. `Saving` writes a player's bags where the code writes the entries of
`m_itemUpdateQueue`, which is the same as long as no save fails.

Checked: `TradesAreMutual` (the pointer to the partner's window, which the code uses
without a test, is never null or another's), `AcceptancesStandForTheOffers` (while an acceptance
stands neither window changes, no stack in them shrinks, and all that can happen to the
item a slot shows is that it is there no more: `DestroyItem` tells the windows nothing, and
the loss of an offered item from its owner's bag withdraws no acceptance), `TradesEndFairly` (an exchange
gives each exactly what the other still held of his offer; every other end changes
nothing), `OneHolder` (no item in two bags, also after fast logouts and logins),
`TradesAreSavedWhole` (at no moment do the rows hold half an exchange).

## Runs, bounds and why they are enough

| Run | Instance | Expected |
|---|---|---|
| `sessions_limits` | 3 sessions of 3 accounts, limit 0 or 1 at any time, tolerance 1, clock 0..1 | holds |
| `sessions_live` | 3 sessions of 2 accounts, limit 1 | holds |
| `sessions_tolerance_end` | 3 sessions of 2 accounts, tolerance 1, clock 0..3 | violated |
| `pool` | 3 operations, 2 workers per attempt, spurious wakeups, all failures | holds |
| `pool_reopened` | 1 operation, 1 worker per attempt, one failed attempt | violated |
| `transactions` | 2 transactions, of two statements and of one, 2 workers, 1 caller, refused statements, 1 refused command, 1 lost connection, 2 retries | holds |
| `tx_reconnected` | 1 transaction, 1 worker, 1 lost connection | violated |
| `maps` | 3 workers, 2 base maps, 3 instances, 2 ticks | holds |
| `socket` | 2 sending threads beside the network thread, 3 packets of size 1 or 3, send buffer of 2 | holds |
| `bg` | 2 players against 1, teams of 1 to 2, 1 battleground at a time, 2 ticks to accept, all balancing rules, 1 mishap | holds |
| `bg_count` | 1 player against 1, the same | violated |
| `trade` | 3 players, 2 items, gold on one side, 1 traded slot, 2 trades, 1 mishap, 3 saves or logins waiting | holds |

Three sessions of two accounts give one that plays, one that waits and one that
replaces either; three of three give a queue of two and its order; a limit that
moves between "none" and 1 gives a server that is over its limit. Two operations
beside a sleeping and a busy worker are the smallest lost wakeup; three show an
order. Two workers deadlock with each other, and the caller with either; two
statements are what "in part" needs, in the transaction that the other one interrupts. Two ticks show that a tick leaves nothing
behind for the next; with three workers one can walk instances while two update
them. Three packets are the challenge and two that race, in one message or in two,
the second perhaps larger than the buffer. Two players of one team against one are
the smallest unbalanced queue and form a group of two or two groups of one; a
battleground that ends frees the only instance, whose number the next one reuses; a
logout may come at any point, and a second one, by somebody else, brings no new order of
steps on the records of one player. Two ticks to accept show a timer of an earlier
invitation that is still running when a later one begins. In `trade` the third
player can be asked while the others trade; one bag has no spare place, so that an
exchange may not fit; one mishap, at any of the steps, is a logout, a crash, or an
item or gold that goes; three entries in the queue are an exchange, a save and a
login, in any order. `sessions_limits` uses the symmetry of accounts together with their
sessions, `bg` that of the players of a team; neither checks liveness. Bounds that
are not in the code: `MaxTime`, `MaxTicks`, `MaxLosses`, `MaxRefusals`, `MaxPackets`, `MaxRetries` (the code
has a time limit of 60 seconds there, which ends at any retry in the model),
`MaxBattlegrounds`, `MaxMishaps`, `MaxTrades`, `MaxPending`, `MaxStack`.

Deadlock is checked in every run: where the system ends, a step that changes
nothing says so (`Stopped`, `Resting`, `Rest`, `Ended`).

## Fairness

Weak fairness of the world thread, of each worker thread and of the thread that
owns a pool: the operating system runs every thread that can run, and none of
these loops has a way to stop by itself. Each database worker gets to every
operation (`RealmAccountDataReady`), which is what `OperationsProceed` shows of the pool.
Strong fairness only for taking `_deadlockLock`: a `std::mutex` that is free again
and again lets a waiting thread in eventually. In
`WorldSocket` each handler of the `io_context` is strongly fair, because it takes ready
handlers in turn; reading ends, because one read brings finite data; and a
connection takes data sooner or later or breaks, as TCP's timeouts see to. Nothing else
is assumed of clients,
commands, spurious wakeups, the MySQL server's refusals or the arrival of new
work.

## What is proved

| Module | Theorem | What holds for all values of the constants |
|---|---|---|
| `WorldSessions_proofs` | `TypeCorrect` | `TypeOK` |
| | `QueueHoldsLiveSessions` | `NoDanglingQueueEntry` |
| | `LimitIsKeptAndUsed` | `LimitIsExact` |
| | `NobodyOvertakes` | `FirstComeFirstServed` |
| | `SessionsHaveOneOwner` | `OneOwner` |
| | `WaitingIsJustified` | `InQueueFlagIsJustified` |
| | `ShutdownIsComplete` | `ShutdownEvictsEveryone` |
| `DatabaseWorkerPool_proofs` | `PoolIsTyped` | `TypeOK` |
| | `WorkersStaySound` | `WorkersAreSound` |
| `MySQLTransactions_proofs` | `TransactionTypes` | `TypeOK` |
| | `TransactionsAreAtomic` | `IsAtomic`: the refinement of `AtomicTransactions` |
| | `ResultsAreTrue` | `ResultIsTrue` |
| | `OneWorkerRetries` | `OneRetrier` |
| `MapUpdater_proofs` | `TypeCorrect` | `TypeOK` |
| | `CountIsExact` | `PendingIsExact` |
| | `BarrierHolds` | `Barrier` |
| `WorldSocket_proofs` | `SocketIsTyped` | `TypeOK`, with `ReadsInTurn` |
| | `SessionsOutliveTheirUse` | `SessionUsedWhileAlive` |
| | `NoDeadNodeIsLinked` | `LinksLiveNodes` |
| | `PacketsStayInOrder` | `PacketsInOrder`: the refinement of `PacketStream` |
| `Trade_proofs` | `TypesAreKept` | `TypeOK` |
| | `WindowsAreMutual` | `TradesAreMutual` |
| | `AcceptancesStand` | `AcceptancesStandForTheOffers` |
| | `TradesAreFair` | `TradesEndFairly` |
| | `ItemsHaveOneHolder` | `OneHolder` |
| | `RowsAreWhole` | `TradesAreSavedWhole` |
| `Battlegrounds_proofs` | `TypeCorrect` | `TypeOK` |
| | `PlacesCounted` | `PlacesAreCounted` |
| | `QueueAgrees` | `QueueAgreesWithSlots` |
| | `OfflineQueueExact` | `OfflineQueueIsExact` |
| | `FreeSlotsExact` | `FreeSlotsAreExact` |
| | `TimersExact` | `TimersAreExact` |
| | `InvitationsStand` | `InvitationsLast` |

The assumptions are the ones the modules name (`...Assumption`): constants are of
their types, null values are outside them, sets of workers, sessions, accounts, players
and items are finite where they are counted, no item begins in two bags, teams are
finite and disjoint and have at least one place each. Every theorem is `Init => I`, `I /\ [Next]_vars => I'`
and `I => property` (for an action property, `I /\ I' /\ [Next]_vars` implies it),
combined in the last step. In each case the property is not
inductive, and this is what the invariant adds:

**The login queue.** `TypeCorrect` and `QueueHoldsLiveSessions` come from one inductive invariant, `QueueInv`: `TypeOK`,
`NoDanglingQueueEntry`, and `LoopVisitsSessions` (every account the session loop has
still to visit has a session). The last is the strengthening: neither `TypeOK` nor
the queue's invariant is inductive without it, because `UpdateSession` dereferences
`m_sessions[a]`. The work is in the queue lemma: `RemoveQueuedPlayer` on a queue
without repetitions yields a queue without repetitions, whose elements were in it
and which does not contain the removed session; so `UpdateSession` may delete the
session after it, and `AcceptSession` may put a new one in the table. The
assumptions are those of the module: `AccountOf` maps sessions to accounts, there
are finitely many accounts, `null` is no session, the numbers are numbers.

**The life of a session.** `LifecycleInv` adds to `QueueInv` that a session in the
table is its account's and that one still in `addSessQueue` has not been initialized
(`OwnerInv`), the waiting state of each session in the table (`FlagInv`), and, for the
shutdown, that a kicked session which is left has `forceExit` set, has no socket, and is
still to be visited by the loop (`KickedInv`). `RemovalLemma` says of
`RemoveQueuedPlayer` that it loses nobody: whoever leaves the queue is the session that
goes or is admitted.

**The limit and the order.** Both are action properties over `LifecycleInv`. Nobody in the
queue is admitted and everybody in the table is one or the other, so that the
size of the table minus the length of the queue, which the code compares with the limit,
is the number of admitted sessions; `RemovalCounts` says what `RemoveQueuedPlayer`
makes of that number, and that it pops a head only below the limit. A second use in the
same step, as in a replacement, applies it again. Removing an element and appending one keep
the order of all others, which is what `FirstComeFirstServed` asks of the queue. The
exception of `Bypassing` was found here: without it the step that replaces a privileged
session cannot be proved, and TLC finds the behaviour with two accounts.

**The pool.** `PoolInv` adds how far the owner has come and which connections it is
about to destroy (`OwnerInv`), that while the queue is not shut down nobody has been
told to stop, except between the token and the cancellation (`RunningInv`), that queue,
hands, executed and dropped operations are disjoint and together all that was pushed
(`PlacesInv`), and that the operations taken and then those in the queue are the ones
pushed, in this order (`OrderInv`).

**Transactions.** `TxInv` says which thread has which transaction (`Owners`) and,
as long as the sessions are intact, what the server's session holds at each command:
nothing before START TRANSACTION, the first `next - 1` statements in the middle, all
at COMMIT (`Faithful`). With it every step is a commit, an abort, or a stutter of
`AtomicTransactions`; only a COMMIT that was carried out changes the log, and one that was refused
is an abort. That no transaction is both in the log and among those whose COMMIT was
refused (`CommitsAnswered`) is part of it. `ResultIsTrue` follows from
`LogInv`: of each transaction the log holds nothing or all statements in their order
(`WholeLog`), and all of them when the game or its thread has been told of success and
the COMMIT was not refused (`DoneIsLogged`); because a step leaves the log or appends a whole transaction of which
it held nothing, what `StatementsOf` selects is nothing or everything again.

**The map update.** `IInv` adds to `PendingIsExact` what a worker holds in each of its
states, when nothing is pending, and where a map is in a tick: not yet scheduled,
queued, held, to be visited, updated or spared, in one of these places and in no
other. That an instance's base map comes first (`updated[Parent[i]] = 0` means that
the instance is untouched) is what makes the nested scheduling safe.

**The connection.** `SocketInv` has two independent halves. `ChainInv` says that the last
node of the queue and those on which a stalled producer still has to make a link have
no successor, and that a node is awaited by one producer at most; as `Dequeue` deletes
only nodes with a successor, nobody links a deleted one. `ControlInv` says where the
network thread may find the socket closed (not between the lookup of the account
and the callbacks that follow it), and `SessionInv` that whoever has closed the socket
has cleared the pointer or is just about to, so that the deletion, which waits for a
kicker, cannot fall into the use of the session under its lock. A second CMSG_AUTH_SESSION
holds the lock too, with a pointer that may be null; what the theorem says of it is that a
pointer which is not null leads to a session that exists, and that it is null only after
the session was handed to the world and the socket closed.

**The order of packets.** `OrderInv` says that the nodes of the queue form a chain in the order of
the exchanges: the successor of a node is missing or the one exchanged next, and each
missing link is some stalled producer's. `WayInv` follows the consumer: as long as the
connection can send, what the network has taken, the messages of the write queue and
the buffer are, one after the other, the packets exchanged up to the node at which
`_tail` stands (`Cut`). `Dequeue` moves that place by one and hands out the packet of
that place; packing a message moves the border between buffer and write queue, a partial
write the border between the first message and the network. A packet larger than
what is left always flushes the buffer first, since sizes are natural numbers
(`WeightIsNatural`). With it each step is `Take`, `Send` or `End` of `PacketStream`, or a stutter.

**Trade.** `WindowsInv` is `TradesAreMutual` with the types of the windows; every
handler either keeps who trades with whom (`SamePartners`), or opens or closes both
windows. `AcceptancesStand` and `TradesAreFair` follow per handler. For items and
rows the invariant has to speak of the queue of saves: `Inv` says that there is a history `H`,
the rows as each pending save would leave them (`IsReplay`), with which the world agrees
(`Agrees`). Whatever a player has in his bags, and whatever he destroyed since his last save,
is his in the last rows of `H` (`HoldingsMatch`), where each item has one owner; a login that
waits is of a player who is away, and nothing behind it in the queue changes what he will find
(`LoginsWait`); a row that is deleted does not come back (`RowsStayAway`), which makes an
offer that outlives its item harmless (`OffersAreOwned`); the gold of the rows, together with
what was spent, is always the initial gold (`GoldStays`). Executing a
save takes the first rows off `H`, an exchange or a logout adds one at the end, a crash keeps the
first. An exchange adds one entry for two players at once: were it two, the rows between
them would hold half an exchange, and `GoldStays` would fail.

**Battlegrounds.** The handlers are functions from one value of the state to the next, so
the invariant is a predicate of such a value, `Inv(w)`, and each function that the handlers
are built from has a lemma. The six invariants depend on each other and are proved
together. That a place is counted (`PlacesOK`) is a statement about numbers: the holders of a
place (invited, on the way, or inside) and the lost places are together the instance's number of invited. A
step of one player moves that set and that number together (`PlacesStay`), for which it has
to be known that he holds a place in one way only: who is queued is in the world, in no
battleground, in one group of one list, and his slot names that group's invitation (`OnePlace`,
`QueuedOK`); who is inside has its number (`MembersAreInside`); who is on the way has the slot of
the battleground he goes to, and who has no slot is neither on the way nor, while he is
connected, inside (`HoldersKeepSlots`), so that whoever arrives, in a logout too, is added
(`ArriveKeeps`), and a login into a battle that is over does not give back what is not his. An
instance that does not exist is empty (`DeadAreEmpty`), hence an invitation, whose holders are
counted, always leads to one that exists. The list of free places (`FreeSlotsOK`) and the
offline queues (`OfflineOK`) speak of battles that are running only. `TimersOK` and
`TimersAhead` give every invitation its own timer, with the same time left.

The queue's update is where the numbers could go wrong: a selection pool is filled, cut
down and filled again, and then all its groups are invited. `GoodPool` says that the groups of a
pool are waiting groups of its team without a player in common, that their sizes
add up to its count, and that those still ahead in the list are not among them. `AddGroup`,
`KickGroup` and the balancing keep it and never exceed the places that
`GetFreeSlotsForTeam` allows (`FillKeeps`, `PremadePoolsKeep`, `NormalPoolsKeep`), so that the pool fits when
it is invited group by group (`InvitesLeft`). The loops are folds. The proof follows a
fold along the values it passes through, which are shown to exist
(`AddTrace`, `CycleTrace`, `InviteTrace`, `FillTrace`), and for the sets of members and events, whose
order is open, along the subsets that are done (`SweepTrace`, `RunTrace`).

When time passes the events that are due run in any order over a queue where each
invitation has become shorter at once. An event that has run is spent, because no group with
its player has its instance and its time left any more (`Spent`), and may leave the set of timers
without harm to `TimersOK`. `InvitationsStand` follows the same run: a group with more than one
tick left has some after the tick, an event that is due finds only groups without any, and the
queue's update invites only who is not invited (`SlotsLast`). No other step touches the timers
(`NextQuietly`).

**Data.** The induction theorems of the library take a predicate as an operator, which the
provers cannot instantiate. `DataFacts` uses a set in its place, the set of the values
that have the predicate, and the library's fact that a non-empty set of naturals has a least
element. That a function defined by recursion exists, which the sums of gold, the slots
of an exchange and the weights of packets need, is shown once for a step
that is itself a function (`RecursionExists`). The folds of `Battlegrounds` have handlers
as their steps, which are no functions but operators; there the same argument is made for
each fold. What the library's operations on lists (`RemoveFirst`, `ReplaceAll`, `RemoveAt`)
do to positions and elements is stated once.

Only model-checked: liveness under fairness, which is out of the proof system's
reach (`DestructionEnds`, `OperationsProceed`, `TransactionsEnd`, `TickEnds`,
`DeactivateEnds`, `LostSessionsLeave`, `AdmissionCompletes`, `RefusedLearnWhy`,
`EnqueuedAreSent`).

## Findings

Four runs show what the code does against its own documentation; `PROJECT.json`
quotes it: the tolerance that never ends (`World.cpp:367`), the queue that stays
shut (`DatabaseLoader.cpp:63`), the transaction that continues after a reconnection
(`MySQLConnection.cpp:148`), and the battleground player who is counted twice
(`Battleground.cpp:1001`).

Two flaws more are in the models and have no run of their own. `ResultIsTrue` and
`SessionUsedWhileAlive` hold with them because they name them: the refused COMMIT that is
reported as done (`MySQLConnection.cpp:418`), and the session that may be logged through a
null pointer when a client sends a second CMSG_AUTH_SESSION while it is being kicked
(`WorldSocket.cpp:343`).

## Plan

Done, in this order: the session table, the pool, the transactions, the map
update, the connection, battlegrounds, trade; and the proofs above. Left, in the
order of their worth:

1. `NetworkThread` with several sockets: hand-over, the count of connections, `Stop`;
   and the composition of `WorldSocket` with `WorldSessions`.
2. `ServerShutdown`: Main.cpp's order of `KickAll`, `UpdateSessions`, `UnloadAll`,
   `StopNetwork` and `StopDB` over abstract versions of the modules above.
3. `QueryCallback`: chains of asynchronous queries; the abstract specification is
   "each continuation once, in order, on the owner's thread".
4. Auctions, mail and guild banks: conservation over a handler and its transaction, in
   the manner of `Trade`.

## Not modelled

The models cover a small share of the repository's lines, and they always will: of
some 850 000 lines of implementation most are game content and rules (scripts,
spells, entities, AI), vendored libraries (gSOAP, generated parsers, allocators) and
tools that extract maps.

* Game rules (entities, combat, spells, movement, AI, scripts) are sequential code on
  large numeric state inside one map's update, without an intention stated anywhere
  that a model could be held against. Collision, maps on disk, data stores,
  configuration and logging are geometry, tables and I/O. The authentication server
  is another process that shares only a database.
* Battle royale (`Battleroyale.cpp`) and the dungeon finder (`LFGMgr.cpp`,
  `LFGQueue.cpp`) were read for modelling and set aside. Their bookkeeping departs from
  what one would expect at once (rounds start from the last round's groups; several
  proposals of one update share players), and nothing in the repository says what it
  should be. A model would have to weaken each property to what the code happens to
  do. `hazards` lists what was found, at its line.
* Of battlegrounds some known flaws of the code lie outside the checked properties, or
  bound them: a teleport that is refused after the invitation was accepted leaves its place
  counted for ever (`PlacesAreCounted` counts these in `lost`), `LogoutPlayer` removes a player from
  the queue without scheduling an update of it, the premade timer is an unsigned
  difference that wraps in the first half hour after a start.
* In the session table and in `Main.cpp`: a session accepted by the network while the
  last `UpdateSessions` runs stays in `addSessQueue` and is never deleted; raising the
  limit admits nobody until somebody leaves.

For the reason each component is left out see `components` in `PROJECT.json`.
