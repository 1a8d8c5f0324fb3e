# redis-plus-plus: specifications, model checking and proofs

This directory holds TLA+ modules that model the parts of redis-plus-plus in
which threads, callbacks, timeouts and redirections meet, the TLC
configurations that check them on small instances, and proofs, checked by
TLAPS, of the properties that matter most for every value of the constants.
Paths below are relative to `src/src/sw/redis++/`.

`PROJECT.json` lists, for every definition that models code, the lines it
stands for, and for every property a mutant (a plausible slip in the code) that
the property catches.

## 1. Inventory

| part | state | operations | hard behaviour | what makes it correct |
|---|---|---|---|---|
| **Connection pool** (`connection_pool.*`, guards `SafeConnection`, `GuardedConnection`) | `_opts`, `_pool` (deque of idle connections), `_used_connections`, `_mutex`, `_cv`, `_sentinel` | `fetch`, `release`, `create`, `clone` | connections are made outside of the mutex; barging threads; notify after unlock; timeouts; concurrent sentinel answers | at most `size` connections, each idle or with one thread; a fetched one is usable; no lost wakeup; failover heals |
| **Connection** (`connection.*`) | hiredis context, options, create time, last activity | connect, `reconnect`, `send`, `recv`, handshake | failure in the middle of the handshake | used only when not broken |
| **Redlock** (`patterns/redlock.*`) | keys on N masters (value, expiry), the local lock id and validity, the watcher's task queue | `try_lock`, `lock`, `extend_lock`, `unlock`; watcher thread | masters fail, replies are late, clocks run; a watcher extends a lock while its owner unlocks it | at most one client believes it has the lock; a failed attempt leaves nothing behind; the watcher extends only what is locked |
| **Shards pool** (`shards_pool.*`, `shards.*`, `redis_cluster.hpp`) | slot map `_shards`, a pool per node `_pools`, refresh worker | `fetch(key)`, `fetch(node)`, `update`, `_run`; command retry on MOVED, ASK, closed connections | updates outside of the mutex racing each other; unknown nodes; resharding | every node of the map has a pool; a command is sent at most twice, or redirected once by ASK |
| **Async connection** (`async_connection.*`, `event_loop.*`) | state machine of a connection, queue of events; the loop's sets of commands, disconnects, its thread | `send`, `update_node_info`, callbacks of hiredis, `add`, `unwatch`, `stop` | user threads and the loop's thread; coalesced wakeups; a failure in every handshake state | each event's future or callback is completed exactly once |
| **Async connection pool, async sentinel** (`async_connection_pool.*`, `async_sentinel.*`) | as the pool, and connections that wait for the sentinel's worker | `fetch`, `release`, `update_node_info`, worker `_run` | an answer of the sentinel arrives while a connection is being replaced, or its pool is gone | every command sent meanwhile is answered; who is given up is disconnected |
| **Async shards pool** (`async_shards_pool.*`, `ClusterEvent`, `AskingEvent`) | slot map, pools, queue of update events, worker; the state of each event | `fetch`, `update`, redelivery | events redelivered by a worker, shutdown while events are queued | each command is executed at most once and completes, also over redirections and shutdown |
| **Sentinel** (`sentinel.*`) | healthy and broken sentinel connections | `master`, `slave`, iteration over sentinels | sentinels that fail, disagree or return a node in the wrong role | every sentinel is tried; a connection in the wrong role is never returned |
| **Transactions, pipelines** (`queued_redis.*`, `transaction.*`, `pipeline.*`) | queued commands, connection, `_valid`, MULTI state | `command`, `exec`, `discard` | errors half-way leave unread replies or an open MULTI | a connection with unread replies or an open MULTI never goes back to the pool |
| **Subscribers** (`subscriber.*`, `async_subscriber*`) | callbacks, connection | `subscribe`, `consume` | a timeout while a message is half received | a message is dispatched to the callback of its kind |
| **Pure helpers** (`crc16.cpp`, hash tags and slots, `redis_uri.*`, redirection errors, reply parsing) | none | parsing | boundary inputs | agreement with a reference definition |
| **Command builders, reply conversion, user API** (`command*.h`, `redis.h`, `redis_cluster.h`, `async_redis*.h`, `co_redis*.h`, `cmd_formatter.h`, `reply.*`) | none | one function per Redis command | none of their own | they map arguments to bytes and bytes to values; left out |

### How the parts meet

- `Redis` fetches a connection from its pool for each command; `SafeConnection`
  gives it back in its destructor. `RedisCluster::_command` asks the shards pool
  for the pool of a slot, and then fetches from that pool. With a sentinel, the
  pool asks `Sentinel` for the address each time it has to connect.
- `RedMutex` (the user's object) shares a `RedMutexImpl` with the tasks of a
  `LockWatcher`, which keeps weak pointers to it and runs `extend_lock()` on a
  thread of its own. The `RedMutexImpl` keeps the watcher alive in turn.
- The asynchronous side replaces waiting by queues: a user thread appends an
  event to the queue of an `AsyncConnection` and wakes the `EventLoop`, whose
  thread sends it and completes its future; connections that need an address
  wait for the worker of `AsyncSentinel`, and cluster events that need a new
  slot map for the worker of `AsyncShardsPool`.
- Shared state is guarded by one mutex per component. What is hard is what
  happens outside of these mutexes: connections are made, sentinels and nodes
  are asked, and conditions are notified without them, so that decisions are
  carried out later than they are taken.

## 2. What is modelled, module by module

| module | stands for | extends or instantiates | proofs |
|---|---|---|---|
| `SlotPool` | what a pool promises (abstract) | | |
| `ConnectionPool` | `ConnectionPool`, the guards, connections as the pool sees them | implements `SlotPool` | `ConnectionPool_proofs` |
| `LockMasters` | Redis masters with one key, its expiry, a clock (external) and the commands Redlock sends to them | | |
| `LockClients` | state and promises both versions of Redlock share | `LockMasters` | |
| `RedLockMutex` | `RedLockMutexVessel`, `RedLockMutex` (scripts) | `LockClients` | `RedLock_proofs` |
| `RedLock` | the guard `RedLock` over `RedLockMutex` | `RedLockMutex` | `RedLock_proofs` |
| `RedMutexTx` | `RedMutexTx` (WATCH, MULTI, EXEC) | `LockClients` | `RedMutexTx_proofs` |
| `LockWatcher` | `RedMutex`, `RedMutexImpl`, `LockWatcher` and its thread | | `RedLock_proofs` |
| `ClusterNodes` | a Redis Cluster (external): its maps, who knows which, who is up, migrations | | |
| `ShardsPool` | `ShardsPool` and `RedisCluster::_command` | `ClusterNodes` | `ShardsPool_proofs` |
| `HashSlots` | the slot of a key and the node of a slot: hash tags, ranges, `lower_bound` (functions) | used by `MCShardsPool` | `ShardsPool_proofs` |
| `Connection` | a connection as a value: output buffer, unread replies, the server's MULTI and WATCH (external) | | |
| `QueuedRedis` | `QueuedRedis`, `TransactionImpl`, `PipelineImpl`, `QueuedRedis::redis()` and plain users of the pool | `Connection` | `QueuedRedis_proofs` |
| `NodeLookup` | what asking the sentinels promises (abstract) | | |
| `SentinelNodes` | `Sentinel::master()`, `slave()` and `Iterator` | implements `NodeLookup` | `SentinelNodes_proofs` |
| `AsyncConnection` | `AsyncConnection`, `EventLoop` with its thread and destructor, hiredis' contexts (external) | | `AsyncConnection_proofs` |
| `AsyncConnectionPool` | `AsyncConnectionPool`, the worker of `AsyncSentinel` | composes with `NodeLookup` | `AsyncConnection_proofs` |
| `AsyncShardsPool` | `AsyncShardsPool`, `ClusterEvent`, `AskingEvent` | `ClusterNodes` | `AsyncShardsPool_proofs` |

`MC<module>` instantiates a module for TLC. `RedLock_proofs` holds the proofs about both
the mutex and the watcher that keeps it locked, and `AsyncConnection_proofs` those
about a connection and the pool of such connections. So the definitions
that every module has are called `WatcherInit`, `WatcherNext`,
`WatcherSpec` and `WatcherTypeOK` in `LockWatcher`, and `PoolInit`, `PoolNext`, `PoolSpec`,
`FairPoolSpec` and `PoolTypeOK` in `AsyncConnectionPool`.

**ConnectionPool.** `opts`, `used`, `pool`, `conn` are `_opts`,
`_used_connections`, `_pool` and the connections themselves; `pc`, `held`,
`fresh` are where each thread is and what it has in its hands; `server` is where
the service really is. Each critical section of `fetch()`, `release()` and
`_create()` is an action, and so is each thing a thread does between two of
them: connecting, asking the sentinel, using the connection, `notify_one()`. The
condition variable is the set of threads at `"waiting"`; a thread that was
notified (`"woken"`) or whose deadline passed (`"timedout"`) still has to get
the mutex, and others may come before it. `SpuriousWakeup` is there because the
standard allows it. Threads use a connection any number of times (`Execute`),
and it may break each time.

**Redlock.** A client visits the masters in the order of its own list, one
command or script per step, so that other clients, the clock (`Tick`) and the
expiry of keys (`Expire`) come in between. `CommandFails` is an exception of a
command that the master has executed, or has not: timeouts and closed
connections look the same to the client. `until[c]` is what a client believes
(when its lock ends); the properties compare it to what the masters have. In
`RedLock` the guard's `_release_tp` is set in a step of its own
(`SetReleaseTp`), after the mutex has measured the time that is left. A destructor's `unlock()` is the
mutex's, step by step on the masters, so that what a destroyed guard leaves there can
be said (`DestroyedReleases`). In
`RedMutexTx` WATCH and EXEC are separate steps, and `touched` is the mark Redis
puts on a client whose watched key has changed. A command of `extend_lock()` that
throws is caught and its master is not counted (`ExtendThrows`); a connection that cannot
be made throws outside of the `try` and leaves `extend_lock()` with some masters
extended, the others not visited and nothing unlocked (`ExtendLeaves`).

**LockWatcher.** `tasks`, `batch`, `again` are how many tasks of each mutex wait
in the queue, are ready, or will be rescheduled; `wpc` and `cur` follow the
watcher's thread through `_run_task()` and `Task::run()`, with `locked()` and
`extend_lock()` as separate critical sections. `Scripted` are the mutexes made with the
scripts, the default; the others are `RedMutexTx`, whose extension may succeed although
the key is lost, and whose cleanup deletes nothing. `userRef`, `appRef` and `cur` are
the references that keep mutexes and the watcher alive; when the last one goes,
the destructor runs on the thread that let go of it.

**ShardsPool.** A slot map is the number of one of the maps the cluster has had.
A thread goes through `_command()`: `Fetch`, one exchange with the node
(`Reply`, `Moved`, `Ask`, `ConnectionFails`, `ReplyUnread`, `OtherError`), and after MOVED or a
lost connection the attempts of `update()` (`PickNode`, `ClusterSlots` or
`ClusterSlotsFails`, and the critical section `Adopt`), then at most one more
attempt. The worker runs the same `update()` whenever its interval passes. The
variables `done`, `lost` and `result` are history: what really happened to the
command at the nodes, for `RepeatsAreSafe`.

**AsyncConnection.** `state`, `ptr`, `queue` are `_state`, `_ctx` (null or not)
and `_events`; `commands` and `goodbyes` the two sets of the loop; `wake` and
`stopping` its two `uv_async_t`. A caller's `send()` is three steps: its own
critical section (`Push`), that of `loop->add()` (`Add`), and the wakeup
(`Notify`); `adding` and `notifying` are the callers in between. The loop's
thread takes both sets in `WakeUp` and then handles one connection after the
other. hiredis' part is `ctx`, and `asked` and `sent`, the commands of the
handshake and of users that wait for a reply. `_connect()` is two steps
(`ConnectBegins`, `ConnectEnds`), since it holds a reference to the loop in
between. The order of events in a queue is not modelled, nor which of several
connections of a set comes first.

**HashSlots.** Functions, with no state. `Hashed(k)` is the part of a key whose
checksum is the slot; `Lookup(shards, slot)` is `lower_bound` on ranges ordered by
their last slot and the one comparison that follows, as a set of at most one
entry; `ParseReply` builds the map with `emplace()`, which drops equivalent
ranges. `MCShardsPool` compares them, as assumptions, with the loops of
`_slot()` for all keys of up to six characters and with `Covering` for all replies of
up to three ranges.

**Connection, QueuedRedis.** Nothing in a reply says which command it answers:
hiredis takes replies in order. So a connection is a record of the commands
whose replies were not read (`sent`), how many of them are out of the output
buffer (`written`), the replies that are there (`replies`, to the first of `sent`)
and what the server keeps for it (`multi`, `queue`, `watch`). `Send` appends to
the buffer, `Flush` writes it, `AfterRecv` takes the oldest reply, and the server
serves one command per step (`ServerAnswers`, with `Serve` and `Runs`), so that
an I/O error finds it anywhere between nothing served and everything served. A connection
that went wrong is only ever closed, and is the value `Break` from then on. A method of
`QueuedRedis` is one step for each reply it waits for (`doing`), since connections
of the pool are used by others meanwhile; plain commands and those of a
`Redis` object are two steps. `misread`, `ran`, `queued`, `batches` are history. `valid`,
`cmds`, `sets`, `open` are `_valid`, `_cmd_num`, `_set_cmd_indexes`, `_in_transaction`.
`handle` says that a `Redis` object shares the connection; it may outlive the object
it came from.

**SentinelNodes.** `healthy`, `broken` are the two lists, in their order, and `left`
the two counters of the iterator; `bad` are sentinels whose connection
failed and which nobody has noticed yet. A call goes from sentinel to sentinel
(`NextHealthy`, `Reconnect`, `SetAside`), asks one (`AskSentinel`), tries the nodes
that it named (`Found`, `WrongRole`, `NodeFails`) and gives up when no sentinel is
left. Sentinels may be behind (`knows`), and the master moves at any time.

**AsyncConnectionPool.** A connection is reduced to the host in its options, whom
it is connected to, its events, and its state: `WAIT_SENTINEL` (no address yet),
`NOT_CONNECTED`, `READY` (which stands for connecting, too), or `BROKEN`, also for one
that does not exist. `todo[c]` is what the two sets of the loop
hold of it, `taskList` the queue of the sentinel's worker with the task it works on at
the head. `fetch()` is the critical section (`FetchNew`, `FetchIdle`) and what
follows it (`Keep`, `Replace`), with `seen` the values that were read in between.
The worker is the actions of `NodeLookup` and the three calls back into the pool
(`UpdatePool`, `UpdateConnection`, `UpdateFails`); that `SentinelNodes` implements
`NodeLookup` is what makes this a composition. `life` follows the references
to the pool: the application's, and the worker's while it runs a task.

**AsyncShardsPool.** `at[c]` says where the event of a command is: with the loop
(`"sent"`, `"asking"`), with the worker (`"held"`: in its queue or in the batch it
is working on), or before or after its life (`"out"`); `state[c]` is `ClusterEvent::_state`. A callback is one step
(`Reply`, `Moved`, `Ask`, `ConnectionFails`, `OtherError`). A reply that
arrives may still not convert to what the caller asked for, and then fails an event that was
executed; so does a reply that hiredis cannot read (`result` is `"lost"`, as after an I/O
error). The worker takes the
queue as a whole (`FetchEvents`), updates in up to `Attempts` steps, and then
delivers each event again (`Redeliver`) or fails it (`FailEvent`). Each event has a reference to the
pool, so the step that drops the last one runs the destructor; when that is the
worker's, `pc` becomes `"crashed"`.

## 3. The runs

| run | specification and bounds | properties |
|---|---|---|
| `pool_direct` | `ConnectionPool`, no sentinel: 4 threads, 2 connections, wait timeout, expiring connections | `Conservation`, `NoLostWakeup`, `ImplementsSlotPool`, `WaitEnds` |
| `pool_sentinel` | `ConnectionPool` with a sentinel: 3 threads, 1 pooled connection, 2 addresses, no timeout | `ServedUnlessOvertaken`, `FailoverHeals` |
| `redlock` | `RedLockMutex`: 2 clients, 3 masters in opposite orders, ttl 3, drift 1, 2 attempts, clock to 2 | `HeldByQuorum`, `AtMostOneHolder`, `NothingLeftBehind`, `OnlyOwnerDeletes` |
| `redlock_guard` | `RedLock`: 2 guards, 2 masters in opposite orders, ttl 3, drift 1, clock to 3, exceptions | `HeldIsOwned`, `DestroyedReleases` |
| `redtx` | `RedMutexTx`: 2 clients, 2 masters in opposite orders, ttl 2, perfect clocks to 3, exceptions, also out of `extend_lock()` | `FirstLockIsBacked`, `OnlyOwnerDeletes` |
| `watcher` | `LockWatcher`: 2 mutexes, one with the scripts and one with transactions, 3 lock ids | `LockedIsWatched`, `LostLockIsNoticed`, `DestructorReturns` |
| `shards_pool` | `ShardsPool`: 2 nodes, 1 slot, 2 maps, 1 thread and the worker, 2 attempts to update; `HashSlots` | `MapHasPools`, `RepeatsAreSafe`, `CommandEnds`, `MapConverges`, `DestructorReturns` |
| `queued` | `QueuedRedis`: 1 transaction or pipeline of any mode and its `Redis` object, 1 pooled connection with plain users, 3 commands | `PooledIsClean`, `RepliesMatch`, `AllOrNothing` |
| `sentinel` | `SentinelNodes`: 3 sentinels, 3 nodes, 1 retry | `GivesUpAfterAll`, `CallReturns`, `ImplementsLookup` |
| `async_connection` | `AsyncConnection`: 1 connection, with or without a sentinel, 3 events, AUTH and SELECT in the handshake | `CompletedOnce`, `ContextIsOpen`, `HandshakeFirst`, `NobodySleeps`, `EventsComplete`, `DestructorReturns` |
| `async_pool` | `AsyncConnectionPool`: 2 threads, 1 pooled connection, 2 connections at a time, 2 nodes, with a sentinel and without | `EventsAnswered`, `DiscardedCloses` |
| `async_shards` | `AsyncShardsPool`: 2 commands, 2 nodes, 1 slot, 2 maps, 2 attempts to update | `AtMostOnce`, `EventsComplete`, `DestructorReturns`, `MapConverges` |

The type invariants (`TypeOK`) are proved for every module that models code with state
(section 4), and the runs do not check them again.

What they show:

- **`pool_direct`**: no interleaving of fetching, waiting, timing out, failing to
  connect and releasing loses or shares a connection (`Conservation`), or
  leaves a waiter asleep next to an idle connection that nobody is on the way to
  (`NoLostWakeup`); seen from outside the pool only lends and takes back
  (`ImplementsSlotPool`); a waiting `fetch()` ends (`WaitEnds`), because
  `wait_for` has one deadline for all its wakeups.
- **`pool_sentinel`**: without a timeout a waiter can be overtaken for ever, but
  only while others keep beginning new fetches (`ServedUnlessOvertaken`). Two
  answers of the sentinel may be adopted in the wrong order; the next use of a
  connection to the wrong node ends in an error or a role change, and the pool
  comes back to the master (`FailoverHeals`).
- **`redlock`**: `HeldByQuorum` is the reason why Redlock works: what a client
  believes is backed, on a quorum, by keys with its id that outlive the belief
  by the drift. `AtMostOneHolder` follows. `NothingLeftBehind` needs that the
  cleanup visits every master and not only those counted; `OnlyOwnerDeletes`
  that a late unlock compares the value.
- **`redlock_guard`**: a guard always knows of a valid lock of its mutex, so that
  its destructor releases it. What a destroyed guard leaves on the masters is no key at
  all if it owned its lock, or had none, and else keys of a lock that was over
  already, which expire within a ttl (`DestroyedReleases`); only a last call that ended with an
  exception can leave more, until it expires. The converse of `HeldIsOwned` does not
  hold: the guard adds a
  duration to a later `now()`, so it may believe in the lock for longer than the
  lock is valid, for as long as its thread was delayed (section 5).
- **`redtx`**: with WATCH a delayed client never deletes the key of the next one,
  and a lock from `try_lock()` is backed until it is extended, also while extensions fail
  half-way or leave `extend_lock()` with an exception. More does not hold
  (section 5).
- **`watcher`**: a locked mutex always has a task (`LockedIsWatched`), so that a
  lost lock is noticed by a mutex with the scripts, the default (`LostLockIsNoticed`; section 5
  for the others); destroying the watcher from an application thread
  returns.
- **`shards_pool`**: threads adopt maps in any order, older after newer; still
  each node of the map in use has a pool, commands are repeated only after an
  I/O error or a redirection (and not after a reply that could not be read), calls end, and once the cluster is quiet the map becomes the
  cluster's (README.md: "it will finally update the slot-node mapping").
- **`async_connection`**: whatever fails (an event that hiredis refuses, a
  command of the handshake, the connection, the sentinel) and whenever the pool
  or the application lets go, each promise is set exactly once, no freed context
  is used, nothing is sent before the handshake is over, and no event stays in a
  queue that nobody will look at. Events of a connection that is given up before
  it is ready fail, although a comment (`event_loop.cpp:158`) says that pending
  events are sent first.
- **`queued`**: an I/O error, a reply that is an error, a destructor or a user of
  the pool may come between any two replies of a transaction or pipeline. The
  pool still gets back connections that are clean or broken (`PooledIsClean`),
  nobody takes the reply of another command for their own, also not with the
  indexes that `set()` notes (`RepliesMatch`), and what was queued is run only by
  `exec()`, a transaction as a whole (`AllOrNothing`).
- **`sentinel`**: a call fails only after each sentinel was tried since the
  iteration was (re)started, those set aside earlier included (`GivesUpAfterAll`);
  it ends although failovers never stop (`CallReturns`), because restarts are
  counted; and a node that is returned had the role that was asked for while
  the call ran (`ImplementsLookup`), though sentinels may be behind.
- **`async_pool`**: commands are answered or failed, whether their connection waits
  for an address, is replaced when the role has moved, is disconnected, or is in
  a task of a worker whose pool is gone (`EventsAnswered`); a connection that was
  replaced is closed, also when its address arrives later (`DiscardedCloses`). It does
  *not* follow that the pool heals after a failover (section 5).
- **`async_shards`**: an event goes from connection to worker and back; still each
  command is executed at most once, and not at all if it fails for want of a node,
  after too many redirections, in the worker, or with an error reply (`AtMostOnce`); after an
  I/O error, or with a reply that cannot be read, its caller does not know. Its future
  becomes ready (`EventsComplete`); a worker that fails to update asks again until the map
  is the cluster's (`MapConverges`); and the null event of the destructor
  ends the worker behind any other events (`DestructorReturns`).

Why these bounds are enough. *Pool*: with four threads and two connections
there are two waiters while two connections are busy, one thread that barges in
and one that notifies; `pool_sentinel` has one pooled connection because
`create()` makes up to three more, and the order of two answers needs two. The
proofs cover every size. *Redlock*: opposite orders give the most contention
between two clients; three masters are the first number with a quorum that is
not everything, two the first even one. The clock runs past the end of a first
lock, so that keys expire, early by the drift or late by any delay, and are
taken again; two attempts include a cleanup between them. `MaxTime` stops the
clock, so nothing is said about liveness. *Watcher*: three ids let one mutex be
locked, unlocked and locked again while a task of the first lock is in the
middle of its steps, with the other mutex waiting; more ids add tasks of the
same kind. *Shards pool*: with two nodes, one slot and two maps a slot migrates,
is lost, comes back, or its node fails over; the code makes four attempts to
update, and what differs between them is only whether the node is a random one
or the seed, so two show both. One thread and the worker race each other as two
threads would; safety is proved for any number. The refreshing worker,
`Crash`/`Restart` and migrations may go on for ever up to `MaxMaps`. *Async
connection*: connections meet only in the sets of the loop, which are taken as a
whole, and safety is proved for any number of them; three events are one that
was sent, one that is refused, and one that is queued meanwhile; two commands of
the handshake are the least that have an order. *Queued*: what can go wrong lies
between the replies of one object and its neighbours on a connection; three
commands are a first, a middle and a last one, of which any may fail; safety is
proved for any number of objects, connections and commands. *Sentinel*: three
sentinels are one in each list and one that moves from one list to the other; one retry is the
first that counts. *Async pool*: one pooled connection, one that was replaced
while its answer is still to come; two nodes are an old and a new master.
*Async shards*: two commands of which one is with the worker while the other
goes straight to a node; the rest is as for the shards pool.

Symmetry: the Redlock runs use the exchange of the two clients together with the
reversal of their lists, which leaves `Rank` as it is; these runs have no
liveness properties. Deadlock is checked for the pool, `QueuedRedis` and `SentinelNodes`, and switched off where
the system may really stop: when the clock has reached its bound, and when the
watcher, a shards pool, the event loop or the asynchronous pool has been destroyed.

### Assumptions of the models

- A mutex is fair enough for weak fairness: a thread that waits for it gets it.
- A request is executed before the exception its client gets, or never. (A
  request that is still under way after its timeout is a hazard on the list,
  not yet modelled.)
- A client does not call `try_lock()` while it holds the lock, as the user is
  told, and calls one function of its mutex at a time.
- Keys live as long as Redis promises by the clock of the clients, give or take
  the drift; for `RedMutexTx`, which allows for none, the drift is 0.
- hiredis calls each callback once, also when it frees a context, and frees a
  context that is disconnecting when the last reply has come. No callback of a
  user destroys the `AsyncRedis` it belongs to, and no thread calls one that is
  being destroyed.
- The seed node of a cluster is reachable whenever it is asked for long enough:
  it does not crash in the model, though requests to it may fail.
- The user of a `Redis` object that shares the connection of a transaction or
  pipeline (`QueuedRedis::redis()`) uses it while nothing is queued, as in the
  examples of `README.md`, and gives it up when the transaction has failed
  (`UseAfterFailure = FALSE`; section 5 says what happens otherwise).
- A connection that a sentinel or a server has closed is noticed by the next
  command on it.
- A callback that runs on the loop of an `AsyncRedisCluster` finds the loop alive:
  `~AsyncRedisCluster` is one step (`DropPool`), and the loop outlives the pool.

### Fairness

*Pool.* Weak fairness for each step a thread takes on its own once it is inside
of the pool: getting the mutex, finishing to connect (the connect and socket
timeouts bound it), its deadline, destroying the guard. Nothing makes a thread
begin a `fetch()`. *Watcher.* Weak fairness for the thread; strong fairness for
fetching each mutex's task, since the queue is ordered by time and a task's time
comes, however many others are rescheduled. *Shards pool.* Weak fairness for
threads, for the worker (its interval passes) and for the cluster's gossip
(`Learn`). `MapConverges` states as premises what cannot be assumed: that the
cluster stops changing and that asking a reachable node does not fail for ever.
*Async connection.* Weak fairness for callers that are inside of `send()`, for the
loop's thread, for the task of the sentinel, and for hiredis: a server answers,
or the connection is lost, or `connect_timeout` or `socket_timeout` ends the
wait. *Sentinel.* Weak fairness for the steps of a call; the constructor refuses
timeouts of 0. None for failovers or for sentinels that learn of them. *Async
pool.* Weak fairness for threads that are between `fetch()` and `release()`, for
what the loop was given, for replies (a reply, or a timeout), and for the worker. Strong
assumptions are not made: an idle connection need never be lost, so a pool may
keep one for ever. *Async shards.* Weak fairness for callbacks, for the worker (its
interval passes) and for gossip; the premises of `MapConverges` are those of the
shards pool. `QueuedRedis` has no liveness property: each of its methods ends with
the timeouts of its connection. The Redlock specifications have no fairness and no liveness properties.

## 4. What is proved

| theorem | property | what it says |
|---|---|---|
| `ShardsPool_proofs!LookupFindsTheRange` | assumption `LookupIsRight` | `lower_bound` on the last slots finds the range of every slot, and none for a slot without one, for any map without overlaps. |
| `ShardsPool_proofs!EmplaceKeepsAll` | | No entry of a reply without overlaps is dropped by `emplace()`. |
| `ShardsPool_proofs!TagsHashToThemselves` | assumption `TagsAreFixed` | A `hash_tag` argument leads to the slot of the keys that have this tag: README.md's "calculate the slot number with the given *hash tag*". |
| `ShardsPool_proofs!SameTagSameSlot` | | Keys with the same tag are hashed alike, whatever surrounds the tag. |
| `ConnectionPool_proofs!TypeSafe` | `TypeOK` | The state of the pool always has its type. |
| `ConnectionPool_proofs!NothingLostOrSharedTwice` | `Conservation` | Every connection the pool has counted is idle or with exactly one thread, for every number of threads, every size and both modes. |
| `ConnectionPool_proofs!FetchReturnsUsable` | `FetchedNotBroken` | The assertion of SafeConnection and GuardedConnection holds whenever fetch() returns. |
| `ConnectionPool_proofs!NoWakeupIsLost` | `NoLostWakeup` | No waiter sleeps next to an idle connection without a thread on the way to it. |
| `ConnectionPool_proofs!PoolImplementsSlotPool` | `ImplementsSlotPool` | Every behaviour of the pool is a behaviour of SlotPool. |
| `RedLock_proofs!TypeSafe` | `TypeOK` | The types of all variables, for any clients, masters, orders, ttl and drift: the attempts are bounded by retry_count and no lock is granted for longer than the ttl. |
| `RedLock_proofs!LockIsHeldByQuorum` | `HeldByQuorum` | A lock that a client believes in is really there on a quorum of the masters, and outlives the belief by the drift. |
| `RedLock_proofs!MutualExclusion` | `AtMostOneHolder` | Mutual exclusion of the scripting version: two quorums of the masters have one in common. |
| `RedLock_proofs!CallsCleanUp` | `NothingLeftBehind` | A call that failed or unlocked without an exception leaves no key, whatever earlier calls with lost replies left. |
| `RedLock_proofs!UnlockDeletesOwn` | `OnlyOwnerDeletes` | Before its time a key is deleted only by its own client. |
| `RedLock_proofs!GuardOwnsWhatIsHeld` | `HeldIsOwned` | A guard whose mutex has a valid lock says that it owns it, so that its destructor will unlock. |
| `RedLock_proofs!DestructorReleases` | `DestroyedReleases` | What a destroyed guard leaves on the masters, unless its last call ended with an exception: no key if it owned the lock or had none, and else only keys of a lock that was over when it was destroyed, for less than a ttl. |
| `RedMutexTx_proofs!TypeSafe` | `TypeOK` | Types: no lock is believed in for longer than a ttl from the start of its call. |
| `RedMutexTx_proofs!UnlockDeletesOwn` | `OnlyOwnerDeletes` | WATCH protects the key of the next owner from a delayed `unlock()`, whose DEL does not compare. |
| `RedMutexTx_proofs!FirstLockIsHeldByQuorum` | `FirstLockIsBacked` | Without drift, a lock of `try_lock()` that nobody has extended is on a quorum of the masters until its time is over. |
| `RedLock_proofs!WatcherTypeCorrect` | `WatcherTypeOK` | Types, and that the watcher thread holds a mutex exactly while it runs its task. |
| `RedLock_proofs!WatchedWhileLocked` | `LockedIsWatched` | A locked mutex always has a task waiting or running: its lock is going to be extended or found lost. |
| `RedLock_proofs!WatcherEndsInTime` | `EndsInTime` | The task that ends the watcher's thread is queued exactly when the last reference to the watcher is gone, whoever had it; the thread ends only then (the safety half of `DestructorReturns`, for at least one mutex). |
| `ShardsPool_proofs!TypeSafe` | `TypeOK` | Types: a command makes at most two attempts and update() at most its own, for any cluster and any threads. |
| `ShardsPool_proofs!NodesHavePools` | `MapHasPools` | Each node of the map in use has a pool, in whatever order maps are adopted. |
| `ShardsPool_proofs!CommandsAreRepeatedSafely` | `RepeatsAreSafe` | A command is executed twice only if a reply to it was lost, never more often, and not at all if it throws although no reply was lost or unreadable. |
| `AsyncConnection_proofs!TypeSafe` | `TypeOK` | Types, for any connections, events and options: only commands that the options ask for are sent in a handshake. |
| `AsyncConnection_proofs!EventsCompleteOnce` | `CompletedOnce` | No promise of an event is lost or set twice, through every callback and every failure, and the destruction of the loop. |
| `AsyncConnection_proofs!ContextIsNeverStale` | `ContextIsOpen` | `_ctx` is null when, and only when, hiredis has no open context for the connection. |
| `AsyncConnection_proofs!HandshakeComesFirst` | `HandshakeFirst` | No event is sent before the server has accepted every command of the handshake, for any set of them. |
| `AsyncConnection_proofs!NoEventSleeps` | `NobodySleeps` | Somebody is on the way to each connection that has events in its queue, however wakeups are merged. |
| `AsyncConnection_proofs!NothingIsLeft` | `NobodyLeft`, `AllCompleted` | When the loop's thread has ended every connection is broken, with an empty queue and at most a context that is closing; when `~EventLoop` has returned, every event that was sent is completed, once (the safety half of `EventsComplete` and `DestructorReturns`). |
| `SentinelNodes_proofs!TypeSafe` | `TypeOK` | Types, for any sentinels, nodes and `max_retry`. |
| `SentinelNodes_proofs!TriesAll` | `GivesUpAfterAll` | A call gives up only after it has tried every sentinel, whichever were set aside or connected again, in this call or in earlier ones. |
| `SentinelNodes_proofs!Refines` | `ImplementsLookup` | Every behaviour of the walk over the sentinels is one of `NodeLookup`: a node that is returned had the role that was asked for during the call. |
| `QueuedRedis_proofs!TypeSafe` | `TypeOK` | Types, for any objects, connections and commands, and whatever users do with `Redis` objects of failed transactions. |
| `QueuedRedis_proofs!PoolGetsCleanBack` | `PooledIsClean` | A connection in the pool that will be used as it is has nothing left in it, whoever gave it back and whatever failed; with and without `UseAfterFailure`. |
| `QueuedRedis_proofs!RepliesAreRead` | `RepliesMatch` | If users give up the `Redis` object of a failed `QueuedRedis`, nobody ever takes the reply to one command for that to another, and `exec()` converts replies by the right indexes. |
| `QueuedRedis_proofs!TransactionsAreWhole` | `AllOrNothing` | Under the same condition a server runs a queued command only if `exec()` was called for it, and a transaction as a whole or not at all. |
| `AsyncConnection_proofs!PoolTypeSafe` | `PoolTypeOK` | Types of the asynchronous pool, for any threads, connections, nodes and size. |
| `AsyncConnection_proofs!CommandsAreOnTheirWay` | `NobodyForgotten` | A connection with events is connected and asked, about to be handled by the loop, or in a task of the sentinel's worker: no command is forgotten, whichever connection or pool was given up meanwhile (the safety half of `EventsAnswered`). |
| `AsyncConnection_proofs!ConnectionsAreClosed` | `NothingLeaks` | A connection that is not closed is in the pool or with a thread, or the loop has been told to disconnect it (the safety half of `DiscardedCloses`). |
| `AsyncConnection_proofs!ConnectionsHaveOneOwner` | `OneOwner`, `UsedCounts` | A connection is idle in the pool or with one thread, once, and `_used_connections` counts those of both. |
| `AsyncConnection_proofs!ConnectionsHaveAddress` | `ConnectsToNodes` | No connection is made to the empty address. |
| `AsyncShardsPool_proofs!TypeSafe` | `TypeOK` | Types, for any cluster, any commands and any number of attempts: what the worker adopts is a map that the cluster has had. |
| `AsyncShardsPool_proofs!CoveredSlotsHavePools` | `NodesHavePools` | Every slot that the map in use covers has a pool, also after an older map was adopted, and with the pools that an ASK has added. |
| `AsyncShardsPool_proofs!RedirectedAreQueued` | `HeldIsQueued` | An event that waits to be delivered again is in the queue or in the worker's batch (the safety half of `EventsComplete`). |
| `AsyncShardsPool_proofs!WorkerStopsInTime` | `StoppedInTime` | The null event of the destructor is there, or the worker is over, exactly when nobody has a reference to the pool: it is neither lost nor early (the safety half of `DestructorReturns`). |
| `AsyncShardsPool_proofs!CommandsRunOnce` | `AtMostOnce` | A command is executed at most once, through redirections, redelivery by the worker and shutdown, once if its caller got the reply, and not at all if it failed before it was served; only a lost or unreadable reply leaves the caller in doubt. |

All of these hold for every value of the constants that satisfies the named
assumptions of the modules (`PoolAssumption`, `LockAssumption`,
`ClientAssumption`, `RetryAssumption`, `ResourceAssumption`, `WatcherAssumption`,
`ClusterAssumption`, `ShardsAssumption`, `AsyncAssumption`, `AsyncPoolAssumption`,
`AsyncShardsAssumption`,
`CommandsAssumption`, `QueuedAssumption`, `SentinelAssumption`, `NodesAssumption`;
`FirstLockIsHeldByQuorum` also assumes `Drift = 0`, and `RepliesAreRead` and
`TransactionsAreWhole` that `UseAfterFailure = FALSE`: TLC refutes both without it,
section 5), with the clock's `MaxTime`, the number of maps and the like
being arbitrary numbers. None of the properties is inductive by itself; the
strengthenings are:

- **ConnectionPool.** `HeldWhere` says at which `pc` a thread has a connection,
  `FreshUsable` that what the sentinel gave it is not broken. `FetchedNotBroken`
  follows with them and `Conservation`: a thread comes to `"using"` only past a
  reconnection or the test under the mutex, and nobody else touches its
  connection. `NoLostWakeup` counts: a connection enters the pool only with a
  thread that will notify, and a thread that stops coming took one with it, or
  left an empty pool; lemmas on sequences and cardinalities (`ComingChanges`)
  say how both sides change. Refinement: `Conservation` makes `OwnerOf`
  unambiguous (`OwnerIs`), and each step lends, gives back, or leaves `owned` as
  it was.
- **RedLockMutex.** `Counted` says of a client in its loop that, while there is
  time left, every master in `got` keeps its key until `start + Ttl`; a key
  expires no earlier than `Drift` before its time, so the masters stay counted
  until `TimeLeft` fails. The test of `TimeLeft` after the last reply makes a
  granted lock `Backed` by a quorum. Two quorums share a master
  (`QuorumsMeet`), which has one value: `AtMostOneHolder`. For
  `NothingLeftBehind`, `NoneBehind` says that a client that is unlocking has
  keys only on masters it has still to visit.
- **RedLock.** `GuardKnows`: between the return of the mutex and its own a guard
  holds a `timeLeft` that reaches at least as far as the lock; else
  `_release_tp` does. `Leaves`: every key of a client ends
  within a ttl of now, and, while it believes in a lock and its last call did not throw,
  within a ttl of that lock's end; any step but its own only takes keys away
  (`KeyOfStep`). So a destructor either goes through `unlock()`, which leaves nothing
  (`NoneBehind`), or finds `_release_tp` over, and the lock, which is in no case
  longer, with it. The guard's steps are steps of the mutex but for one: a destructor may
  unlock a mutex that has no lock, after an extension that failed
  (`DestructorUnlocks`).
- **RedMutexTx.** `WatchedOwn`: a client that watches a key and is not marked as
  touched has read its own value, and the key still has it. So EXEC changes only
  keys of its own client (`KeyMoves`), although PEXPIRE and DEL do not compare.
  `CountedKept` and `Backed` are those of `RedLockMutex`, for `try_lock()` only:
  `extend_lock()` counts masters where the key is not its own (section 5).
- **LockWatcher.** `BatchDone` says that the thread fetches tasks only when it
  has run those it had. Then `LockedIsWatched` is preserved action by action;
  those that could drop the last task of a locked mutex are `Fetch`,
  `StartTask`, `CheckLocked`, `ExtendUnlocked`, `Release` and `Reschedule`.
- **ShardsPool.** `AnswerInv`: what a thread is about to adopt is a map the
  cluster has had. `CommandInv`: a command that runs has no result yet, has not
  been executed as long as no reply was lost, and otherwise at most as often as
  attempts have ended.
- **SentinelNodes.** `left` counts what is still to be visited in the two lists.
  `NoneForgotten`: as long as the call iterates, a sentinel that was not tried is
  due (`IsDue`), whichever list it has been moved to; `NoneLost`: each sentinel is
  in one of the lists. Refinement: `SentinelNodes` looks a node up from the call
  until it returns, and `Found` is the only step that finds one.
- **QueuedRedis.** `Exclusive`: a connection is idle, with one object, or with one
  plain user. `Talks` is what an object and its connection know of each other:
  which replies are outstanding (`Expected`, a part of `cmds` that depends on
  what the method is doing), whether the server is inside of MULTI (`InMulti`),
  and which commands it has queued (`InQueue`). `Matches` keeps `Talks` for a
  valid object; an invalid one has a broken connection, unless it is the
  object's own: such a connection is `Harmless` as long as nobody uses it, and
  that is where `UseAfterFailure` comes in. A connection that nobody has is
  `Clean`. These are facts about two records; `Placed` puts them back into the state, so that each
  step is a lemma about records. `RepliesMatch` is then one step further.
  `AllOrNothing` needs the history besides: a command is of one object, and
  `Executing` says whether `exec()` was called for it (`Issued`, `Batched`);
  the server runs nothing, one batch, or a command that nobody queued
  (`RunsForQueue`), and a batch is called for once, before any of it has run.
- **AsyncShardsPool.** `OnePlace`: the event of a command is in the queue, in the
  batch of the worker, on the loop, or over. `Unfinished`: while there is an
  event, its command has no result and was not executed. An event is therefore
  never redelivered after its command ran, which is what `AtMostOnce` needs.
  `WorkerInv` adds what the worker knows: it waits for events only with an empty
  batch (`WaitsForMore`), so that `_fetch_events()` overwrites nothing, and adopts only what
  a node has answered (`AdoptsMap`). `StoppedInTime` is an equivalence, since
  the step that completes the last event has to know that there is no null event
  yet, and the one that takes it that no event is left.
- **AsyncConnection.** `ConnOK` ties the state of a connection to its context, to
  the one command that waits for a reply and to what the server has accepted;
  `AfterAgreed` says that the next command of the handshake is the first of those
  left. `Moves` is what every step does to events: those it completes were with
  a connection, and the others stay with theirs. `NobodySleeps` needs
  `LeavingInv` (who is given up gets disconnected), `SetsInv` (the sets are
  never filled without a wakeup) and `AppGone` (nobody fills them after the loop
  has stopped). At the end of the loop these leave nothing in a queue (`NobodyLeft`).
- **AsyncConnectionPool.** `PoolInv` is in four parts, and every step keeps each of them
  given the first. `PoolBase`: the types, that a thread has a connection exactly
  while it is inside, and that the worker has a task and a pool whenever it looks
  a node up. `Addresses`: a connection that is to be connected has the host of a node, also in
  the values that a thread has read before (`seen`). `Links`: `AddressComes`, a connection
  without an address has a task or will be closed, carries the other two over
  `Replace` and the end of the pool. `Ownership`: with lemmas on sequences
  (`FirstTaken`, `NewAtTheEnd`) and cardinalities, `OneOwner` gives `UsedCounts`, and that
  gives the type of `used`.

Only model-checked: liveness (`WaitEnds`, `ServedUnlessOvertaken`,
`FailoverHeals`, `LostLockIsNoticed`, `CommandEnds`, `CallReturns`,
`EventsAnswered`, `DiscardedCloses`, both `MapConverges` and `EventsComplete`,
every `DestructorReturns`), which is out of the prover's reach, as are the
recursive function of `ParseReply` and the agreement of `Hashed` with a loop
(both need induction); and the counterexamples below, for which one instance is
enough. Every invariant, every action property and both refinements that a run
checks are proved.

## 5. Known departures

The runs above hold. Where the code does not do what its documentation or a
comment says, the property of a run would be too strong, and the properties
were stated for what does hold. Each departure has a configuration of its own that
TLC refutes with a trace (`tlc -config <file> <module>`):

| configuration, module | property | what happens |
|---|---|---|
| `MCRedMutexTx_two_holders.cfg`, `MCRedMutexTx` | `AtMostOneHolder` | `RedMutexTx::_extend_lock_master` returns true also when GET finds no key, or another client's value (`patterns/redlock.cpp:127`, after the branch commented at :123): an extension counts masters where the lock is lost, and two clients hold it (README.md:2939: "So only one client can acquire the lock"). |
| `MCRedMutexTx_leaves.cfg`, `MCRedMutexTx` | `NothingLeftBehind` | After a failed attempt `unlock(_resource)` passes the name of the resource where the value is expected (`patterns/redlock.cpp:40`, also :51, :77, :88): the keys it did set stay until they expire. |
| `MCLockWatcher_tx.cfg`, `MCLockWatcher` | `EveryLossIsNoticed` | For the same reason the watcher's task of a mutex made with `scripting = false` extends a lock that is lost, again and again (README.md:2953: "If failing to automatically extend the lock, this error callback will be called"). |
| `MCRedLock_two_owners.cfg`, `MCRedLock` | `AtMostOneOwner` | The guard adds the time that was left to a `now()` after the mutex returned (`patterns/redlock.h:126`): it owns the lock until later than the lock is valid, and another guard locks meanwhile (README.md:2939). No command fails in the trace. |
| `MCLockWatcher_crash.cfg`, `MCLockWatcher` | `NoSelfJoin` | The task has the last reference to the mutex, and the mutex that to the watcher: `~LockWatcher` joins its own thread (`patterns/redlock.cpp:462`). |
| `MCAsyncConnection_crash.cfg`, `MCAsyncConnection` | `NoSelfJoin` | The reference that `_connect()` takes on the loop's thread (`async_connection.cpp:484`) is the last one: `~EventLoop` joins its own thread. |
| `MCAsyncShardsPool_crash.cfg`, `MCAsyncShardsPool` | `NoSelfJoin` | The worker drops the event with the last reference to the pool: `~AsyncShardsPool` joins its own thread (`async_shards_pool.cpp:58`). |
| `MCAsyncConnectionPool_stale.cfg`, `MCAsyncConnectionPool` | `FailoverHeals` | A connection that waits for the sentinel is recognised by an empty host (`async_connection.cpp:459`), but one that the pool makes after the first answer has the host of that answer: it connects to the old master before its own answer arrives, and stays there while it is not lost (README.md:2340: "will always connect to current master instance, even if a failover occurs", and :2659). |
| `MCQueuedRedis_handle.cfg`, `MCQueuedRedis` | `RepliesMatch` | The comment at `queued_redis.h:40` says that a `QueuedRedis` resets its connection when a command throws; one with a connection of its own keeps it as it is, and a `Redis` object that shares it and is used afterwards reads the replies of queued commands. |

The first two are slips whose repair is plain: return `false` at :127 for a key that is
not the client's, and pass the lock id. The self-joins need a rare order of
destruction. In `AsyncSentinel` the like happens, which is not modelled: its worker may
drop the last reference to a pool, and `AsyncConnectionPool`'s destructor or the
handler of a failed update asks for a loop that is gone
(`async_connection_pool.cpp:96`, "This should not happen").

## 6. Plan

Every part of the inventory that has state of its own, except the subscribers, has
a module now. All the safety properties of the runs are proved, and so are
types and the safety halves of the liveness properties of the asynchronous parts and of
the watcher. What is left:

1. **`ClusterNodes`**: the lemmas about its maps are needed by the proofs of both shards
   pools, and are written down in both.
2. **`RedLockMutex`**: an abstract lock with leases, of which at most one is valid at a
   time, and the theorem that Redlock implements it (`AtMostOneHolder` and
   `HeldByQuorum` are what its refinement needs).

Compositions: `AsyncConnectionPool` runs over `NodeLookup`, which `SentinelNodes`
implements; both shards pools run over `ClusterNodes`. Larger ones (the
asynchronous shards pool over `AsyncConnectionPool` over `AsyncConnection`) would
multiply state spaces whose halves meet only in `send()` and a callback.

## 7. What is not modelled, and why

Of the lines of the library about two in three are one function for each Redis
command, written out for each interface: `redis.h`, `redis.hpp`,
`redis_cluster.h`, most of `redis_cluster.hpp`, `redis.cpp`, `redis_cluster.cpp`, `queued_redis.h`,
`async_redis.h`, `async_redis_cluster.h`, `co_redis*.h`, `command.h`,
`command_args.h`, `cmd_formatter.h`. Each maps arguments to bytes
and a reply to a value, keeps nothing and waits for nothing; all of them go
through the few functions that are modelled (`Redis::command`,
`RedisCluster::_command`, `QueuedRedis::command`, `AsyncConnection::send`). A model
would repeat one action a few hundred times. So the share of the lines that the modules stand for is
small, while the files with state (`connection_pool`, `shards_pool`, `sentinel`,
`queued_redis.hpp`, `transaction`, `event_loop`, the `async_*.cpp`, `redlock`)
are covered but for parsing, options and constructors.

- **Subscribers**: the synchronous one is a call of `recv()` and a switch over the
  kinds of messages. What is hard there, a message that was half read when the
  time was up, is kept by hiredis; `reset()` does not touch it. The asynchronous
  one sends events of `AsyncConnection` and hands messages to callbacks by the same switch.
- **Several nodes in one pool's life** other than by failover: moving a pool,
  copying its options, and `Role::SLAVE` in the synchronous pool (the same
  steps with another question).
- **`create()` and `clone()` of the asynchronous pool**, which give a new
  connection or pool to one caller, and the end of the worker of `AsyncSentinel`.
- **The commands of a synchronous handshake** (AUTH, SELECT, HELLO, READONLY): a
  connection is made or it is not. Their order is modelled for the asynchronous one.
- **Parsing the types of the reply to CLUSTER SLOTS, of URIs and of redirection
  errors**; the CRC table: data without behaviour.
- **Requests in flight after their timeout**: see the assumptions.
- **What callbacks of the user call**: the error callback of a watcher runs under the
  mutex of `RedMutexImpl`, so one that calls `unlock()` waits for itself.
- **The order of asynchronous commands in a cluster** that are delivered again:
  nothing promises it.
- **TLS, coroutines, language shims**: wrappers of other libraries.
- **Tests, build files and examples** were read as documentation.
